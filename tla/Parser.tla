------------------------------- MODULE Parser -------------------------------
(***************************************************************************)
(* Parser.cpp: the statement that a sequence of tokens stands for.         *)
(*                                                                         *)
(* A parse function of the code is here an operator of the tokens ts and   *)
(* the position p it starts at (m_pos); it yields the position behind what *)
(* it has read and the value it returns.  Position 0 is an exception under *)
(* way: no token is there, so whatever is read next throws as well.        *)
(*                                                                         *)
(* The type of a keyword or a symbol is its own text.                      *)
(***************************************************************************)
EXTENDS Conditions

CONSTANTS
    Number(_),      \* std::stoi, std::stod: the number that digits spell
    MaxInt          \* the largest one an int holds; a LIMIT holds any of the model

Thrown == [pos |-> 0, val |-> <<>>]

Peek(ts, p) ==
    IF p = 0 THEN "THROWN" ELSE IF p \in DOMAIN ts THEN ts[p].type ELSE "END_OF_FILE"

match(ts, p, type)  == IF Peek(ts, p) = type THEN p + 1 ELSE p
expect(ts, p, type) == IF Peek(ts, p) = type THEN p + 1 ELSE 0

expectAll(ts, p, types) == FoldLeft(LAMBDA q, type : expect(ts, q, type), p, types)

\* One token, with its text or number.
expectToken(ts, p, types) ==
    IF Peek(ts, p) \in types THEN [pos |-> p + 1, val |-> ts[p].value] ELSE Thrown

\* do { Item } while (match(","))
CommaList(ts, first, Item(_, _)) ==
    LET list[p \in 0 .. Len(ts) + 1] ==
            LET item == Item(ts, p)
                rest == list[item.pos + 1]
            IN  IF Peek(ts, item.pos) = ","
                THEN [pos |-> rest.pos, val |-> <<item.val>> \o rest.val]
                ELSE [pos |-> item.pos, val |-> <<item.val>>]
    IN  list[first]

\* if (match(keyword)) Part
Optional(ts, p, keyword, Part(_, _), absent) ==
    IF Peek(ts, p) = keyword THEN Part(ts, p + 1) ELSE [pos |-> p, val |-> absent]

-----------------------------------------------------------------------------
(* Names and values.                                                       *)

AggToken == {"COUNT", "SUM", "AVG", "MIN", "MAX"}

IdentifierToken ==
    {"IDENTIFIER", "USERS", "USER", "ALL", "ASC", "DESC", "ROLE", "PASSWORD", "AUTH",
     "ADMIN", "READONLY", "READWRITE"} \cup AggToken

parseIdentifier(ts, p) == expectToken(ts, p, IdentifierToken)

parseInteger(ts, p) ==
    IF Peek(ts, p) = "LIT_INTEGER" THEN [pos |-> p + 1, val |-> Number(ts[p].value)] ELSE Thrown

Literal(kind, data) == [kind |-> kind, data |-> data]

parseValue(ts, p) ==
    LET Read(v) == [pos |-> p + 1, val |-> v]
        type    == Peek(ts, p)
    IN  CASE type = "LIT_INTEGER" ->
               IF Number(ts[p].value) > MaxInt THEN Thrown
               ELSE Read(Literal("INT", Number(ts[p].value)))
          [] type = "LIT_FLOAT"   -> Read(Literal("FLOAT", Number(ts[p].value)))
          [] type = "LIT_STRING"  -> Read(Literal("TEXT", ts[p].value))
          [] type = "TRUE"        -> Read(Literal("BOOL", 1))
          [] type = "FALSE"       -> Read(Literal("BOOL", 0))
          [] type = "NULL"        -> Read(NULL)
          [] OTHER                -> Thrown

-----------------------------------------------------------------------------
(* WHERE: OR of AND of NOT of a primary.                                   *)

\* Mutant: the two levels are mixed up.
LevelOperatorSwapped(level) == IF level = "or" THEN "AND" ELSE "OR"

LevelOperator(level) == IF level = "or" THEN "OR" ELSE "AND"
LevelBelow(level)    == IF level = "or" THEN "and" ELSE "not"

parseCompareOp(type) ==
    CASE type = "="  -> "EQ" [] type = "!=" -> "NEQ" [] type = "<"  -> "LT"
      [] type = ">"  -> "GT" [] type = "<=" -> "LE"  [] type = ">=" -> "GE"

CompareToken == {"=", "!=", "<", ">", "<=", ">="}

parseComparison(ts, p) ==
    LET name  == parseIdentifier(ts, p)
        value == parseValue(ts, name.pos + 1)
    IN  IF Peek(ts, name.pos) \in CompareToken /\ value.pos # 0
        THEN [pos |-> value.pos,
              val |-> <<Leaf(name.val, parseCompareOp(Peek(ts, name.pos)), value.val)>>]
        ELSE Thrown

\* "rest" of a level is its loop: operators and right sides while they come.
parseWhere(ts, first) ==
    LET at[level \in {"or", "and", "not", "primary"}, part \in {"all", "rest"},
           p \in 0 .. Len(ts) + 1] ==
            LET next  == match(ts, p, LevelOperator(level))
                left  == at[LevelBelow(level), "all", IF part = "all" THEN p ELSE next]
                more  == at[level, "rest", left.pos]
                inner == at["primary", "all", p + 1]
                cond  == at["or", "all", p + 1]
            IN  CASE level \in {"or", "and"} /\ part = "all" ->
                       [pos |-> more.pos, val |-> left.val \o more.val]
                  [] level \in {"or", "and"} /\ part = "rest" ->
                       IF next = p THEN [pos |-> p, val |-> <<>>]
                       ELSE [pos |-> more.pos,
                             val |-> left.val \o <<IF level = "or" THEN Or ELSE And>> \o more.val]
                  [] level = "not" ->
                       IF Peek(ts, p) = "NOT"
                       THEN [pos |-> inner.pos, val |-> Append(inner.val, Not)]
                       ELSE at["primary", "all", p]
                  [] level = "primary" ->
                       IF Peek(ts, p) = "("
                       THEN [pos |-> expect(ts, cond.pos, ")"), val |-> cond.val]
                       ELSE parseComparison(ts, p)
    IN  at["or", "all", first]

parseWhereClause(ts, p) == Optional(ts, p, "WHERE", parseWhere, <<>>)

-----------------------------------------------------------------------------
(* SELECT.                                                                 *)

parseSelectItem(ts, p) ==
    LET open == expect(ts, p + 1, "(")
        arg  == IF Peek(ts, open) = "*" THEN [pos |-> open + 1, val |-> "*"]
                ELSE parseIdentifier(ts, open)
        col  == parseIdentifier(ts, p)
    IN  IF Peek(ts, p) \in AggToken
        THEN [pos |-> expect(ts, arg.pos, ")"), val |-> [agg |-> Peek(ts, p), arg |-> arg.val]]
        ELSE [pos |-> col.pos, val |-> [agg |-> "NONE", arg |-> col.val]]

\* No items: *.
parseItems(ts, p) ==
    IF Peek(ts, p) = "*" THEN [pos |-> p + 1, val |-> <<>>]
    ELSE CommaList(ts, p, parseSelectItem)

\* Mutant: the sides of ON are exchanged.
parseJoinBackwards(ts, p) ==
    LET table == parseIdentifier(ts, expect(ts, match(ts, p, "INNER"), "JOIN"))
        left  == parseIdentifier(ts, expect(ts, table.pos, "ON"))
        right == parseIdentifier(ts, expect(ts, left.pos, "="))
    IN  [pos |-> right.pos,
         val |-> [table |-> table.val, leftCol |-> right.val, rightCol |-> left.val]]

parseJoin(ts, p) ==
    LET table == parseIdentifier(ts, expect(ts, match(ts, p, "INNER"), "JOIN"))
        left  == parseIdentifier(ts, expect(ts, table.pos, "ON"))
        right == parseIdentifier(ts, expect(ts, left.pos, "="))
    IN  [pos |-> right.pos,
         val |-> [table |-> table.val, leftCol |-> left.val, rightCol |-> right.val]]

parseJoins(ts, first) ==
    LET at[p \in 0 .. Len(ts) + 1] ==
            LET join == parseJoin(ts, p)
                rest == at[join.pos]
            IN  IF Peek(ts, p) \in {"INNER", "JOIN"}
                THEN [pos |-> rest.pos, val |-> <<join.val>> \o rest.val]
                ELSE [pos |-> p, val |-> <<>>]
    IN  at[first]

parseNames(ts, p)   == CommaList(ts, p, parseIdentifier)
parseGroupBy(ts, p) == parseNames(ts, expect(ts, p, "BY"))

parseOrderByClause(ts, p) ==
    LET column == parseIdentifier(ts, p)
        desc   == Peek(ts, column.pos) = "DESC"
    IN  [pos |-> IF desc THEN column.pos + 1 ELSE match(ts, column.pos, "ASC"),
         val |-> [column |-> column.val, ascending |-> ~desc]]

parseOrderBy(ts, p) == CommaList(ts, expect(ts, p, "BY"), parseOrderByClause)

parseLimit(ts, p) ==
    LET limit  == parseInteger(ts, p)
        offset == Optional(ts, limit.pos, "OFFSET", parseInteger, 0)
    IN  [pos |-> offset.pos, val |-> [limit |-> limit.val, offset |-> offset.val]]

\* What HAVING says is in the tree and nothing reads it.
parseSelect(ts, p) ==
    LET items   == parseItems(ts, expect(ts, p, "SELECT"))
        table   == parseIdentifier(ts, expect(ts, items.pos, "FROM"))
        joins   == parseJoins(ts, table.pos)
        where   == parseWhereClause(ts, joins.pos)
        groupBy == Optional(ts, where.pos, "GROUP", parseGroupBy, <<>>)
        having  == Optional(ts, groupBy.pos, "HAVING", parseWhere, <<>>)
        orderBy == Optional(ts, having.pos, "ORDER", parseOrderBy, <<>>)
        limit   == Optional(ts, orderBy.pos, "LIMIT", parseLimit, [limit |-> -1, offset |-> 0])
    IN  [pos |-> limit.pos,
         val |-> [table |-> table.val, joins |-> joins.val, where |-> where.val,
                  items |-> items.val, groupBy |-> groupBy.val, orderBy |-> orderBy.val,
                  limit |-> limit.val.limit, offset |-> limit.val.offset]]

-----------------------------------------------------------------------------
(* The other statements on tables and databases.                           *)

parseGroup(ts, p) ==
    LET row == CommaList(ts, expect(ts, p, "("), parseValue)
    IN  [pos |-> expect(ts, row.pos, ")"), val |-> row.val]

parseColumnList(ts, p) ==
    LET names == parseNames(ts, p)
    IN  [pos |-> expect(ts, names.pos, ")"), val |-> names.val]

parseInsert(ts, p) ==
    LET table   == parseIdentifier(ts, expectAll(ts, p, <<"INSERT", "INTO">>))
        columns == Optional(ts, table.pos, "(", parseColumnList, <<>>)
        values  == CommaList(ts, expect(ts, columns.pos, "VALUES"), parseGroup)
    IN  [pos |-> values.pos,
         val |-> [op |-> "INSERT", table |-> table.val, columns |-> columns.val,
                  values |-> values.val]]

parseAssignment(ts, p) ==
    LET column == parseIdentifier(ts, p)
        value  == parseValue(ts, expect(ts, column.pos, "="))
    IN  [pos |-> value.pos, val |-> <<column.val, value.val>>]

parseUpdate(ts, p) ==
    LET table == parseIdentifier(ts, expect(ts, p, "UPDATE"))
        set   == CommaList(ts, expect(ts, table.pos, "SET"), parseAssignment)
        where == parseWhereClause(ts, set.pos)
    IN  [pos |-> where.pos,
         val |-> [op |-> "UPDATE", table |-> table.val, assignments |-> set.val,
                  where |-> where.val]]

parseDelete(ts, p) ==
    LET table == parseIdentifier(ts, expectAll(ts, p, <<"DELETE", "FROM">>))
        where == parseWhereClause(ts, table.pos)
    IN  [pos |-> where.pos, val |-> [op |-> "DELETE", table |-> table.val, where |-> where.val]]

parseUse(ts, p) ==
    LET db == parseIdentifier(ts, expect(ts, p, "USE"))
    IN  [pos |-> db.pos, val |-> [op |-> "USE", db |-> db.val]]

parseLength(ts, p) ==
    LET n == parseInteger(ts, p)
    IN  [pos |-> expect(ts, n.pos, ")"), val |-> n.val]

parseColumnDef(ts, p) ==
    LET name  == parseIdentifier(ts, p)
        type  == Peek(ts, name.pos)
        param == IF type = "VARCHAR" THEN Optional(ts, name.pos + 1, "(", parseLength, 0)
                 ELSE [pos |-> name.pos + 1, val |-> 0]
    IN  IF type \in Types
        THEN [pos |-> param.pos, val |-> [name |-> name.val, type |-> type, param |-> param.val]]
        ELSE Thrown

parseCreateTable(ts, p) ==
    LET table   == parseIdentifier(ts, p)
        columns == CommaList(ts, expect(ts, table.pos, "("), parseColumnDef)
    IN  [pos |-> expect(ts, columns.pos, ")"),
         val |-> [op |-> "CREATE TABLE", table |-> table.val, columns |-> columns.val]]

\* CREATE USER name [WITH [PASSWORD] 'text'] [ROLE role]
parseCreateUser(ts, p) ==
    LET name     == parseIdentifier(ts, p)
        password == IF Peek(ts, name.pos) # "WITH" THEN [pos |-> name.pos, val |-> ""]
                    ELSE expectToken(ts, match(ts, name.pos + 1, "PASSWORD"), {"LIT_STRING"})
        role     == match(ts, password.pos, "ROLE")
        given    == role # password.pos /\ Peek(ts, role) \in {"ADMIN", "READWRITE", "READONLY"}
    IN  [pos |-> IF given THEN role + 1 ELSE role,
         val |-> [op |-> "CREATE USER", username |-> name.val, password |-> password.val,
                  role |-> IF given THEN Peek(ts, role) ELSE "READWRITE"]]

\* CREATE and DROP, with what kind of thing the second token says.
parseNamed(ts, p, verb) ==
    LET kind == Peek(ts, p + 1)
        name == parseIdentifier(ts, p + 2)
    IN  CASE verb = "CREATE" /\ kind = "TABLE" -> parseCreateTable(ts, p + 2)
          [] verb = "CREATE" /\ kind = "USER"  -> parseCreateUser(ts, p + 2)
          [] <<verb, kind>> \in {<<"CREATE", "DATABASE">>, <<"DROP", "DATABASE">>,
                                 <<"DROP", "TABLE">>, <<"DROP", "USER">>} ->
               [pos |-> name.pos, val |-> [op |-> verb, kind |-> kind, name |-> name.val]]
          [] OTHER -> Thrown

-----------------------------------------------------------------------------
(* Users.                                                                  *)

Rights == <<"SELECT", "INSERT", "UPDATE", "DELETE">>

\* Each right at most once and in this order, a comma after it or not; none will do.
parsePrivList(ts, p) ==
    IF Peek(ts, p) = "ALL" THEN [pos |-> p + 1, val |-> Range(Rights)]
    ELSE FoldLeft(LAMBDA list, right :
                      IF Peek(ts, list.pos) = right
                      THEN [pos |-> match(ts, list.pos + 1, ","), val |-> list.val \cup {right}]
                      ELSE list,
                  [pos |-> p, val |-> {}], Rights)

\* GRANT ... TO and REVOKE ... FROM
parseGrant(ts, p, op, preposition) ==
    LET rights == parsePrivList(ts, p + 1)
        on     == expect(ts, rights.pos, "ON")
        table  == IF Peek(ts, on) = "*" THEN [pos |-> on + 1, val |-> "*"]
                  ELSE parseIdentifier(ts, on)
        user   == parseIdentifier(ts, expect(ts, table.pos, preposition))
    IN  [pos |-> user.pos,
         val |-> [op |-> op, rights |-> rights.val, table |-> table.val, username |-> user.val]]

parseAuth(ts, p) ==
    LET user     == expectToken(ts, p + 1, {"IDENTIFIER"})
        password == expectToken(ts, user.pos, {"LIT_STRING"})
    IN  [pos |-> password.pos,
         val |-> [op |-> "AUTH", username |-> user.val, password |-> password.val]]

-----------------------------------------------------------------------------

parseStatement(ts, p) ==
    LET type == Peek(ts, p)
    IN  CASE type = "SELECT" -> parseSelect(ts, p)
          [] type = "INSERT" -> parseInsert(ts, p)
          [] type = "UPDATE" -> parseUpdate(ts, p)
          [] type = "DELETE" -> parseDelete(ts, p)
          [] type \in {"CREATE", "DROP"} -> parseNamed(ts, p, type)
          [] type = "USE"    -> parseUse(ts, p)
          [] type = "GRANT"  -> parseGrant(ts, p, "GRANT", "TO")
          [] type = "REVOKE" -> parseGrant(ts, p, "REVOKE", "FROM")
          [] type = "SHOW"   -> [pos |-> expectAll(ts, p, <<"SHOW", "USERS">>),
                                 val |-> [op |-> "SHOW USERS"]]
          [] type = "AUTH"   -> parseAuth(ts, p)
          [] OTHER           -> Thrown

\* One statement and its semicolon; what stands behind them is not looked at.
parse(ts) ==
    LET statement == parseStatement(ts, 1)
    IN  [statement EXCEPT !.pos = match(ts, @, ";")]

Parses(ts) == parse(ts).pos # 0
=============================================================================

------------------------------- MODULE Lexer --------------------------------
(***************************************************************************)
(* Lexer.cpp: the tokens of a text.                                        *)
(*                                                                         *)
(* A text is a sequence of characters; a run of letters of which no part   *)
(* matters, like "SELECT" or "name", counts as one.  A token has its type  *)
(* (for a keyword or a symbol its own text) and the characters it has been *)
(* read from, of a string what it stands for.                              *)
(***************************************************************************)
EXTENDS Integers, SequencesExt

CONSTANTS
    Letter, Digit,  \* characters of names and of numbers
    Upper           \* of each letter, the one it is in upper case

ASSUME LetterAssumption == Letter \cap Digit = {} /\ Upper \in [Letter -> Letter]

Keyword ==
    {"SELECT", "FROM", "WHERE", "INSERT", "INTO", "VALUES", "UPDATE", "SET", "DELETE", "CREATE",
     "DROP", "TABLE", "DATABASE", "USE", "INT", "FLOAT", "BOOL", "TEXT", "VARCHAR", "AND", "OR",
     "NOT", "TRUE", "FALSE", "NULL", "ORDER", "BY", "ASC", "DESC", "LIMIT", "OFFSET", "GROUP",
     "HAVING", "COUNT", "SUM", "AVG", "MIN", "MAX", "JOIN", "INNER", "ON", "USER", "PASSWORD",
     "WITH", "ROLE", "GRANT", "REVOKE", "TO", "ALL", "SHOW", "USERS", "AUTH", "READONLY",
     "READWRITE", "ADMIN"}

\* Two types have a second spelling.
KeywordType(word) ==
    CASE word = "INTEGER" -> "INT" [] word = "BOOLEAN" -> "BOOL"
      [] word \in Keyword -> word [] OTHER -> "IDENTIFIER"

Blank  == {" ", "\n", "\t", "\r"}
Symbol == {"=", "<", ">", "(", ")", ",", ";", "*"}

\* The two-character operators, by their first character.
WithEquals == [c \in {"<", ">", "!"} |-> CASE c = "<" -> "<=" [] c = ">" -> ">=" [] c = "!" -> "!="]

peek(text, p) == IF p \in DOMAIN text THEN text[p] ELSE "END"

\* Where the run of these characters that begins at p ends.
RunEnd(text, p, In) == Min({q \in p .. Len(text) : text[q] \notin In} \cup {Len(text) + 1})

\* What has been read and the position behind it; position 0 is an exception.
Token(pos, type, value) == [pos |-> pos, val |-> [type |-> type, value |-> value]]
NoToken == Token(0, "NONE", <<>>)

\* A second point is not part of the number.
readNumber(text, p) ==
    LET run   == RunEnd(text, p, Digit \cup {"."})
        point == RunEnd(text, p, Digit)
        end   == IF point < run THEN RunEnd(text, point + 1, Digit) ELSE run
    IN  Token(end, IF point < run THEN "LIT_FLOAT" ELSE "LIT_INTEGER", SubSeq(text, p, end - 1))

\* Mutant: an escaped quote ends the string.
CharLengthOne(c) == 1

\* A backslash stands with the character behind it.
CharLength(c) == IF c = "\\" THEN 2 ELSE 1

StringChar(text, p) ==
    CASE text[p] # "\\"           -> text[p]
      [] peek(text, p + 1) = "n"  -> "\n"
      [] peek(text, p + 1) = "t"  -> "\t"
      [] OTHER                    -> peek(text, p + 1)

readString(text, quote) ==
    LET at[p \in quote + 1 .. Len(text) + 2] ==
            CASE peek(text, p) = "END" -> NoToken
              [] peek(text, p) = "'"   -> Token(p + 1, "LIT_STRING", <<>>)
              [] OTHER -> [at[p + CharLength(text[p])] EXCEPT !.val.value = <<StringChar(text, p)>> \o @]
    IN  at[quote + 1]

readIdentifierOrKeyword(text, p) ==
    LET end  == RunEnd(text, p, Letter \cup Digit)
        word == SubSeq(text, p, end - 1)
    IN  Token(end, IF Len(word) = 1 THEN KeywordType(Upper[word[1]]) ELSE "IDENTIFIER", word)

TokenAt(text, p) ==
    LET c == text[p]
    IN  CASE c \in Digit  -> readNumber(text, p)
          [] c = "'"      -> readString(text, p)
          [] c \in Letter -> readIdentifierOrKeyword(text, p)
          [] c \in DOMAIN WithEquals /\ peek(text, p + 1) = "=" ->
               Token(p + 2, WithEquals[c], <<WithEquals[c]>>)
          [] c \in Symbol -> Token(p + 1, c, <<c>>)
          [] OTHER        -> NoToken

\* "--" and the rest of its line are left out.
tokenize(text) ==
    LET at[p \in 1 .. Len(text) + 1] ==
            LET start   == RunEnd(text, p, Blank)
                token   == TokenAt(text, start)
                lineEnd == Min({q \in start .. Len(text) : text[q] = "\n"} \cup {Len(text) + 1})
            IN  CASE start > Len(text) -> [pos |-> start, val |-> <<>>]
                  [] peek(text, start) = "-" /\ peek(text, start + 1) = "-" -> at[lineEnd]
                  [] start \in DOMAIN text /\ token.pos = 0 -> [pos |-> 0, val |-> <<>>]
                  [] OTHER -> [at[token.pos] EXCEPT !.val = <<token.val>> \o @]
    IN  at[1]
=============================================================================

----------------------------------- MODULE Sql ---------------------------------
(***************************************************************************)
(* The texts of the system, as functions: the lexer and the parser of      *)
(* statements, the encoding of values in pages and in the log, and the     *)
(* statements that recovery pastes together from the log.                  *)
(*                                                                         *)
(* A text is a sequence of characters.  A word that matters as a whole,    *)
(* a keyword above all, counts as one letter.                              *)
(*                                                                         *)
(* The grammar nests nothing, so the parser is a table: which token leads  *)
(* from which place in a statement to which other.  A place is named after *)
(* the token just consumed.  The errors it tells apart are one, Refused.   *)
(***************************************************************************)
EXTENDS Integers, SequencesExt

CONSTANTS
    Letter,     \* the letters, and the words that count as one
    Upper,      \* std::toupper of a letter, as a function
    Refused     \* what parse returns for a text that is no statement

Digits == <<"0", "1", "2", "3", "4", "5", "6", "7", "8", "9">>
Digit == ToSet(Digits)

Keyword == {"SELECT", "INSERT", "DELETE", "FROM", "WHERE", "INTO", "VALUES", "CREATE",
            "TABLE", "INT", "STRING", "DROP", "UPDATE", "SET", "USE", "DATABASE",
            "FLOAT", "BOOL"}

ASSUME SqlAssumption ==
    /\ Keyword \subseteq Letter
    /\ Upper \in [Letter -> Letter]
    /\ Letter \cap Digit = {}

--------------------------------------------------------------------------------
(* Lexer *)

Space == {" ", "\n", "\r"}
WordChar == Letter \cup Digit \cup {"_"}

\* Where a run of characters of C that starts at i is over.
EndOfRun(s, i, C) ==
    CHOOSE j \in i .. Len(s) + 1 :
        /\ \A k \in i .. j - 1 : s[k] \in C
        /\ j <= Len(s) => s[j] \notin C

Token(type, value) == [type |-> type, value |-> value]
EndOfFile == Token("END_OF_FILE", <<>>)

Word(w) ==
    IF Len(w) = 1 /\ w[1] \in Letter /\ Upper[w[1]] \in Keyword
    THEN Token("KEYWORD", <<Upper[w[1]]>>)
    ELSE Token("IDENTIFIER", w)

\* Mutant: a number is over at its dot.
NumberEnd_Dot(s, i) == EndOfRun(s, i, Digit)

\* The first dot belongs to the number, the second does not.
NumberEnd(s, i) ==
    LET dot == EndOfRun(s, i, Digit)
    IN  IF dot <= Len(s) /\ s[dot] = "." THEN EndOfRun(s, dot + 1, Digit) ELSE dot

\* Mutant: a quote always closes.
Quoted_NotDoubled(s, i) ==
    LET j == EndOfRun(s, i + 1, ToSet(s) \ {"'"})
    IN  [value |-> SubSeq(s, i + 1, j - 1), next |-> j + 1]

\* What a quote at i opens, a doubled quote in it being one, and where to go on.
\* It is over at the first quote that has no partner.
Quoted(s, i) ==
    LET run(j) == j - Max({k \in i .. j : k = i \/ s[k] # "'"})
        odd == {j \in i + 1 .. Len(s) : run(j) % 2 = 1}
        over == Min({j \in odd : j + 1 > Len(s) \/ s[j + 1] # "'"} \cup {Len(s) + 1})
        kept == SelectSeq([j \in 1 .. over - 1 |-> j], LAMBDA j : j > i /\ j \notin odd)
    IN  [value |-> [j \in DOMAIN kept |-> s[kept[j]]], next |-> over + 1]

\* The token that starts at i, if one does, and where to go on.  A character the
\* lexer does not know is skipped without a word.
Lexeme(s, i) ==
    LET c == s[i]
        to(j) == SubSeq(s, i, j - 1)
        one(type, j) == [tokens |-> <<Token(type, to(j))>>, next |-> j]
        word == EndOfRun(s, i, WordChar)
    IN  CASE c \in Letter -> [tokens |-> <<Word(to(word))>>, next |-> word]
          [] c \in Digit -> one("NUMBER", NumberEnd(s, i))
          [] c = "'" -> [tokens |-> <<Token("STRING", Quoted(s, i).value)>>,
                         next |-> Quoted(s, i).next]
          [] c \in {"=", "<", ">", "!"} ->
                one("OPERATOR", IF i < Len(s) /\ s[i + 1] = "=" THEN i + 2 ELSE i + 1)
          [] c \in {"(", ")", ","} -> one("PUNCTUATION", i + 1)
          [] c = "*" -> one("WILDCARD", i + 1)
          [] OTHER -> [tokens |-> <<>>, next |-> i + 1]

Tokenize(s) ==
    LET from[i \in 1 .. Len(s) + 2] ==
            IF i > Len(s) THEN <<EndOfFile>>
            ELSE Lexeme(s, i).tokens \o from[Lexeme(s, i).next]
    IN  from[1]

--------------------------------------------------------------------------------
(* Parser *)

\* Mutant: a word between quotes passes for the keyword.
Classes_ByText(t) ==
    {CASE t.type \in {"KEYWORD", "PUNCTUATION", "WILDCARD"} -> t.value[1]
       [] t.type = "STRING" -> IF t.value = <<>> THEN "''" ELSE t.value[1]
       [] OTHER -> t.type}
    \cup {c \in {"any ,"} : t.value = <<",">>}
    \cup {c \in {"any )"} : t.value = <<")">>}
    \cup {c \in {"literal"} : t.type \in {"NUMBER", "IDENTIFIER", "STRING"} /\ t.value # <<>>}
    \cup {c \in {"="} : t = Token("OPERATOR", <<"=">>)}

\* What the parser can ask of a token.  A string is a literal and nothing else,
\* an empty one not even that; but in three places the text of a token is
\* compared with "," or ")" whatever its type.
Classes(t) ==
    {CASE t.type \in {"KEYWORD", "PUNCTUATION", "WILDCARD"} -> t.value[1]
       [] t.type = "STRING" -> IF t.value = <<>> THEN "''" ELSE "literal"
       [] OTHER -> t.type}
    \cup {c \in {"any ,"} : t.value = <<",">>}
    \cup {c \in {"any )"} : t.value = <<")">>}
    \cup {c \in {"literal"} : t.type \in {"NUMBER", "IDENTIFIER"}}
    \cup {c \in {"="} : t = Token("OPERATOR", <<"=">>)}

CreateRules ==
    {<<"CREATE", "TABLE", "CREATE TABLE">>, <<"CREATE TABLE", "IDENTIFIER", "new">>,
     <<"new", "(", "new (">>, <<"new (", "IDENTIFIER", "name">>}
    \cup {<<"name", type, "type">> : type \in {"INT", "STRING", "FLOAT", "BOOL"}}
    \cup {<<"type", "any ,", "new (">>, <<"type", "any )", "over">>}

SelectRules ==
    {<<"SELECT", "*", "all">>, <<"all", "FROM", "FROM">>,
     <<"SELECT", "IDENTIFIER", "shown">>, <<"shown", "any ,", "shown ,">>,
     <<"shown ,", "IDENTIFIER", "shown">>, <<"shown", "FROM", "FROM">>}

\* Mutant: an empty string is a value.
InsertRules_Empty ==
    {<<"INSERT", "INTO", "INTO">>, <<"INTO", "IDENTIFIER", "table">>,
     <<"table", "(", "columns">>, <<"columns", "IDENTIFIER", "column">>,
     <<"column", "any ,", "columns">>, <<"column", ")", "columns )">>,
     <<"table", "VALUES", "VALUES">>, <<"columns )", "VALUES", "VALUES">>,
     <<"VALUES", "(", "values">>, <<"values", "literal", "value">>, <<"values", "''", "value">>,
     <<"value", "any ,", "values">>, <<"value", ")", "over">>}

InsertRules ==
    {<<"INSERT", "INTO", "INTO">>, <<"INTO", "IDENTIFIER", "table">>,
     <<"table", "(", "columns">>, <<"columns", "IDENTIFIER", "column">>,
     <<"column", "any ,", "columns">>, <<"column", ")", "columns )">>,
     <<"table", "VALUES", "VALUES">>, <<"columns )", "VALUES", "VALUES">>,
     <<"VALUES", "(", "values">>, <<"values", "literal", "value">>,
     <<"value", "any ,", "values">>, <<"value", ")", "over">>}

DeleteRules == {<<"DELETE", "FROM", "FROM">>}

\* After FROM and a table, SELECT and DELETE go on alike.
WhereRules ==
    {<<"FROM", "IDENTIFIER", "source">>, <<"source", "WHERE", "WHERE">>,
     <<"source", "END_OF_FILE", "done">>}

ConditionRules ==
    {<<"WHERE", "IDENTIFIER", "tested">>, <<"tested", "OPERATOR", "op">>,
     <<"op", "literal", "limit">>, <<"limit", "END_OF_FILE", "done">>}

DropRules ==
    {<<"DROP", "TABLE", "DROP TABLE">>, <<"DROP TABLE", "IDENTIFIER", "dropped">>,
     <<"dropped", "END_OF_FILE", "done">>}

\* expectToken consumes an empty string, then a number or a name may follow it.
UpdateRules ==
    {<<"UPDATE", "IDENTIFIER", "updated">>, <<"updated", "SET", "SET">>,
     <<"SET", "IDENTIFIER", "assigned">>, <<"assigned", "=", "to">>,
     <<"to", "literal", "given">>, <<"to", "''", "to ''">>,
     <<"to ''", "NUMBER", "given">>, <<"to ''", "IDENTIFIER", "given">>,
     <<"given", ",", "SET">>, <<"given", "WHERE", "WHERE">>, <<"given", "END_OF_FILE", "done">>}

DatabaseRules ==
    {<<"CREATE", "DATABASE", "CREATE DATABASE">>, <<"DROP", "DATABASE", "DROP DATABASE">>,
     <<"USE", "DATABASE", "USE DATABASE">>}
    \cup {<<kind, "IDENTIFIER", "database">> :
            kind \in {"CREATE DATABASE", "DROP DATABASE", "USE", "USE DATABASE"}}
    \cup {<<"database", "END_OF_FILE", "done">>}

Dispatch ==
    {<<"start", k, k>> : k \in {"SELECT", "INSERT", "DELETE", "CREATE", "DROP", "UPDATE", "USE"}}
    \cup {<<"over", "END_OF_FILE", "done">>}

Rules == UNION {CreateRules, SelectRules, InsertRules, DeleteRules, WhereRules, ConditionRules,
                DropRules, UpdateRules, DatabaseRules, Dispatch}

\* The places that say which statement it is, and those whose token its object
\* (AST) keeps.
Kinds == {"SELECT", "INSERT", "DELETE", "UPDATE", "CREATE TABLE", "DROP TABLE",
          "CREATE DATABASE", "DROP DATABASE", "USE"}
Kept == {"all", "shown", "source", "tested", "op", "limit", "table", "column", "value", "new",
         "name", "type", "dropped", "updated", "assigned", "given", "database"}

Consume(p, t) ==
    LET to == {r[3] : r \in {r \in Rules : r[1] = p.at /\ r[2] \in Classes(t)}}
    IN  IF to = {} THEN [p EXCEPT !.at = "refused"]
        ELSE LET q == CHOOSE q \in to : TRUE
             IN  [at |-> q,
                  kind |-> IF q \in Kinds THEN q ELSE p.kind,
                  parts |-> IF q \in Kept THEN Append(p.parts, <<q, t.value>>) ELSE p.parts]

\* The parts of a statement that were consumed at one place.
Part(stmt, place) ==
    LET some == SelectSeq(stmt.parts, LAMBDA p : p[1] = place)
    IN  [i \in DOMAIN some |-> some[i][2]]

CountsAgree(stmt) == Len(Part(stmt, "column")) \in {0, Len(Part(stmt, "value"))}

Parse(tokens) ==
    LET p == FoldLeft(Consume, [at |-> "start", kind |-> "", parts |-> <<>>], tokens)
    IN  IF p.at = "done" /\ CountsAgree(p) THEN [kind |-> p.kind, parts |-> p.parts] ELSE Refused

--------------------------------------------------------------------------------
(* Values in pages and in the log *)

Escape == ("%" :> <<"%", "2", "5">>) @@ ("|" :> <<"%", "7", "C">>) @@ ("~" :> <<"%", "7", "E">>)
          @@ ("\n" :> <<"%", "0", "A">>) @@ ("\r" :> <<"%", "0", "D">>)

HexDigit == Digit \cup {"A", "B", "C", "D", "E", "F"}

WalEncode(s) ==
    FlattenSeq([i \in DOMAIN s |-> IF s[i] \in DOMAIN Escape THEN Escape[s[i]] ELSE <<s[i]>>])

\* Escapes that walEncode does not write stand for some other character, "?".
WalDecode(s) ==
    LET code(i) == SubSeq(s, i, i + 2)
        escaped(i) == s[i] = "%" /\ i + 2 <= Len(s) /\ {s[i + 1], s[i + 2]} \subseteq HexDigit
        char(i) == {c \in DOMAIN Escape : Escape[c] = code(i)}
        from[i \in 1 .. Len(s) + 1] ==
            IF i > Len(s) THEN <<>>
            ELSE IF escaped(i)
            THEN <<IF char(i) = {} THEN "?" ELSE CHOOSE c \in char(i) : TRUE>> \o from[i + 3]
            ELSE <<s[i]>> \o from[i + 1]
    IN  from[1]

\* std::getline to the end: what follows the last delimiter counts if there is any.
Split(s, delimiter) ==
    LET from[i \in 1 .. Len(s) + 2] ==
            IF i > Len(s) THEN <<>>
            ELSE LET j == EndOfRun(s, i, ToSet(s) \ {delimiter})
                 IN  <<SubSeq(s, i, j - 1)>> \o from[j + 1]
    IN  from[1]

Joined(texts, separator) ==
    FlattenSeq([i \in DOMAIN texts |-> IF i = 1 THEN texts[i] ELSE <<separator>> \o texts[i]])

\* A row in a page, and what rebuildIndex and selectRow make of it.
Serialized(row) == Joined([i \in DOMAIN row |-> WalEncode(row[i])], "|")
Deserialized(text) ==
    LET values == Split(text, "|") IN [i \in DOMAIN values |-> WalDecode(values[i])]

\* logInsert and logReplaceRow.
LogLine(table, row) ==
    <<"INSERT", "|">> \o table \o <<"|">> \o Serialized(row) \o <<"|", "0", "\n">>

RowData(parts) == Joined(SubSeq(parts, 3, Len(parts) - 1), "|")

\* readLog and the splitting in recover: the row of the first line, <<>> if the
\* line is too short to be one.
LoggedRow(log) ==
    LET parts == Split(Split(log, "\n")[1], "|")
    IN  IF Len(parts) < 4 THEN <<>> ELSE Deserialized(RowData(parts))

\* replaySQL of the statement that recover makes of a row: its values go in as
\* they are, without quotes.
Replayed(table, row) ==
    Parse(Tokenize(<<"INSERT", " ", "INTO", " ">> \o table \o <<" ", "VALUES", " ", "(">>
                   \o Joined(row, ",") \o <<")">>))

================================================================================

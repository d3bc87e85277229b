--------------------------------- MODULE SqlText -------------------------------
(***************************************************************************)
(* A statement on its way through the texts: a client writes it, the lexer *)
(* and the parser read it, its values go into pages and into the log, and  *)
(* recovery makes a statement of them again.                               *)
(*                                                                         *)
(* Typos are steps: a token of the text is lost, another one slips in or   *)
(* takes its place.  The properties hold for whatever the parser accepts.  *)
(***************************************************************************)
EXTENDS Select

CONSTANTS
    Statements, \* what clients send
    Retyped,    \* those of them that are mistyped
    Typos,      \* tokens that slip in
    MaxTypos,   \* bound
    Tables      \* tables statements are run on: [scheme, rows]

ASSUME SqlTextAssumption == Retyped \subseteq Statements /\ MaxTypos \in Nat

VARIABLES
    stmt,       \* the statement the client means
    tokens,     \* what the lexer makes of its text
    typos       \* bound

vars == <<stmt, tokens, typos>>

--------------------------------------------------------------------------------
(* How a statement is written, by docs/CLIENT_PROTOCOL.md, 6.2 *)

K(word) == Token("KEYWORD", <<word>>)
P(char) == Token("PUNCTUATION", <<char>>)
N(name) == Token("IDENTIFIER", name)
V(value) == Token("STRING", value)

Map(Op(_), some) == [i \in DOMAIN some |-> Op(some[i])]
List(some) == Joined([i \in DOMAIN some |-> <<some[i]>>], P(","))
In(s, place) == Part(s, place)[1]

Where(s) ==
    IF Part(s, "tested") = <<>> THEN <<>>
    ELSE <<K("WHERE"), N(In(s, "tested")), Token("OPERATOR", In(s, "op")), V(In(s, "limit"))>>

Columns(s) ==
    IF Part(s, "column") = <<>> THEN <<>>
    ELSE <<P("(")>> \o List(Map(N, Part(s, "column"))) \o <<P(")")>>

Shown(s) ==
    IF Part(s, "all") # <<>> THEN <<Token("WILDCARD", <<"*">>)>> ELSE List(Map(N, Part(s, "shown")))

Typed(s) ==
    Joined([i \in DOMAIN Part(s, "name") |->
            <<N(Part(s, "name")[i]), K(Part(s, "type")[i][1])>>], P(","))

Assignments(s) ==
    Joined([i \in DOMAIN Part(s, "assigned") |->
            <<N(Part(s, "assigned")[i]), Token("OPERATOR", <<"=">>), V(Part(s, "given")[i])>>], P(","))

Spelled(s) ==
    CASE s.kind = "SELECT" -> <<K("SELECT")>> \o Shown(s) \o <<K("FROM"), N(In(s, "source"))>> \o Where(s)
      [] s.kind = "DELETE" -> <<K("DELETE"), K("FROM"), N(In(s, "source"))>> \o Where(s)
      [] s.kind = "INSERT" -> <<K("INSERT"), K("INTO"), N(In(s, "table"))>> \o Columns(s)
                              \o <<K("VALUES"), P("(")>> \o List(Map(V, Part(s, "value"))) \o <<P(")")>>
      [] s.kind = "UPDATE" -> <<K("UPDATE"), N(In(s, "updated")), K("SET")>> \o Assignments(s) \o Where(s)
      [] s.kind = "CREATE TABLE" -> <<K("CREATE"), K("TABLE"), N(In(s, "new")), P("(")>>
                                    \o Typed(s) \o <<P(")")>>
      [] s.kind = "DROP TABLE" -> <<K("DROP"), K("TABLE"), N(In(s, "dropped"))>>
      [] s.kind = "CREATE DATABASE" -> <<K("CREATE"), K("DATABASE"), N(In(s, "database"))>>
      [] s.kind = "DROP DATABASE" -> <<K("DROP"), K("DATABASE"), N(In(s, "database"))>>
      [] s.kind = "USE" -> <<K("USE"), N(In(s, "database"))>>

\* Values between quotes, with their quotes doubled.
Written(t) ==
    IF t.type = "STRING"
    THEN <<"'">> \o FlattenSeq([i \in DOMAIN t.value |->
                        IF t.value[i] = "'" THEN <<"'", "'">> ELSE <<t.value[i]>>]) \o <<"'">>
    ELSE t.value

Text(s) == FlattenSeq([i \in DOMAIN Spelled(s) |-> Written(Spelled(s)[i]) \o <<" ">>])

--------------------------------------------------------------------------------

Init ==
    /\ stmt \in Statements
    /\ \E text \in {Text(stmt)} : tokens = Tokenize(text)
    /\ typos = 0

\* The end of the text stays its end.
Typo ==
    /\ stmt \in Retyped
    /\ typos < MaxTypos
    /\ typos' = typos + 1
    /\ \E i \in 1 .. Len(tokens) - 1 :
        \/ tokens' = RemoveAt(tokens, i)
        \/ \E t \in Typos : tokens' = ReplaceAt(tokens, i, t)
        \/ \E t \in Typos : tokens' = InsertAt(tokens, i, t)
    /\ UNCHANGED stmt

Next == Typo

Spec == Init /\ [][Next]_vars

--------------------------------------------------------------------------------
(* Safety *)

Accepted == Parse(tokens) # Refused

\* The rows a statement brings into pages and log: those of its values.
Row == Part(Parse(tokens), "value") \o Part(Parse(tokens), "given")
Values == {i \in {1} : Accepted /\ Row # <<>>}

\* A statement written by the rules of the protocol, its values quoted and their
\* quotes doubled, is understood as it was meant, whatever the values contain.
UnderstoodAsWritten == typos = 0 => Parse(tokens) = stmt

\* May the token t of a text be what the statement made of it has as u?  A value
\* may be a number or a name without its quotes, and where the parser asks for the
\* text of a comma or a bracket only, a string may have it.
StandsFor(t, u) ==
    /\ t.value = u.value
    /\ \/ t.type = u.type
       \/ u.type = "STRING" /\ t.type \in {"NUMBER", "IDENTIFIER"}
       \/ u \in {P(","), P(")")} /\ t.type = "STRING"

\* What the parser accepts it accepts as a whole: written out again, the statement
\* has every token of the text in its place, and each for what it is, so that no
\* string passes for a keyword or a name.  Only an empty string and the optional
\* DATABASE of USE may have been passed over.
NothingIgnored ==
    LET words(some) == SelectSeq(some, LAMBDA t : t.value # <<>>)
        passed == words(IF tokens[2] = K("DATABASE") /\ tokens[1] = K("USE") THEN RemoveAt(tokens, 2) ELSE tokens)
        again == words(Spelled(Parse(tokens)))
    IN  Accepted => /\ Len(passed) = Len(again)
                    /\ \A i \in DOMAIN again : StandsFor(passed[i], again[i])

\* The values of an accepted statement come back from a page as they were sent, and
\* from the log, as one line among others, whatever characters of the encoding they
\* contain.  (split loses an empty last value: it is the parser that keeps empty
\* values out of pages and log.)
KeptAsSent ==
    \A i \in Values :
        /\ Deserialized(Serialized(Row)) = Row
        /\ LoggedRow(LogLine(<<"t">>, Row) \o LogLine(<<"t">>, Row)) = Row

ComesBack ==
    LET again == Replayed(<<"t">>, Row) IN again # Refused /\ Part(again, "value") = Row

\* The statement that recovery makes of a row inserts that row again.  README.md:134
\* says so of every row: recovery can always restore the correct final state, and
\* the encoding of the log handles any delimiter characters inside stored data.
Recovered == \A i \in Values : ComesBack

\* Recovery does insert the row again if each of its values is, without its quotes,
\* one number or one name that is no keyword (recover, and the lexer after it).
Plain(v) ==
    \/ v # <<>> /\ v[1] \in Digit /\ ToSet(v) \subseteq Digit \cup {"."}
       /\ Len(SelectSeq(v, LAMBDA c : c = ".")) <= 1
    \/ v # <<>> /\ v[1] \in Letter /\ ToSet(v) \subseteq WordChar /\ ~ (Len(v) = 1 /\ Upper[v[1]] \in Keyword)

RecoveredWhenPlain == \A i \in Values : (\A v \in ToSet(Row) : Plain(v)) => ComesBack

\* The condition of the statement, if it has one.
Conditions ==
    {[column |-> In(stmt, "tested"), op |-> In(stmt, "op"), value |-> In(stmt, "limit")] :
        i \in DOMAIN Part(stmt, "tested")}

\* An int written as std::to_string would.
Canonical(v) ==
    v # <<>> /\ ToSet(v) \subseteq Digit /\ (v[1] = "0" => Len(v) = 1) /\ Stoi(v) # {}

\* SELECT shows the rows that DELETE with the same condition removes, although
\* selectRow may ask the index and the preview of DELETE never does.  For an
\* equality on an INT column that comes first it takes a table whose keys differ,
\* and keys and limit written without leading zeros or anything after them.
SelectShowsWhatDeleteRemoves ==
    stmt.kind = "SELECT" =>
        \A tb \in Tables, c \in Conditions :
            LET columns == Part(stmt, "all") \o Part(stmt, "shown")
                keys == {r[1] : r \in ToSet(tb.rows)}
                kept == ToSet(PreviewDelete(tb.rows, c, tb.scheme))
                removed == SelectSeq(tb.rows, LAMBDA r : r \notin kept)
            IN  /\ \A name \in ToSet(Part(stmt, "shown")) : ColumnIndex(tb.scheme, name) # {}
                /\ tb.scheme[1].type = "INT" /\ c.column = tb.scheme[1].name /\ c.op = <<"=">>
                    => /\ \A v \in keys \cup {c.value} : Canonical(v)
                       /\ \A i, j \in DOMAIN tb.rows : tb.rows[i][1] = tb.rows[j][1] => i = j
                => ExecuteSelect(tb.rows, columns, c, tb.scheme) = {Projected(removed, columns, tb.scheme)}

\* DELETE and UPDATE write the rows of the table anew through insertRow, and ignore
\* what it returns: none of the rows they hand it may be refused for its type or
\* its number of columns, or it would be lost.  An UPDATE without a WHERE is not
\* to lose one either, whatever its condition turns out to be.
RewrittenRowsFit ==
    \A tb \in Tables :
        LET assignments == [i \in DOMAIN Part(stmt, "given") |->
                [column |-> Part(stmt, "assigned")[i], value |-> Part(stmt, "given")[i]]]
            rewritten ==
                CASE stmt.kind = "UPDATE" ->
                        {PreviewUpdate(tb.rows, targets, assignments, tb.scheme) :
                            targets \in UpdateTargets(tb.rows, Conditions, tb.scheme)}
                  [] stmt.kind = "DELETE" ->
                        {PreviewDelete(tb.rows, c, tb.scheme) : c \in Conditions}
                  [] OTHER -> {}
        IN  \A rows \in rewritten : \A r \in ToSet(rows) : Fits(r, tb.scheme)

================================================================================

--------------------------------- MODULE MCText --------------------------------
(* Instances of SqlText for TLC. *)
EXTENDS SqlText

MCLetter == Keyword \cup {"A", "C", "t", "c", "d", "x", "int", "true"}
MCUpper == [l \in MCLetter |-> IF l = "int" THEN "INT" ELSE l]

Alphabet == {"x", "int", "5", "0", ".", "'", ",", ")", " ", "%", "|", "\n", "-", "~"}
Texts == {<<a>> : a \in Alphabet} \cup {<<a, b>> : a, b \in Alphabet}
         \cup {<<"%", "7", "C">>, <<"5", ".", "5">>, <<"x", "_", "5">>, <<".", "5", ".">>}

Names == {<<"t">>, <<"x", "_", "5">>}
c1 == <<"c">>
d1 == <<"d">>

Parts(place, some) == [i \in DOMAIN some |-> <<place, some[i]>>]
Stmt(kind, parts) == [kind |-> kind, parts |-> parts]
Insert(columns, row) ==
    Stmt("INSERT", Parts("table", <<<<"t">>>>) \o Parts("column", columns) \o Parts("value", row))
Cond(column, op, limit) == <<<<"tested", column>>, <<"op", op>>, <<"limit", limit>>>>
Select(cond) == Stmt("SELECT", <<<<"all", <<"*">>>>, <<"source", <<"t">>>>>> \o cond)
SelectSome(cond) == Stmt("SELECT", <<<<"shown", d1>>, <<"shown", c1>>, <<"source", <<"t">>>>>> \o cond)
Delete(cond) == Stmt("DELETE", <<<<"source", <<"t">>>>>> \o cond)
Update(column, v, cond) ==
    Stmt("UPDATE", <<<<"updated", <<"t">>>>, <<"assigned", column>>, <<"given", v>>>> \o cond)
Update2(v, w, cond) ==
    Stmt("UPDATE", <<<<"updated", <<"t">>>>, <<"assigned", c1>>, <<"given", v>>,
                     <<"assigned", d1>>, <<"given", w>>>> \o cond)

Operators == {<<"=">>, <<"!", "=">>, <<"<">>, <<">">>, <<"<", "=">>, <<">", "=">>, <<"=", "=">>}
Limits == {<<"5">>, <<"0", "5">>, <<"5", ".", "0">>, <<"7">>, <<"7", "0">>, <<"x">>}
Conds == {Cond(c, op, v) : c \in {c1, d1}, op \in Operators, v \in Limits}

Sample ==
    {Select(<<>>), SelectSome(Cond(c1, <<"<">>, <<"5">>)), Insert(<<>>, <<<<"5">>, <<"x">>>>),
     Insert(<<c1, d1>>, <<<<"5">>, <<"x">>>>), Delete(<<>>), Delete(Cond(c1, <<"=">>, <<"x">>)),
     Update(c1, <<"5">>, <<>>), Update2(<<"5">>, <<"x">>, Cond(d1, <<"!", "=">>, <<"x">>)),
     Stmt("CREATE TABLE", <<<<"new", <<"t">>>>, <<"name", c1>>, <<"type", <<"INT">>>>,
                            <<"name", d1>>, <<"type", <<"STRING">>>>>>)}
    \cup {Stmt(kind, <<<<"database", <<"t">>>>>>) : kind \in {"CREATE DATABASE", "DROP DATABASE", "USE"}}
    \cup {Stmt("DROP TABLE", <<<<"dropped", <<"t">>>>>>)}

MCStatements ==
    Sample \cup {Insert(<<>>, <<v>>) : v \in Texts}
    \cup {Insert(<<>>, <<<<a>>, <<b>>>>) : a, b \in Alphabet}
    \cup {Update(c1, v, <<>>) : v \in Texts}
    \cup {Delete(cond) : cond \in Conds} \cup {Select(cond) : cond \in Conds}
    \cup {Update(c, v, cond) : c \in {c1, d1}, v \in {<<"5">>, <<"x">>}, cond \in Conds}
    \cup {SelectSome(Cond(c1, <<"=">>, v)) : v \in Texts}

\* Rows with a character that the log encodes.
Delimited == Sample \cup {Insert(<<>>, <<<<"5">>, <<"x", d>>>>) : d \in {"|", "~", "%"}}

MCTypos ==
    {K(w) : w \in {"FROM", "WHERE", "INT", "DATABASE", "VALUES", "SET"}}
    \cup {P(c) : c \in {"(", ")", ","}}
    \cup {V(v) : v \in {<<>>, <<",">>, <<")">>, <<"x">>, <<"|">>, <<"INT">>}}
    \cup {N(<<"x">>), Token("NUMBER", <<"5">>), Token("OPERATOR", <<"=">>), Token("OPERATOR", <<"!">>),
          Token("WILDCARD", <<"*">>)}

Column(name, type) == [name |-> name, type |-> type]
Cells(scheme) ==
    IF Len(scheme) = 1 THEN {<<"5">>, <<"0", "5">>, <<"7">>, <<"7", "0">>} ELSE {<<"5">>, <<"0", "5">>, <<"x">>}
RowsOf(scheme) ==
    LET fit == {r \in [DOMAIN scheme -> Cells(scheme)] : Fits(r, scheme)}
    IN  {<<>>} \cup {<<r>> : r \in fit} \cup {<<r, s>> : r, s \in fit}
Schemes == {<<Column(c1, "INT")>>, <<Column(c1, "STRING"), Column(d1, "INT")>>,
            <<Column(c1, "FLOAT")>>}
MCTables == UNION {{[scheme |-> s, rows |-> rows] : rows \in RowsOf(s)} : s \in Schemes}

================================================================================

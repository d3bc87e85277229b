--------------------------------- MODULE MCWal ---------------------------------
(* Instances of WalEngine and WalRefinement for TLC.  What recovery makes of a *)
(* row, and whether it is valid and has a key, is what the lexer, the parser   *)
(* and the types of Select make of its text.                                   *)
EXTENDS WalRefinement

CONSTANTS a, b,       \* two rows that read back as they were
          spaced,     \* a row that does not: a value with a space in it
          comma,      \* a row that reads back with one column too many
          bad,        \* what it reads back as
          huge,       \* a row longer than a page
          far,        \* a row whose key is beyond int
          Letters     \* the letters of their texts, and the keywords

PlainRows == {a, b}
AllRows == {a, b, spaced, comma, bad, huge, far}

Inserts(R) == [kind : {"insert"}, row : R]
Deletes(R) == [kind : {"delete"}, cond : SUBSET R]
Updates(R, T) == [kind : {"update"}, cond : {{r} : r \in R}, to : T]

PlainStatements == Inserts(PlainRows) \cup Deletes(PlainRows) \cup Updates(PlainRows, {b})
HostileStatements == Inserts({a, comma, spaced, bad, far}) \cup Deletes({a}) \cup Updates({a}, {huge})

Text == INSTANCE Select WITH
            Upper <- [l \in Letters |-> l], Letter <- Letters, Refused <- Unparsable, MaxInt <- 60

Scheme == <<[name |-> "c", type |-> "INT"], [name |-> "d", type |-> "STRING"]>>
TextOf ==
    a :> <<<<"5">>, <<"x">>>> @@ b :> <<<<"6">>, <<"x">>>>
    @@ spaced :> <<<<"5">>, <<"x", " ", "x">>>> @@ comma :> <<<<"5">>, <<"x", ",", "x">>>>
    @@ bad :> <<<<"5">>, <<"x">>, <<"x">>>> @@ huge :> <<<<"7">>, <<"x", "x">>>>
    @@ far :> <<<<"6", "1">>, <<"x">>>>

PlainReplay == [r \in PlainRows |-> r]
AllReplay == [r \in AllRows |-> CASE r = spaced -> Unparsable [] r = comma -> bad [] OTHER -> r]

ASSUME RowsAreTheirTexts ==
    \A r \in AllRows :
        /\ LET again == Text!Replayed(<<"t">>, TextOf[r])
           IN  IF AllReplay[r] = Unparsable THEN again = Unparsable
               ELSE Text!Part(again, "value") = TextOf[AllReplay[r]]
        /\ r = bad <=> ~ Text!Fits(TextOf[r], Scheme)
        /\ r = far <=> Text!Stoi(TextOf[r][1]) = {}

\* Redone is what replaying the lines one by one leaves: each adds its row, a
\* REPLACE_BEGIN drops all before it.
ASSUME RedoneLineByLine ==
    \A lines \in UNION {[1 .. n -> {BeginLine, InsertLine(a), RowLine(b)}] : n \in 0 .. 5} :
    \A base \in {<<>>, <<a>>, <<a, b>>} :
        Redone(base, lines) =
            FoldLeft(LAMBDA s, line : IF line = BeginLine THEN <<>> ELSE Append(s, line.row),
                     base, lines)

================================================================================

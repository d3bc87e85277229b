---------------------------------- MODULE Select -------------------------------
(***************************************************************************)
(* What the statements on one table find in it: the types of values, the   *)
(* conditions, the two ways selectRow takes, and the previews of DELETE    *)
(* and UPDATE.  Rows, values and conditions are texts, as in Sql.          *)
(*                                                                         *)
(* The index is taken at its word: of a key it returns one of the rows if  *)
(* there are any, which one depends on how its leaves were split           *)
(* (SearchFinds of BPlusTree).  Operators return the set of possible       *)
(* results; what throws has none.                                          *)
(***************************************************************************)
EXTENDS Sql

CONSTANT MaxInt     \* the largest int

ASSUME SelectAssumption == MaxInt \in Nat

--------------------------------------------------------------------------------
(* Numbers in texts *)

ValueOf(c) == (CHOOSE i \in DOMAIN Digits : Digits[i] = c) - 1

Unsigned(s) == FoldLeft(LAMBDA n, c : 10 * n + ValueOf(c), 0, s)

\* Where a number starts that std::stoi and std::stod may read: after white
\* space and one sign.
NumberStart(s) ==
    LET i == EndOfRun(s, 1, Space)
    IN  IF i <= Len(s) /\ s[i] \in {"+", "-"} THEN i + 1 ELSE i

SignAt(s, i) == IF i > 1 /\ s[i - 1] = "-" THEN -1 ELSE 1

\* std::stoi: what it reads of the text, if that is an int.  It stops at the first
\* character that is no digit.
Stoi(s) ==
    LET i == NumberStart(s)
        digits == SubSeq(s, i, EndOfRun(s, i, Digit) - 1)
    IN  IF digits # <<>> /\ Unsigned(digits) <= MaxInt
        THEN {SignAt(s, i) * Unsigned(digits)}
        ELSE {}

\* std::stod, in hundredths; exponents, hexadecimals and infinity are left out.
Stod(s) ==
    LET i == NumberStart(s)
        whole == SubSeq(s, i, EndOfRun(s, i, Digit) - 1)
        decimals == SubSeq(s, i + Len(whole) + 1, NumberEnd(s, i) - 1)
    IN  IF whole \o decimals # <<>>
        THEN {SignAt(s, i) * Unsigned(whole \o SubSeq(decimals \o <<"0", "0">>, 1, 2))}
        ELSE {}

\* validateValueForType.
ValidFor(s, type) ==
    LET number == IF s # <<>> /\ s[1] \in {"+", "-"} THEN Tail(s) ELSE s
    IN  CASE type = "INT" -> number # <<>> /\ ToSet(number) \subseteq Digit
          [] type = "FLOAT" -> /\ number # <<>>
                               /\ ToSet(number) \subseteq Digit \cup {"."}
                               /\ Len(SelectSeq(number, LAMBDA c : c = ".")) <= 1
          [] type = "BOOL" -> s \in {<<"true">>, <<"false">>, <<"1">>, <<"0">>, <<"TRUE">>, <<"FALSE">>}
          [] OTHER -> type = "STRING"

--------------------------------------------------------------------------------
(* Conditions *)

\* getColumnIndex: the first column of that name, if there is one.
ColumnIndex(scheme, column) ==
    {i \in DOMAIN scheme : /\ scheme[i].name = column
                           /\ \A j \in 1 .. i - 1 : scheme[j].name # column}

Compare(op, m, n) ==
    CASE op = <<">">> -> m > n
      [] op = <<"<">> -> m < n
      [] op = <<">", "=">> -> m >= n
      [] op = <<"<", "=">> -> m <= n
      [] OTHER -> FALSE

\* evaluateCondition: = and != compare texts, the others numbers.  An unknown
\* column, an unknown operator and a text that is no number match nothing.
Matches(cond, row, scheme) ==
    \E i \in ColumnIndex(scheme, cond.column) :
        \/ cond.op = <<"=">> /\ row[i] = cond.value
        \/ cond.op = <<"!", "=">> /\ row[i] # cond.value
        \/ \E m \in Stod(row[i]), n \in Stod(cond.value) : Compare(cond.op, m, n)

--------------------------------------------------------------------------------
(* SELECT, and what DELETE and UPDATE leave *)

\* Mutant: the index is asked whatever the type of the first column.
ByIndex_AnyType(cond, scheme) == cond.op = <<"=">> /\ cond.column = scheme[1].name

\* Does selectRow ask the index?
ByIndex(cond, scheme) ==
    cond.op = <<"=">> /\ cond.column = scheme[1].name /\ scheme[1].type = "INT"

FullScan(rows, cond, scheme) == SelectSeq(rows, LAMBDA r : Matches(cond, r, scheme))

\* A limit that stoi does not take throws; a key without rows shows none.
IndexScan(rows, cond) ==
    UNION {LET found == {i \in DOMAIN rows : key \in Stoi(rows[i][1])}
           IN  IF found = {} THEN {<<>>} ELSE {<<rows[i]>> : i \in found} : key \in Stoi(cond.value)}

SelectRow(rows, cond, scheme) ==
    IF ByIndex(cond, scheme) THEN IndexScan(rows, cond) ELSE {FullScan(rows, cond, scheme)}

\* The columns that were asked for, of every row.
Projected(rows, columns, scheme) ==
    IF columns = <<<<"*">>>> THEN rows
    ELSE [i \in DOMAIN rows |-> [j \in DOMAIN columns |->
            rows[i][CHOOSE k \in ColumnIndex(scheme, columns[j]) : TRUE]]]

\* An unknown column throws.
ExecuteSelect(rows, columns, cond, scheme) ==
    IF columns = <<<<"*">>>> \/ \A c \in ToSet(columns) : ColumnIndex(scheme, c) # {}
    THEN {Projected(some, columns, scheme) : some \in SelectRow(rows, cond, scheme)}
    ELSE {}

PreviewDelete(rows, cond, scheme) ==
    SelectSeq(rows, LAMBDA r : ~ Matches(cond, r, scheme))

Fits(row, scheme) ==
    Len(row) = Len(scheme) /\ \A i \in DOMAIN row : ValidFor(row[i], scheme[i].type)

\* Mutant: the types of the assigned values are not looked at.
Assignable_Any(assignments, scheme) ==
    \A a \in ToSet(assignments) : ColumnIndex(scheme, a.column) # {}

\* Every assigned column exists and takes its value.
Assignable(assignments, scheme) ==
    \A a \in ToSet(assignments) : \E i \in ColumnIndex(scheme, a.column) :
        ValidFor(a.value, scheme[i].type)

Assign(row, a, scheme) ==
    [i \in DOMAIN row |-> IF i \in ColumnIndex(scheme, a.column) THEN a.value ELSE row[i]]

\* The rows an UPDATE can be about, as sets of their places.  UpdateStatement does
\* not initialise its condition: without a WHERE it is null, or what that memory
\* held before, and then any rows (or the process dies).
UpdateTargets(rows, conds, scheme) ==
    IF conds = {} THEN SUBSET DOMAIN rows
    ELSE {{i \in DOMAIN rows : \E c \in conds : Matches(c, rows[i], scheme)}}

\* All rows of the table afterwards, those at affected being assigned to; none if
\* UPDATE is to do nothing.
PreviewUpdate(rows, affected, assignments, scheme) ==
    IF Assignable(assignments, scheme) /\ affected # {}
    THEN [i \in DOMAIN rows |->
            IF i \in affected
            THEN FoldLeft(LAMBDA row, a : Assign(row, a, scheme), rows[i], assignments)
            ELSE rows[i]]
    ELSE <<>>

================================================================================

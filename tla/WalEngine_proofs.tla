---------------------------- MODULE WalEngine_proofs ----------------------------
(***************************************************************************)
(* The type invariant of WalEngine, its write-ahead property and what      *)
(* reopening a database leaves, for every set of rows and statements,      *)
(* every page size, and any number of statements, crashes and power        *)
(* failures.                                                               *)
(*                                                                         *)
(* WriteAheadWhenLogging is not inductive: a step that begins to touch the *)
(* data file follows the step that logs the last row, so the invariant     *)
(* must also say what is in the log while the rows are being logged        *)
(* (LoggingSoFar), and which statement is where in its code (Structure).   *)
(*                                                                         *)
(* ReopenChangesNothing speaks of a database that is served; what it needs *)
(* is decided while the database is opened.  ReopenInv follows the lines   *)
(* that are uncommitted through recover(): which of its commits the stream *)
(* swallows, and what is uncommitted then.                                 *)
(*                                                                         *)
(* The last part is the refinement of WalRefinement: the engine, its log   *)
(* and its recovery implement AtomicTable.  AtomicInv says, of each place  *)
(* the engine can be at, what a crash there would find uncommitted in the  *)
(* log, and ContentInPhase what the abstract table holds meanwhile; every  *)
(* step then is a step of the abstract table, or changes nothing of it.    *)
(***************************************************************************)
EXTENDS WalRefinement, LargestOf, SequenceTheorems

\* Where a statement is, and which one.
Structure ==
    /\ stmt # NoStatement => pc \in {"begin", "log", "clear", "store", "commit"}
    /\ pc = "log" => stmt # NoStatement /\ job = "replace" /\ done < Len(image)
    /\ pc = "clear" => job = "replace"
    /\ pc = "store" /\ job = "insert" /\ stmt # NoStatement => Len(image) = 1

\* While the rows are being logged, the log ends with those logged so far.
LoggingSoFar == pc = "log" /\ walGood /\ ~ inRecovery => ImageLogged(done)

IInv == TypeOK /\ Structure /\ LoggingSoFar /\ WriteAheadWhenLogging

--------------------------------------------------------------------------------
(* Lemmas on the operators the actions are made of *)

\* A function on 1 .. n is a sequence of length n.
LEMMA FunctionIsSeq ==
    ASSUME NEW S, NEW n \in Nat, NEW f \in [1 .. n -> S]
    PROVE  f \in Seq(S) /\ Len(f) = n
OBVIOUS

\* The lines the code writes are lines.
LEMMA LineTypes ==
    /\ \A r \in Row : InsertLine(r) \in Line /\ RowLine(r) \in Line
    /\ BeginLine \in Line
    /\ CommitLine \in Line
    /\ \A l \in Line : l.type \in {"INSERT", "REPLACE_ROW"} => l.row \in Row
BY DEF Line, InsertLine, RowLine, BeginLine, CommitLine

\* A submitted statement has the fields its kind needs.
LEMMA StatementTypes ==
    \A s \in Statements :
        /\ s.kind = "insert" => s.row \in Row
        /\ s.kind = "update" => s.to \in Row
BY WalAssumption DEF WalAssumption

\* The rows a DELETE keeps are rows of the table.
LEMMA KeptType ==
    ASSUME NEW s \in Seq(Row), NEW cond, NEW k \in Kept(s, cond)
    PROVE  k \in Seq(Row)
<1> DEFINE I == {i \in 1 .. Len(s) : s[i] \notin cond}
<1>1. IsFiniteSet(I)
    <2>1. Len(s) \in Nat
        BY LenProperties
    <2>2. IsFiniteSet(1 .. Len(s))
        BY <2>1, FS_Interval
    <2> QED
        BY <2>2, FS_Subset
<1>2. Cardinality(I) \in Nat
    BY <1>1, FS_CardinalityType
<1>3. PICK at \in [1 .. Cardinality(I) -> I] : k = [j \in DOMAIN at |-> s[at[j]]]
    BY DEF Kept
<1>4. k \in [1 .. Cardinality(I) -> Row]
    BY <1>3, ElementOfSeq
<1> QED
    BY <1>2, <1>4, FunctionIsSeq

\* UPDATE turns rows into rows.
LEMMA AssignedType ==
    ASSUME NEW s \in Seq(Row), NEW cond, NEW to \in Row
    PROVE  Assigned(s, cond, to) \in Seq(Row)
<1>1. Len(s) \in Nat
    BY LenProperties
<1>2. Assigned(s, cond, to) \in [1 .. Len(s) -> Row]
    BY ElementOfSeq DEF Assigned
<1> QED
    BY <1>1, <1>2, FunctionIsSeq

\* Writing a line keeps the log a log, and when the stream is good the line is
\* its last.
LEMMA LogEffect ==
    ASSUME TypeOK, NEW line \in Line, Log(line)
    PROVE  /\ wal' \in Seq(Line)
           /\ walStable' \in 0 .. Len(wal')
           /\ walGood' = walGood
           /\ walGood => /\ wal' = Append(wal, line)
                         /\ Len(wal') = Len(wal) + 1
                         /\ wal'[Len(wal) + 1] = line
                         /\ \A i \in 1 .. Len(wal) : wal'[i] = wal[i]
<1>1. CASE walGood
    BY <1>1, AppendProperties DEF TypeOK, Log
<1>2. CASE ~ walGood
    BY <1>2 DEF TypeOK, Log
<1> QED
    BY <1>1, <1>2

\* So does a commit, which also syncs all of it.
LEMMA CommitEffect ==
    ASSUME TypeOK, Commit
    PROVE  /\ wal' \in Seq(Line)
           /\ walStable' \in 0 .. Len(wal')
           /\ walGood' \in BOOLEAN
<1>1. wal' \in Seq(Line)
    BY LineTypes, AppendProperties DEF TypeOK, Commit
<1>2. Len(wal') \in Nat
    BY <1>1, LenProperties
<1> QED
    BY <1>1, <1>2 DEF Commit

\* Reading the log leaves it alone; what is left to replay are lines of it.
LEMMA ReadLogEffect ==
    ASSUME TypeOK, ReadLog
    PROVE  replay' \in Seq(Line) /\ walGood' = FALSE /\ UNCHANGED <<wal, walStable>>
<1>1. PICK k \in 0 .. Len(wal) : replay' = SubSeq(wal, k + 1, Len(wal))
    BY DEF ReadLog
<1>2. wal \in Seq(Line) /\ Len(wal) \in Nat
    BY LenProperties DEF TypeOK
<1>3. \A i \in k + 1 .. Len(wal) : wal[i] \in Line
    BY <1>2, ElementOfSeq
<1>4. replay' \in Seq(Line)
    BY <1>1, <1>2, <1>3, SubSeqProperties
<1> QED
    BY <1>4 DEF ReadLog

\* The end of a job leaves no rows to write.
LEMMA JobOverEffect ==
    ASSUME JobOver
    PROVE  image' \in Seq(Row) /\ done' \in 0 .. Len(image') /\ job' = "insert"
BY EmptySeq DEF JobOver

--------------------------------------------------------------------------------
(* Every step keeps the invariant *)

\* What the log held at its end it still holds when neither it nor the rows of
\* the statement change.
LEMMA LoggedFrame ==
    ASSUME UNCHANGED <<wal, image, job>>
    PROVE  /\ Logged => Logged'
           /\ \A n : ImageLogged(n) => ImageLogged(n)'
BY DEF Logged, ImageLogged

\* A step that ends with no statement in progress owes the log nothing.
LEMMA NoStatementNothingOwed ==
    ASSUME stmt' = NoStatement, pc' # "log"
    PROVE  LoggingSoFar' /\ WriteAheadWhenLogging'
BY DEF LoggingSoFar, WriteAheadWhenLogging, WriteAhead, TouchingData

\* Before its first line a statement owes the log nothing, and after its commit
\* nothing any more.
LEMMA NotTouching ==
    ASSUME pc' \notin {"log", "clear", "store"}
    PROVE  LoggingSoFar' /\ WriteAheadWhenLogging'
BY DEF LoggingSoFar, WriteAheadWhenLogging, WriteAhead, TouchingData

LEMMA SubmitStep ==
    ASSUME IInv, NEW s \in Statements, Submit(s)
    PROVE  IInv'
<1>1. TypeOK'
    BY WalAssumption DEF IInv, TypeOK, Submit, dataVars, logVars, jobVars, Labels, WalAssumption
<1>2. Structure'
    BY DEF IInv, Structure, Submit, jobVars
<1>3. LoggingSoFar' /\ WriteAheadWhenLogging'
    BY NotTouching DEF Submit
<1> QED
    BY <1>1, <1>2, <1>3 DEF IInv

LEMMA InsertBeginStep ==
    ASSUME IInv, InsertBegin
    PROVE  IInv'
<1> DEFINE r == stmt.row
<1>1. stmt \in Statements /\ r \in Row
    BY StatementTypes DEF IInv, TypeOK, InsertBegin
<1>2. image' = <<r>> /\ image' \in Seq(Row) /\ Len(image') = 1 /\ done' = 0
    BY <1>1 DEF InsertBegin
<1>3. /\ wal' \in Seq(Line)
      /\ walStable' \in 0 .. Len(wal')
      /\ walGood' = walGood
    <2>1. CASE inRecovery
        BY <2>1 DEF InsertBegin, IInv, TypeOK, logVars
    <2>2. CASE ~ inRecovery
        BY <2>2, <1>1, LineTypes, LogEffect DEF InsertBegin, IInv
    <2> QED
        BY <2>1, <2>2
<1>4. TypeOK'
    BY <1>2, <1>3 DEF IInv, TypeOK, InsertBegin, dataVars, boundVars, Labels
<1>5. Structure'
    BY <1>2 DEF Structure, InsertBegin
<1>6. LoggingSoFar'
    BY DEF LoggingSoFar, InsertBegin
<1>7. WriteAheadWhenLogging'
    <2> SUFFICES ASSUME walGood', ~ inRecovery'
                 PROVE  Logged'
        BY DEF WriteAheadWhenLogging, WriteAhead
    <2>1. walGood /\ Log(InsertLine(r))
        BY <1>3 DEF InsertBegin
    <2>2. wal' # <<>> /\ wal'[Len(wal')] = InsertLine(r)
        BY <2>1, <1>1, LineTypes, LogEffect, AppendProperties DEF IInv, TypeOK
    <2>3. job' = "insert" /\ image'[1] = r
        BY <1>2 DEF InsertBegin
    <2> QED
        BY <2>2, <2>3 DEF Logged, Last, InsertLine
<1> QED
    BY <1>4, <1>5, <1>6, <1>7 DEF IInv

\* DELETE and UPDATE begin alike.
LEMMA ReplaceBeginStep ==
    ASSUME IInv, pc = "begin", stmt # NoStatement,
           NEW newState \in Seq(Row), ReplaceBegin(newState)
    PROVE  IInv'
<1>1. image' = newState /\ done' = 0 /\ job' = "replace" /\ Len(newState) \in Nat
    BY LenProperties DEF ReplaceBegin
<1>2. /\ wal' \in Seq(Line)
      /\ walStable' \in 0 .. Len(wal')
      /\ walGood' = walGood
      /\ pc' \in {"log", "clear"}
    <2>1. CASE inRecovery
        BY <2>1 DEF ReplaceBegin, IInv, TypeOK, logVars
    <2>2. CASE ~ inRecovery
        BY <2>2, LineTypes, LogEffect DEF ReplaceBegin, AfterBeginLine, IInv
    <2> QED
        BY <2>1, <2>2
<1>3. TypeOK'
    BY <1>1, <1>2 DEF IInv, TypeOK, ReplaceBegin, dataVars, boundVars, Labels
<1>4. Structure'
    BY <1>1, <1>2, EmptySeq DEF Structure, ReplaceBegin, AfterBeginLine
<1>5. ASSUME walGood', ~ inRecovery'
      PROVE  /\ ImageLogged(0)'
             /\ pc' = "clear" => Len(image') = 0
    <2>1. walGood /\ ~ inRecovery /\ Log(BeginLine)
        BY <1>2, <1>5 DEF ReplaceBegin
    <2>2. Len(wal) \in Nat
        BY LenProperties DEF IInv, TypeOK
    <2>3. Len(wal') = Len(wal) + 1 /\ wal'[Len(wal) + 1] = BeginLine
        BY <2>1, LineTypes, LogEffect DEF IInv
    <2>4. ImageLogged(0)'
        BY <2>2, <2>3 DEF ImageLogged, BeginLine
    <2>5. pc' = "clear" => newState = <<>>
        BY <2>1 DEF ReplaceBegin, AfterBeginLine
    <2> QED
        BY <2>4, <2>5, <1>1, EmptySeq
<1>6. LoggingSoFar'
    BY <1>1, <1>5 DEF LoggingSoFar
<1>7. WriteAheadWhenLogging'
    BY <1>1, <1>2, <1>5 DEF WriteAheadWhenLogging, WriteAhead, TouchingData, Logged
<1> QED
    BY <1>3, <1>4, <1>6, <1>7 DEF IInv

LEMMA DeleteBeginStep ==
    ASSUME IInv, DeleteBegin
    PROVE  IInv'
<1>1. PICK kept \in Kept(rows, stmt.cond) : ReplaceBegin(kept)
    BY DEF DeleteBegin
<1>2. kept \in Seq(Row)
    BY KeptType DEF IInv, TypeOK
<1> QED
    BY <1>1, <1>2, ReplaceBeginStep DEF DeleteBegin

LEMMA UpdateBeginStep ==
    ASSUME IInv, UpdateBegin
    PROVE  IInv'
<1>1. stmt.to \in Row
    BY StatementTypes DEF IInv, TypeOK, UpdateBegin
<1>2. Assigned(rows, stmt.cond, stmt.to) \in Seq(Row)
    BY <1>1, AssignedType DEF IInv, TypeOK
<1> QED
    BY <1>2, ReplaceBeginStep DEF UpdateBegin

LEMMA UpdateNothingStep ==
    ASSUME IInv, UpdateNothing
    PROVE  IInv'
<1>1. TypeOK'
    BY DEF IInv, TypeOK, UpdateNothing, dataVars, logVars, boundVars, Labels
<1>2. Structure'
    BY DEF Structure, UpdateNothing
<1>3. LoggingSoFar' /\ WriteAheadWhenLogging'
    BY NotTouching DEF UpdateNothing
<1> QED
    BY <1>1, <1>2, <1>3 DEF IInv

LEMMA LogRowStep ==
    ASSUME IInv, LogRow
    PROVE  IInv'
<1> DEFINE r == image[done + 1]
<1>1. /\ image \in Seq(Row) /\ Len(image) \in Nat
      /\ wal \in Seq(Line) /\ Len(wal) \in Nat
      /\ done \in Nat /\ done < Len(image)
      /\ job = "replace" /\ stmt # NoStatement
    BY LenProperties DEF IInv, TypeOK, Structure, LogRow
<1>2. r \in Row
    BY <1>1, ElementOfSeq
<1>3. /\ wal' \in Seq(Line)
      /\ walStable' \in 0 .. Len(wal')
      /\ walGood' = walGood
    BY <1>2, LineTypes, LogEffect DEF IInv, LogRow
<1>4. /\ UNCHANGED <<image, job, stmt, inRecovery>>
      /\ \/ done + 1 = Len(image) /\ done' = 0 /\ pc' = "clear"
         \/ done + 1 < Len(image) /\ done' = done + 1 /\ pc' = "log"
    BY <1>1 DEF LogRow
<1>5. TypeOK'
    BY <1>1, <1>3, <1>4 DEF IInv, TypeOK, LogRow, dataVars, boundVars, Labels
<1>6. Structure'
    BY <1>1, <1>4 DEF Structure
<1>7. ASSUME walGood', ~ inRecovery', NEW n \in Nat, n = done + 1
      PROVE  ImageLogged(n)'
    <2>1. walGood /\ ImageLogged(done)
        BY <1>3, <1>4, <1>7 DEF IInv, LoggingSoFar, LogRow
    <2>2. /\ Len(wal') = Len(wal) + 1
          /\ wal'[Len(wal) + 1] = RowLine(r)
          /\ \A i \in 1 .. Len(wal) : wal'[i] = wal[i]
        BY <2>1, <1>2, LineTypes, LogEffect DEF IInv, LogRow
    <2> DEFINE b == Len(wal) - done
    <2>3. b >= 1 /\ b <= Len(wal) /\ b = Len(wal') - (done + 1) /\ b \in Nat
        BY <2>1, <2>2, <1>1 DEF ImageLogged
    <2>4. wal'[b] = BeginLine
        BY <2>1, <2>2, <2>3 DEF ImageLogged
    <2>5. ASSUME NEW i \in 1 .. n
          PROVE  wal'[b + i] = RowLine(image[i])
        <3>1. CASE i = done + 1
            BY <3>1, <2>2, <2>3, <1>1
        <3>2. CASE i # done + 1
            <4>1. i \in 1 .. done /\ b + i \in 1 .. Len(wal)
                BY <3>2, <2>5, <2>3, <1>1, <1>7
            <4> QED
                BY <4>1, <2>1, <2>2 DEF ImageLogged
        <3> QED
            BY <3>1, <3>2
    <2> QED
        BY <2>3, <2>4, <2>5, <1>4, <1>7 DEF ImageLogged, BeginLine, RowLine
<1>8. LoggingSoFar'
    <2> SUFFICES ASSUME pc' = "log", walGood', ~ inRecovery'
                 PROVE  ImageLogged(done)'
        BY DEF LoggingSoFar
    <2>1. PICK n \in Nat : n = done + 1
        BY <1>1
    <2>2. ImageLogged(n)' /\ n = done'
        BY <2>1, <1>4, <1>7
    <2> QED
        BY <2>2 DEF ImageLogged
<1>9. WriteAheadWhenLogging'
    BY <1>1, <1>4, <1>7 DEF WriteAheadWhenLogging, WriteAhead, TouchingData, Logged, ImageLogged
<1> QED
    BY <1>5, <1>6, <1>8, <1>9 DEF IInv

\* Clearing and storing leave the log and the rows of the statement alone.
LEMMA DataStep ==
    ASSUME IInv, TypeOK', pc' \in {"clear", "store", "commit", "recommit"},
           stmt # NoStatement => pc \in {"clear", "store"},
           UNCHANGED <<wal, walGood, image, job, stmt, inRecovery>>
    PROVE  LoggingSoFar' /\ WriteAheadWhenLogging'
<1>1. LoggingSoFar'
    BY DEF LoggingSoFar
<1>2. WriteAheadWhenLogging'
    BY LoggedFrame DEF IInv, WriteAheadWhenLogging, WriteAhead, TouchingData
<1> QED
    BY <1>1, <1>2

LEMMA ClearStep ==
    ASSUME IInv, Clear \/ Cleared
    PROVE  IInv'
<1>1. CASE Clear
    <2>1. PICK k \in 1 .. Len(rows) : rows' = SubSeq(rows, k + 1, Len(rows))
        BY <1>1 DEF Clear
    <2>2. rows \in Seq(Row) /\ Len(rows) \in Nat
        BY LenProperties DEF IInv, TypeOK
    <2>3. \A i \in k + 1 .. Len(rows) : rows[i] \in Row
        BY <2>2, ElementOfSeq
    <2>4. rows' \in Seq(Row)
        BY <2>1, <2>2, <2>3, SubSeqProperties
    <2>5. TypeOK'
        BY <1>1, <2>4 DEF IInv, TypeOK, Clear, logVars, jobVars, boundVars
    <2>6. Structure'
        BY <1>1 DEF IInv, Structure, Clear, jobVars
    <2>7. LoggingSoFar' /\ WriteAheadWhenLogging'
        BY <1>1, <2>5, DataStep DEF Clear, logVars, jobVars
    <2> QED
        BY <2>5, <2>6, <2>7 DEF IInv
<1>2. CASE Cleared
    <2>1. TypeOK'
        BY <1>2 DEF IInv, TypeOK, Cleared, dataVars, logVars, jobVars, boundVars, Labels
    <2>2. Structure'
        BY <1>2 DEF IInv, Structure, Cleared, jobVars
    <2>3. LoggingSoFar' /\ WriteAheadWhenLogging'
        BY <1>2, <2>1, DataStep DEF Cleared, logVars, jobVars
    <2> QED
        BY <2>1, <2>2, <2>3 DEF IInv
<1> QED
    BY <1>1, <1>2

\* A row the table stores is a row, also when it was parsed back from the log.
LEMMA NextRowType ==
    ASSUME TypeOK, done < Len(image), Stored(NextRow)
    PROVE  NextRow \in Row
<1>1. image \in Seq(Row) /\ Len(image) \in Nat /\ done \in Nat
    BY LenProperties DEF TypeOK
<1>2. image[done + 1] \in Row
    BY <1>1, ElementOfSeq
<1> QED
    BY <1>2, WalAssumption DEF NextRow, Stored, WalAssumption

LEMMA StoreStepEffect ==
    ASSUME IInv, StoreStep, pc' = pc, rows' \in Seq(Row)
    PROVE  IInv'
<1>1. Len(image) \in Nat /\ done \in Nat /\ done < Len(image) /\ done' = done + 1
    BY LenProperties DEF IInv, TypeOK, StoreStep
<1>2. TypeOK'
    BY <1>1 DEF IInv, TypeOK, StoreStep, logVars, boundVars
<1>3. Structure'
    BY DEF IInv, Structure, StoreStep
<1>4. LoggingSoFar' /\ WriteAheadWhenLogging'
    BY <1>2, DataStep DEF StoreStep, logVars
<1> QED
    BY <1>2, <1>3, <1>4 DEF IInv

LEMMA StoreRowStep ==
    ASSUME IInv, StoreRow
    PROVE  IInv'
<1>1. NextRow \in Row
    BY NextRowType DEF IInv, StoreRow, StoreStep
<1>2. rows' \in Seq(Row)
    BY <1>1, AppendProperties DEF IInv, TypeOK, StoreRow
<1> QED
    BY <1>2, StoreStepEffect DEF StoreRow

LEMMA SkipRowStep ==
    ASSUME IInv, SkipRow
    PROVE  IInv'
BY StoreStepEffect DEF SkipRow, IInv, TypeOK

LEMMA AllStoredStep ==
    ASSUME IInv, AllStored
    PROVE  IInv'
<1>1. TypeOK'
    BY DEF IInv, TypeOK, AllStored, dataVars, logVars, jobVars, boundVars, Labels
<1>2. Structure'
    BY DEF IInv, Structure, AllStored, jobVars
<1>3. LoggingSoFar' /\ WriteAheadWhenLogging'
    BY <1>1, DataStep DEF AllStored, logVars, jobVars
<1> QED
    BY <1>1, <1>2, <1>3 DEF IInv

LEMMA CommitStatementStep ==
    ASSUME IInv, CommitStatement
    PROVE  IInv'
<1>1. /\ wal' \in Seq(Line)
      /\ walStable' \in 0 .. Len(wal')
      /\ walGood' \in BOOLEAN
    BY CommitEffect DEF IInv, TypeOK, CommitStatement, logVars
<1>2. stmt' = NoStatement /\ pc' \in {"recommit", "idle"}
    BY DEF CommitStatement
<1>3. TypeOK'
    BY <1>1, <1>2, JobOverEffect DEF IInv, TypeOK, CommitStatement, dataVars, boundVars, Labels
<1>4. Structure'
    BY <1>2 DEF Structure
<1>5. LoggingSoFar' /\ WriteAheadWhenLogging'
    BY <1>2, NoStatementNothingOwed
<1> QED
    BY <1>3, <1>4, <1>5 DEF IInv

LEMMA InsertFailsStep ==
    ASSUME IInv, InsertFails
    PROVE  IInv'
<1>1. rows' \in Seq(Row)
    <2>1. CASE UNCHANGED rows
        BY <2>1 DEF IInv, TypeOK
    <2>2. CASE Stored(NextRow) /\ rows' = Append(rows, NextRow)
        <3>1. NextRow \in Row
            BY <2>2, NextRowType DEF IInv, InsertFails
        <3> QED
            BY <2>2, <3>1, AppendProperties DEF IInv, TypeOK
    <2> QED
        BY <2>1, <2>2 DEF InsertFails, Refused, NotIndexed
<1>2. stmt' = NoStatement /\ pc' \in {"idle", "failed"}
    BY DEF InsertFails
<1>3. replay' \in Seq(Line)
    BY EmptySeq DEF InsertFails
<1>4. TypeOK'
    BY <1>1, <1>2, <1>3, JobOverEffect DEF IInv, TypeOK, InsertFails, logVars, boundVars, Labels
<1>5. Structure'
    BY <1>2 DEF Structure
<1>6. LoggingSoFar' /\ WriteAheadWhenLogging'
    BY <1>2, NoStatementNothingOwed
<1> QED
    BY <1>4, <1>5, <1>6 DEF IInv

LEMMA StartStep ==
    ASSUME IInv, Start
    PROVE  IInv'
<1>1. replay' \in Seq(Line) /\ walGood' = FALSE /\ UNCHANGED <<wal, walStable>>
    BY ReadLogEffect DEF IInv, Start
<1>2. opening' \in {"start", "use"}
    BY DEF Start
<1>3. stmt' = NoStatement /\ pc' = "recover"
    BY DEF IInv, Structure, Start
<1>4. TypeOK'
    BY <1>1, <1>2 DEF IInv, TypeOK, Start, dataVars, jobVars, boundVars, Labels
<1>5. Structure'
    BY <1>3 DEF Structure
<1>6. LoggingSoFar' /\ WriteAheadWhenLogging'
    BY <1>3, NoStatementNothingOwed
<1> QED
    BY <1>4, <1>5, <1>6 DEF IInv

LEMMA UseStep ==
    ASSUME IInv, Use
    PROVE  IInv'
<1>1. replay' \in Seq(Line) /\ walGood' = FALSE /\ UNCHANGED <<wal, walStable>>
    BY ReadLogEffect DEF IInv, Use
<1>2. stmt' = NoStatement /\ pc' = "recover"
    BY DEF IInv, Structure, Use
<1>3. crashes' \in 0 .. MaxCrashes
    BY WalAssumption DEF IInv, TypeOK, Use, WalAssumption
<1>4. TypeOK'
    BY <1>1, <1>3 DEF IInv, TypeOK, Use, dataVars, jobVars, Labels
<1>5. Structure'
    BY <1>2 DEF Structure
<1>6. LoggingSoFar' /\ WriteAheadWhenLogging'
    BY <1>2, NoStatementNothingOwed
<1> QED
    BY <1>4, <1>5, <1>6 DEF IInv

LEMMA RedoInsertStep ==
    ASSUME IInv, RedoInsert
    PROVE  IInv'
<1> DEFINE r == Replay[Head(replay).row]
<1>1. Head(replay) \in Line /\ replay' \in Seq(Line)
    BY HeadTailProperties DEF IInv, TypeOK, RedoInsert
<1>2. Head(replay).row \in Row
    BY <1>1, LineTypes DEF RedoInsert
<1>3. image' = <<Head(replay).row>> /\ image' \in Seq(Row) /\ Len(image') = 1
    BY <1>2 DEF RedoInsert
<1>4. /\ wal' \in Seq(Line)
      /\ walStable' \in 0 .. Len(wal')
      /\ walGood' \in BOOLEAN
    <2>1. CASE UNCHANGED logVars
        BY <2>1 DEF IInv, TypeOK, logVars
    <2>2. CASE r # Unparsable /\ Log(InsertLine(r))
        <3>1. r \in Row
            BY <2>2, <1>2, WalAssumption DEF WalAssumption
        <3> QED
            BY <2>2, <3>1, LineTypes, LogEffect DEF IInv, TypeOK
    <2> QED
        BY <2>1, <2>2 DEF RedoInsert
<1>5. /\ stmt' = NoStatement /\ pc' \in {"recommit", "store"}
      /\ done' \in 0 .. 1 /\ job' = "insert"
    BY DEF IInv, Structure, RedoInsert
<1>6. TypeOK'
    BY <1>1, <1>3, <1>4, <1>5 DEF IInv, TypeOK, RedoInsert, dataVars, boundVars, Labels
<1>7. Structure'
    BY <1>5 DEF Structure
<1>8. LoggingSoFar' /\ WriteAheadWhenLogging'
    BY <1>5, NoStatementNothingOwed
<1> QED
    BY <1>6, <1>7, <1>8 DEF IInv

LEMMA RedoReplaceStep ==
    ASSUME IInv, RedoReplace
    PROVE  IInv'
<1>1. replay \in Seq(Line) /\ Len(replay) \in Nat
    BY LenProperties DEF IInv, TypeOK
<1>2. PICK n \in 1 .. Len(replay) :
        /\ \A i \in 2 .. n : replay[i].type = "REPLACE_ROW"
        /\ image' = [i \in 1 .. n - 1 |-> replay[i + 1].row]
        /\ replay' = SubSeq(replay, n + 1, Len(replay))
    BY DEF RedoReplace, After
<1>3. \A i \in 1 .. n - 1 : replay[i + 1].row \in Row
    <2> TAKE i \in 1 .. n - 1
    <2>1. i + 1 \in 2 .. n /\ i + 1 \in 1 .. Len(replay)
        BY <1>1
    <2>2. replay[i + 1] \in Line
        BY <2>1, <1>1, ElementOfSeq
    <2> QED
        BY <2>1, <2>2, <1>2, LineTypes
<1>4. image' \in Seq(Row) /\ Len(image') \in Nat
    <2>1. n - 1 \in Nat
        BY <1>1
    <2>2. image' \in [1 .. n - 1 -> Row]
        BY <1>2, <1>3
    <2> QED
        BY <2>1, <2>2, FunctionIsSeq
<1>5. replay' \in Seq(Line)
    <2>1. \A i \in n + 1 .. Len(replay) : replay[i] \in Line
        BY <1>1, ElementOfSeq
    <2> QED
        BY <2>1, <1>1, <1>2, SubSeqProperties
<1>6. stmt' = NoStatement /\ pc' = "clear" /\ job' = "replace" /\ done' = 0
    BY DEF IInv, Structure, RedoReplace
<1>7. TypeOK'
    BY <1>4, <1>5, <1>6 DEF IInv, TypeOK, RedoReplace, dataVars, logVars, boundVars, Labels
<1>8. Structure'
    BY <1>6 DEF Structure
<1>9. LoggingSoFar' /\ WriteAheadWhenLogging'
    BY <1>6, NoStatementNothingOwed
<1> QED
    BY <1>7, <1>8, <1>9 DEF IInv

LEMMA RecommitStep ==
    ASSUME IInv, Recommit
    PROVE  IInv'
<1>1. stmt' = NoStatement /\ pc' = "recover"
    BY DEF IInv, Structure, Recommit
<1>2. inRecovery' \in BOOLEAN
    BY DEF IInv, TypeOK, Recommit
<1>3. TypeOK'
    BY <1>2, CommitEffect, JobOverEffect DEF IInv, TypeOK, Recommit, dataVars, boundVars, Labels
<1>4. Structure'
    BY <1>1 DEF Structure
<1>5. LoggingSoFar' /\ WriteAheadWhenLogging'
    BY <1>1, NoStatementNothingOwed
<1> QED
    BY <1>3, <1>4, <1>5 DEF IInv

LEMMA RecoveredStep ==
    ASSUME IInv, Recovered
    PROVE  IInv'
<1>1. TypeOK'
    BY DEF IInv, TypeOK, Recovered, dataVars, logVars, jobVars, boundVars, Labels
<1>2. Structure'
    BY DEF IInv, Structure, Recovered, jobVars
<1>3. LoggingSoFar' /\ WriteAheadWhenLogging'
    BY NotTouching DEF Recovered
<1> QED
    BY <1>1, <1>2, <1>3 DEF IInv

LEMMA StoppedStep ==
    ASSUME IInv, Stopped, rows' \in Seq(Row), stable' = stable,
           wal' \in Seq(Line), walStable' \in 0 .. Len(wal')
    PROVE  IInv'
<1>1. stmt' = NoStatement /\ pc' = "down" /\ replay' \in Seq(Line)
    BY EmptySeq DEF Stopped
<1>2. crashes' \in 0 .. MaxCrashes
    BY WalAssumption DEF IInv, TypeOK, Stopped, WalAssumption
<1>3. TypeOK'
    BY <1>1, <1>2, JobOverEffect DEF IInv, TypeOK, Stopped, Labels
<1>4. Structure'
    BY <1>1 DEF Structure
<1>5. LoggingSoFar' /\ WriteAheadWhenLogging'
    BY <1>1, NoStatementNothingOwed
<1> QED
    BY <1>3, <1>4, <1>5 DEF IInv

LEMMA CrashStep ==
    ASSUME IInv, Crash
    PROVE  IInv'
BY StoppedStep DEF Crash, dataVars, IInv, TypeOK

LEMMA PowerFailureStep ==
    ASSUME IInv, PowerFailure
    PROVE  IInv'
<1>1. wal \in Seq(Line) /\ Len(wal) \in Nat /\ walStable \in 0 .. Len(wal)
    BY LenProperties DEF IInv, TypeOK
<1>2. PICK k \in walStable .. Len(wal) : wal' = SubSeq(wal, 1, k) /\ walStable' = k
    BY DEF PowerFailure
<1>3. \A i \in 1 .. k : wal[i] \in Line
    BY <1>1, ElementOfSeq
<1>4. wal' \in Seq(Line) /\ Len(wal') = k
    BY <1>1, <1>2, <1>3, SubSeqProperties
<1>5. walStable' \in 0 .. Len(wal')
    BY <1>1, <1>2, <1>4
<1> QED
    BY <1>4, <1>5, StoppedStep DEF PowerFailure, IInv, TypeOK

LEMMA WriteBackStep ==
    ASSUME IInv, WriteBack
    PROVE  IInv'
<1>1. TypeOK'
    BY DEF IInv, TypeOK, WriteBack, logVars, jobVars, boundVars
<1>2. Structure'
    BY DEF IInv, Structure, WriteBack, jobVars
<1>3. UNCHANGED <<wal, walGood, inRecovery, pc, stmt, job, image, done>>
    BY DEF WriteBack, logVars, jobVars
<1>4. LoggingSoFar'
    BY <1>3 DEF IInv, LoggingSoFar, ImageLogged
<1>5. WriteAheadWhenLogging'
    BY <1>3, LoggedFrame DEF IInv, WriteAheadWhenLogging, WriteAhead, TouchingData
<1> QED
    BY <1>1, <1>2, <1>4, <1>5 DEF IInv

LEMMA StutterStep ==
    ASSUME IInv, UNCHANGED vars
    PROVE  IInv'
<1>1. UNCHANGED <<rows, stable, wal, walStable, walGood, inRecovery, pc, stmt, job, image,
                  done, replay, opening, submitted, crashes>>
    BY DEF vars, dataVars, logVars, jobVars, boundVars
<1>2. TypeOK' /\ Structure'
    BY <1>1 DEF IInv, TypeOK, Structure
<1>3. LoggingSoFar'
    BY <1>1 DEF IInv, LoggingSoFar, ImageLogged
<1>4. WriteAheadWhenLogging'
    BY <1>1, LoggedFrame DEF IInv, WriteAheadWhenLogging, WriteAhead, TouchingData
<1> QED
    BY <1>2, <1>3, <1>4 DEF IInv

--------------------------------------------------------------------------------
(* The theorems *)

\* A fresh database satisfies the invariant.
THEOREM InitInvariant == Init => IInv
<1> SUFFICES ASSUME Init
             PROVE  IInv
    OBVIOUS
<1>1. TypeOK
    <2>1. /\ rows \in Seq(Row) /\ stable \in Seq(Row) /\ image \in Seq(Row)
          /\ wal \in Seq(Line) /\ replay \in Seq(Line)
          /\ Len(wal) = 0 /\ Len(image) = 0
        BY EmptySeq DEF Init
    <2>2. submitted \in 0 .. MaxStatements /\ crashes \in 0 .. MaxCrashes
        BY WalAssumption DEF Init, WalAssumption
    <2>3. walStable \in 0 .. Len(wal) /\ done \in 0 .. Len(image)
        BY <2>1 DEF Init
    <2>4. /\ walGood \in BOOLEAN /\ inRecovery \in BOOLEAN /\ pc \in Labels
          /\ stmt \in Statements \cup {NoStatement}
          /\ job \in {"insert", "replace"} /\ opening \in {"start", "use"}
        BY DEF Init, Labels
    <2> QED
        BY <2>1, <2>2, <2>3, <2>4 DEF TypeOK
<1>2. Structure /\ LoggingSoFar /\ WriteAheadWhenLogging
    BY DEF Init, Structure, LoggingSoFar, WriteAheadWhenLogging, WriteAhead, TouchingData
<1> QED
    BY <1>1, <1>2 DEF IInv

\* Every step of the engine, of recovery and of a crash keeps it.
THEOREM StepInvariant == IInv /\ [Next]_vars => IInv'
<1> SUFFICES ASSUME IInv, [Next]_vars
             PROVE  IInv'
    OBVIOUS
<1>1. CASE UNCHANGED vars
    BY <1>1, StutterStep
<1>2. ASSUME NEW s \in Statements, Submit(s)
      PROVE  IInv'
    BY <1>2, SubmitStep
<1>3. CASE InsertBegin
    BY <1>3, InsertBeginStep
<1>4. CASE DeleteBegin \/ UpdateBegin \/ UpdateNothing
    BY <1>4, DeleteBeginStep, UpdateBeginStep, UpdateNothingStep
<1>5. CASE LogRow
    BY <1>5, LogRowStep
<1>6. CASE Clear \/ Cleared
    BY <1>6, ClearStep
<1>7. CASE StoreRow \/ SkipRow \/ AllStored
    BY <1>7, StoreRowStep, SkipRowStep, AllStoredStep
<1>8. CASE CommitStatement \/ InsertFails
    BY <1>8, CommitStatementStep, InsertFailsStep
<1>9. CASE Start \/ Use
    BY <1>9, StartStep, UseStep
<1>10. CASE RedoInsert \/ RedoReplace \/ Recommit \/ Recovered
    BY <1>10, RedoInsertStep, RedoReplaceStep, RecommitStep, RecoveredStep
<1>11. CASE Crash \/ PowerFailure \/ WriteBack
    BY <1>11, CrashStep, PowerFailureStep, WriteBackStep
<1> QED
    BY <1>1, <1>2, <1>3, <1>4, <1>5, <1>6, <1>7, <1>8, <1>9, <1>10, <1>11 DEF Next, Running

\* The state of the engine, of its log and of its recovery stays of its type,
\* in every behaviour of WalEngine.
THEOREM TypeCorrect == Spec => []TypeOK
<1>1. IInv => TypeOK
    BY DEF IInv
<1> QED
    BY <1>1, InitInvariant, StepInvariant, PTL DEF Spec

\* Whenever the log can be written to, no client's statement touches the data
\* file before all it is about to do is in the log (Engine::executeInsert,
\* executeDelete, executeUpdate), through any crashes and recoveries.
THEOREM LogsBeforeTouching == Spec => []WriteAheadWhenLogging
<1>1. IInv => WriteAheadWhenLogging
    BY DEF IInv
<1> QED
    BY <1>1, InitInvariant, StepInvariant, PTL DEF Spec

--------------------------------------------------------------------------------
(* What the log still has when the database is opened *)

\* The lines of a DELETE or UPDATE that leaves the rows.
ReplaceLines(s) == <<BeginLine>> \o [i \in 1 .. Len(s) |-> RowLine(s[i])]

\* Rows that recovery puts back as they were.
Readable(s) ==
    \A i \in 1 .. Len(s) :
        Stored(s[i]) /\ s[i] \notin Unindexable /\ Replay[s[i]] = s[i]

\* Nothing is uncommitted, or something that does not read back.
Settled == UncommittedLines = <<>> \/ ~ ReadBack(UncommittedLines)

\* A client's statement will be committed, or changes nothing that is uncommitted.
Serving ==
    pc = "idle" \/ stmt # NoStatement => Settled \/ (walGood /\ ~ inRecovery)

\* A DELETE or UPDATE that recovery has replayed, and whose COMMIT was swallowed.
AsReplayed == pc \in {"idle", "begin"} => Settled \/ UncommittedLines = ReplaceLines(rows)

\* recover() has the lines, and has not begun.
Fresh == pc = "recover" /\ ~ walGood /\ ~ inRecovery /\ replay = UncommittedLines

\* The first of them is an INSERT: its first commit is swallowed, its second is not.
FirstInsert ==
    /\ ~ walGood /\ ~ inRecovery /\ job = "insert"
    /\ \/ pc = "store" /\ Readable(image)
       \/ pc = "commit"

\* Or a DELETE or UPDATE: its only commit is swallowed.
FirstReplace ==
    /\ ~ walGood /\ job = "replace" /\ Readable(image) /\ ReadBack(replay)
    /\ UncommittedLines = ReplaceLines(image) \o replay
    /\ \/ pc = "clear" /\ done = 0
       \/ pc = "store" /\ rows = SubSeq(image, 1, done)
       \/ pc = "recommit" /\ rows = image

FirstReplaced ==
    /\ pc = "recover" /\ walGood /\ ~ inRecovery /\ ReadBack(replay)
    /\ UncommittedLines = ReplaceLines(rows) \o replay

\* What is replayed next is committed, or the row it fails on is in the log.
Later ==
    /\ walGood
    /\ \/ pc \in {"commit", "recommit"}
       \/ /\ pc \in {"clear", "store"}
          /\ \/ Readable(image)
             \/ done = Len(image)
             \/ /\ job = "insert" /\ Len(image) = 1 /\ done = 0
                /\ wal # <<>> /\ Last(wal) = InsertLine(NextRow)

Recovering == stmt = NoStatement /\ pc \in {"recover", "clear", "store", "commit", "recommit"}

Replaying ==
    Recovering => Settled \/ Fresh \/ FirstInsert \/ FirstReplace \/ FirstReplaced \/ Later

ReopenInv ==
    /\ Serving /\ AsReplayed /\ Replaying
    /\ pc \in {"down", "log"} => ~ inRecovery

--------------------------------------------------------------------------------
(* The uncommitted lines of a log *)

EndsAt(w, k) ==
    /\ k # 0 => w[k] = CommitLine
    /\ \A i \in k + 1 .. Len(w) : w[i] # CommitLine

\* UncommittedLines, of any log.
Rest(w) ==
    LET k == CHOOSE k \in 0 .. Len(w) : EndsAt(w, k)
    IN  SubSeq(w, k + 1, Len(w))

\* For the log there is.
LEMMA RestOfLog ==
    /\ UncommittedLines = Rest(wal)
    /\ UncommittedLines' = Rest(wal')
BY DEF UncommittedLines, Rest, CommittedPrefix, EndsAt

\* They begin after the last COMMIT, and there is only one such place.
LEMMA RestIs ==
    ASSUME NEW w \in Seq(Line), NEW k \in 0 .. Len(w), EndsAt(w, k)
    PROVE  Rest(w) = SubSeq(w, k + 1, Len(w))
<1>1. ASSUME NEW m \in 0 .. Len(w), EndsAt(w, m)
      PROVE  m = k
    <2>1. Len(w) \in Nat
        OBVIOUS
    <2>2. ~ m < k
        BY <1>1, <2>1 DEF EndsAt
    <2>3. ~ k < m
        BY <1>1, <2>1 DEF EndsAt
    <2> QED
        BY <2>1, <2>2, <2>3
<1>2. (CHOOSE m \in 0 .. Len(w) : EndsAt(w, m)) = k
    BY <1>1
<1> QED
    BY <1>2 DEF Rest

\* And there is one.
LEMMA LogEnds ==
    ASSUME NEW w \in Seq(Line)
    PROVE  \E k \in 0 .. Len(w) : EndsAt(w, k)
<1> DEFINE S == {k \in 1 .. Len(w) : w[k] = CommitLine}
<1>1. Len(w) \in Nat
    OBVIOUS
<1>2. CASE S = {}
    BY <1>1, <1>2 DEF EndsAt
<1>3. CASE S # {}
    <2>1. S \in SUBSET (-1 .. Len(w))
        BY <1>1
    <2>2. Max(S) \in S /\ \A i \in S : i <= Max(S)
        <3> HIDE DEF S
        <3> QED
            BY <1>1, <1>3, <2>1, MaxOfBounded
    <2>3. PICK k \in S : \A i \in S : i <= k
        BY <2>2
    <2>4. EndsAt(w, k) /\ k \in 0 .. Len(w)
        BY <1>1, <2>3 DEF EndsAt
    <2> QED
        BY <2>4
<1> QED
    BY <1>2, <1>3

\* They are lines.
LEMMA RestType ==
    ASSUME NEW w \in Seq(Line)
    PROVE  Rest(w) \in Seq(Line)
<1>1. PICK k \in 0 .. Len(w) : EndsAt(w, k)
    BY LogEnds
<1>2. Rest(w) = SubSeq(w, k + 1, Len(w))
    BY <1>1, RestIs
<1>3. Len(w) \in Nat /\ k + 1 \in Nat /\ \A i \in k + 1 .. Len(w) : w[i] \in Line
    OBVIOUS
<1>4. SubSeq(w, k + 1, Len(w)) \in Seq(Line)
    BY <1>3, SubSeqProperties
<1> QED
    BY <1>2, <1>4

\* A line is added to them, a COMMIT leaves none.
LEMMA RestAppend ==
    ASSUME NEW w \in Seq(Line), NEW line \in Line
    PROVE  /\ line # CommitLine => /\ Rest(Append(w, line)) # <<>>
                                   /\ Rest(Append(w, line))[Len(Rest(Append(w, line)))] = line
           /\ line = CommitLine => Rest(Append(w, line)) = <<>>
<1> DEFINE v == Append(w, line)
<1>1. /\ v \in Seq(Line) /\ Len(v) = Len(w) + 1 /\ Len(w) \in Nat
      /\ v[Len(w) + 1] = line /\ \A i \in 1 .. Len(w) : v[i] = w[i]
    BY AppendProperties
<1> HIDE DEF v
<1>2. CASE line = CommitLine
    <2>1. EndsAt(v, Len(v)) /\ Len(v) \in 0 .. Len(v)
        BY <1>1, <1>2 DEF EndsAt
    <2>2. Rest(v) = SubSeq(v, Len(v) + 1, Len(v))
        BY <1>1, <2>1, RestIs
    <2> QED
        BY <1>1, <1>2, <2>2 DEF v
<1>3. CASE line # CommitLine
    <2>1. PICK k \in 0 .. Len(v) : EndsAt(v, k)
        BY <1>1, LogEnds
    <2>2. Rest(v) = SubSeq(v, k + 1, Len(v)) /\ k < Len(v)
        BY <1>1, <1>3, <2>1, RestIs DEF EndsAt
    <2>3. Len(Rest(v)) = Len(v) - k /\ Rest(v)[Len(v) - k] = v[Len(v)]
        BY <1>1, <2>2
    <2>4. Len(Rest(v)) # 0
        BY <1>1, <2>2, <2>3
    <2>5. Rest(v) # <<>>
        BY <2>4
    <2>6. Rest(v)[Len(Rest(v))] = line
        BY <1>1, <2>3
    <2> QED
        BY <1>3, <2>5, <2>6 DEF v
<1> QED
    BY <1>2, <1>3

\* The last line of the log, unless it is a COMMIT, is the last of them.
LEMMA RestLast ==
    ASSUME NEW w \in Seq(Line), w # <<>>, Last(w) # CommitLine
    PROVE  Len(Rest(w)) \in Nat \ {0} /\ Rest(w)[Len(Rest(w))] = Last(w)
<1>1. Len(w) \in Nat \ {0} /\ Last(w) = w[Len(w)]
    BY DEF Last
<1>2. PICK k \in 0 .. Len(w) : EndsAt(w, k)
    BY LogEnds
<1>3. Rest(w) = SubSeq(w, k + 1, Len(w)) /\ k < Len(w)
    BY <1>1, <1>2, RestIs DEF EndsAt
<1>4. Len(Rest(w)) = Len(w) - k /\ Rest(w)[Len(w) - k] = w[Len(w)]
    BY <1>1, <1>3
<1>5. Len(w) - k \in Nat \ {0}
    BY <1>1, <1>3
<1> HIDE DEF Rest
<1> QED
    BY <1>1, <1>4, <1>5

\* A line the stream drops changes nothing.
LEMMA LogLeaves ==
    ASSUME TypeOK, NEW line, Log(line), ~ walGood
    PROVE  UncommittedLines' = UncommittedLines /\ wal' = wal /\ walGood' = walGood
BY RestOfLog DEF Log

\* A commit leaves none, if the stream is good; if not, it makes it good.
LEMMA CommitLeaves ==
    ASSUME TypeOK, Commit
    PROVE  /\ UncommittedLines' = IF walGood THEN <<>> ELSE UncommittedLines
           /\ walGood' = TRUE
BY RestOfLog, RestAppend, LineTypes DEF Commit, TypeOK

\* readLog hands them to recover.
LEMMA ReadLogLeaves ==
    ASSUME TypeOK, ReadLog
    PROVE  /\ replay' = UncommittedLines /\ UncommittedLines' = UncommittedLines
           /\ walGood' = FALSE
<1>1. PICK k \in 0 .. Len(wal) : CommittedPrefix(k) /\ replay' = SubSeq(wal, k + 1, Len(wal))
    BY DEF ReadLog
<1>2. wal \in Seq(Line) /\ EndsAt(wal, k)
    BY <1>1 DEF TypeOK, CommittedPrefix, EndsAt
<1> QED
    BY <1>1, <1>2, RestOfLog, RestIs DEF ReadLog

\* They depend on the log alone.
LEMMA SameLog == wal' = wal => UncommittedLines' = UncommittedLines
BY RestOfLog

\* An INSERT at the end of the log of a row that recovery cannot put back.
LEMMA LastUnreadable ==
    ASSUME TypeOK, NEW r, wal # <<>>, Last(wal) = InsertLine(r), ~ Stored(r) \/ r \in Unindexable
    PROVE  Settled
<1>1. InsertLine(r) # CommitLine /\ InsertLine(r) # BeginLine /\ InsertLine(r).row = r
    BY DEF InsertLine, CommitLine, BeginLine
<1> DEFINE u == Rest(wal)
<1>2. Len(u) \in Nat \ {0} /\ u[Len(u)] = InsertLine(r)
    BY <1>1, RestLast DEF TypeOK
<1> HIDE DEF u
<1>3. ~ ReadBack(u)
    BY <1>1, <1>2 DEF ReadBack
<1> QED
    BY <1>3, RestOfLog DEF Settled, u

--------------------------------------------------------------------------------
(* The steps that serve clients, and crashes *)

\* Nothing is owed when nothing that reads back is uncommitted.
LEMMA SettledNow ==
    ASSUME stmt' = NoStatement, pc' \notin {"down", "log"}, Settled'
    PROVE  ReopenInv'
BY DEF ReopenInv, Serving, AsReplayed, Replaying

\* Whatever a statement does while it can write to the log, and what it does
\* without the log.
LEMMA ClientStep ==
    ASSUME ReopenInv, stmt # NoStatement, stmt' = stmt, pc' \notin {"idle", "begin", "down"},
           inRecovery' = inRecovery, walGood' = walGood, pc' = "log" => ~ inRecovery,
           (walGood /\ ~ inRecovery) \/ wal' = wal
    PROVE  ReopenInv'
<1>1. Settled \/ (walGood /\ ~ inRecovery)
    BY DEF ReopenInv, Serving
<1>2. Settled' \/ (walGood' /\ ~ inRecovery')
    BY <1>1, SameLog DEF Settled
<1> QED
    BY <1>2 DEF ReopenInv, Serving, AsReplayed, Replaying, Recovering

\* A statement arrives.
LEMMA SubmitReopen ==
    ASSUME ReopenInv, NEW s \in Statements, Submit(s)
    PROVE  ReopenInv'
<1>1. /\ pc = "idle" /\ pc' = "begin" /\ stmt' # NoStatement
      /\ UNCHANGED <<rows, wal, walGood, inRecovery>>
    BY WalAssumption DEF Submit, WalAssumption, dataVars, logVars
<1>2. UncommittedLines' = UncommittedLines
    BY <1>1, SameLog
<1>3. (ReplaceLines(rows))' = ReplaceLines(rows)
    BY <1>1 DEF ReplaceLines
<1> QED
    BY <1>1, <1>2, <1>3 DEF ReopenInv, Serving, AsReplayed, Replaying, Recovering, Settled

\* A statement is logged, or nothing of it is.
LEMMA ServeReopen ==
    ASSUME IInv, ReopenInv,
           InsertBegin \/ DeleteBegin \/ UpdateBegin \/ UpdateNothing \/ LogRow
    PROVE  ReopenInv'
<1>1. stmt # NoStatement /\ stmt' = stmt /\ inRecovery' = inRecovery
    BY DEF InsertBegin, DeleteBegin, UpdateBegin, UpdateNothing, LogRow, ReplaceBegin, IInv, Structure
<1>2. pc' \notin {"idle", "begin", "down"} /\ (pc' = "log" => ~ inRecovery)
    BY DEF InsertBegin, DeleteBegin, UpdateBegin, UpdateNothing, LogRow, ReplaceBegin,
       AfterBeginLine, ReopenInv
<1>3. (UNCHANGED logVars) \/ \E line : Log(line) /\ ~ inRecovery
    BY DEF InsertBegin, DeleteBegin, UpdateBegin, UpdateNothing, LogRow, ReplaceBegin, ReopenInv
<1>4. walGood' = walGood /\ (wal' = wal \/ (walGood /\ ~ inRecovery))
    BY <1>3 DEF logVars, Log
<1> QED
    BY <1>1, <1>2, <1>4, ClientStep

\* A process that is down has nothing to say of its log.
LEMMA StopReopen ==
    ASSUME ReopenInv, Crash \/ PowerFailure
    PROVE  ReopenInv'
BY DEF Crash, PowerFailure, Stopped, ReopenInv, Serving, AsReplayed, Replaying, Recovering

\* Nothing but what the disk has of the data file changes.
LEMMA QuietReopen ==
    ASSUME ReopenInv, WriteBack \/ UNCHANGED vars
    PROVE  ReopenInv'
<1>1. UNCHANGED <<rows, wal, walGood, inRecovery, pc, stmt, job, image, done, replay>>
    BY DEF WriteBack, vars, dataVars, logVars, jobVars
<1>2. UncommittedLines' = UncommittedLines
    BY <1>1, SameLog
<1>3. Serving' /\ (pc' \in {"down", "log"} => ~ inRecovery')
    BY <1>1, <1>2 DEF ReopenInv, Serving, Settled
<1>4. AsReplayed'
    BY <1>1, <1>2 DEF ReopenInv, AsReplayed, Settled, ReplaceLines
<1>5. /\ Recovering' = Recovering /\ Settled' = Settled /\ Fresh' = Fresh
      /\ FirstInsert' = FirstInsert
      /\ Later' = Later
    BY <1>1, <1>2 DEF Recovering, Settled, Fresh, FirstInsert, Later, Readable, NextRow
<1>6. FirstReplace' = FirstReplace
    BY <1>1, <1>2 DEF FirstReplace, Readable, ReplaceLines
<1>7. FirstReplaced' = FirstReplaced
    BY <1>1, <1>2 DEF FirstReplaced, ReplaceLines
<1> QED
    BY <1>3, <1>4, <1>5, <1>6, <1>7 DEF ReopenInv, Replaying

--------------------------------------------------------------------------------
(* The steps that touch the data file *)

\* A row that reads back as it was is stored.
LEMMA ReadableNext ==
    ASSUME TypeOK, stmt = NoStatement, Readable(image), done < Len(image)
    PROVE  NextRow = image[done + 1] /\ Stored(NextRow) /\ NextRow \notin Unindexable
<1>1. done \in Nat /\ done + 1 \in 1 .. Len(image)
    BY DEF TypeOK
<1> QED
    BY <1>1 DEF Readable, NextRow

\* Where recovery is.
LEMMA InRecovery ==
    ASSUME ReopenInv, stmt = NoStatement, pc \in {"recover", "clear", "store", "commit", "recommit"}
    PROVE  Settled \/ Fresh \/ FirstInsert \/ FirstReplace \/ FirstReplaced \/ Later
BY DEF ReopenInv, Replaying, Recovering

\* Recovery goes on.
LEMMA RecoveryStep ==
    ASSUME stmt' = NoStatement, pc' \in {"recover", "clear", "store", "commit", "recommit"},
           \/ Settled' \/ Fresh' \/ FirstInsert' \/ FirstReplace' \/ FirstReplaced' \/ Later'
    PROVE  ReopenInv'
BY DEF ReopenInv, Serving, AsReplayed, Replaying

\* Rows are freed.
LEMMA ClearReopen ==
    ASSUME IInv, ReopenInv, Clear \/ Cleared
    PROVE  ReopenInv'
<1>1. /\ pc = "clear" /\ pc' \in {"clear", "store"} /\ stmt' = stmt
      /\ UNCHANGED <<wal, walGood, inRecovery, job, image, done, replay>>
    BY DEF Clear, Cleared, logVars, jobVars
<1>2. CASE stmt # NoStatement
    BY <1>1, <1>2, ClientStep
<1>3. CASE stmt = NoStatement
    <2>1. UncommittedLines' = UncommittedLines
        BY <1>1, SameLog
    <2>2. CASE Settled
        BY <2>1, <2>2, <1>1, <1>3, RecoveryStep DEF Settled
    <2>3. CASE FirstReplace
        <3>1. pc' = "store" => rows' = SubSeq(image, 1, done)
            BY <1>1, <2>3 DEF FirstReplace, Clear, Cleared, dataVars, IInv, TypeOK
        <3>2. FirstReplace'
            BY <1>1, <2>1, <2>3, <3>1 DEF FirstReplace, Readable, ReplaceLines
        <3> QED
            BY <1>1, <1>3, <3>2, RecoveryStep
    <2>4. CASE Later
        <3>1. Later'
            BY <1>1, <1>3, <2>4 DEF Later, Readable, NextRow
        <3> QED
            BY <1>1, <1>3, <3>1, RecoveryStep
    <2> QED
        BY <1>1, <1>3, <2>2, <2>3, <2>4, InRecovery DEF Fresh, FirstInsert, FirstReplaced
<1> QED
    BY <1>2, <1>3

\* A row is stored, or skipped.
LEMMA StoreReopen ==
    ASSUME IInv, ReopenInv, StoreRow \/ SkipRow
    PROVE  ReopenInv'
<1>1. /\ pc = "store" /\ pc' = "store" /\ stmt' = stmt /\ done < Len(image) /\ done' = done + 1
      /\ UNCHANGED <<wal, walGood, inRecovery, job, image, replay>>
    BY DEF StoreRow, SkipRow, StoreStep, logVars
<1>2. CASE stmt # NoStatement
    BY <1>1, <1>2, ClientStep
<1>3. CASE stmt = NoStatement
    <2>1. UncommittedLines' = UncommittedLines
        BY <1>1, SameLog
    <2>2. CASE Settled
        BY <2>1, <2>2, <1>1, <1>3, RecoveryStep DEF Settled
    <2>3. CASE FirstInsert
        <3>1. FirstInsert'
            BY <1>1, <2>3 DEF FirstInsert, Readable
        <3> QED
            BY <1>1, <1>3, <3>1, RecoveryStep
    <2>4. CASE FirstReplace
        <3>1. NextRow = image[done + 1] /\ Stored(NextRow)
            BY <1>1, <1>3, <2>4, ReadableNext DEF FirstReplace, IInv
        <3>2. rows' = Append(SubSeq(image, 1, done), image[done + 1])
            BY <1>1, <2>4, <3>1 DEF FirstReplace, StoreRow, SkipRow
        <3>3. image \in Seq(Row) /\ done \in Nat
            BY DEF IInv, TypeOK
        <3>4. rows' = SubSeq(image, 1, done + 1)
            BY <1>1, <3>2, <3>3
        <3>5. FirstReplace'
            BY <1>1, <2>1, <2>4, <3>4 DEF FirstReplace, Readable, ReplaceLines
        <3> QED
            BY <1>1, <1>3, <3>5, RecoveryStep
    <2>5. CASE Later
        <3>1. Readable(image) \/ (job = "insert" /\ Len(image) = 1 /\ done = 0)
            BY <1>1, <2>5 DEF Later
        <3>2. Readable(image)' \/ done' = Len(image')
            <4>1. CASE Readable(image)
                BY <1>1, <4>1 DEF Readable
            <4>2. CASE Len(image) = 1 /\ done = 0
                BY <1>1, <4>2
            <4> QED
                BY <3>1, <4>1, <4>2
        <3>3. Later'
            BY <1>1, <2>5, <3>2 DEF Later
        <3> QED
            BY <1>1, <1>3, <3>3, RecoveryStep
    <2> QED
        BY <1>1, <1>3, <2>2, <2>3, <2>4, <2>5, InRecovery DEF Fresh, FirstReplaced
<1> QED
    BY <1>2, <1>3

\* All are stored.
LEMMA AllStoredReopen ==
    ASSUME IInv, ReopenInv, AllStored
    PROVE  ReopenInv'
<1>1. /\ pc = "store" /\ stmt' = stmt /\ done = Len(image)
      /\ pc' = IF stmt = NoStatement /\ job = "replace" THEN "recommit" ELSE "commit"
      /\ UNCHANGED <<rows, wal, walGood, inRecovery, job, image, done, replay>>
    BY DEF AllStored, dataVars, logVars, jobVars
<1>2. CASE stmt # NoStatement
    BY <1>1, <1>2, ClientStep
<1>3. CASE stmt = NoStatement
    <2>1. UncommittedLines' = UncommittedLines
        BY <1>1, SameLog
    <2>2. CASE Settled
        BY <2>1, <2>2, <1>1, <1>3, RecoveryStep DEF Settled
    <2>3. CASE FirstInsert
        <3>1. FirstInsert'
            BY <1>1, <2>3 DEF FirstInsert
        <3> QED
            BY <1>1, <1>3, <3>1, RecoveryStep
    <2>4. CASE FirstReplace
        <3>1. rows = SubSeq(image, 1, Len(image)) /\ image \in Seq(Row)
            BY <1>1, <2>4 DEF FirstReplace, IInv, TypeOK
        <3>2. rows = image
            BY <3>1
        <3>3. FirstReplace'
            BY <1>1, <1>3, <2>1, <2>4, <3>2 DEF FirstReplace, Readable, ReplaceLines
        <3> QED
            BY <1>1, <1>3, <3>3, RecoveryStep
    <2>5. CASE Later
        <3>1. Later'
            BY <1>1, <2>5 DEF Later
        <3> QED
            BY <1>1, <1>3, <3>1, RecoveryStep
    <2> QED
        BY <1>1, <1>3, <2>2, <2>3, <2>4, <2>5, InRecovery DEF Fresh, FirstReplaced
<1> QED
    BY <1>2, <1>3

--------------------------------------------------------------------------------
(* The end of a statement *)

\* A statement commits what is in the log, if the stream is good.
LEMMA CommitStatementReopen ==
    ASSUME IInv, ReopenInv, CommitStatement
    PROVE  ReopenInv'
<1>1. /\ pc = "commit" /\ stmt' = NoStatement /\ inRecovery' = inRecovery
      /\ pc' = IF stmt = NoStatement THEN "recommit" ELSE "idle"
      /\ IF inRecovery THEN wal' = wal /\ walGood' = walGood ELSE Commit
    BY DEF CommitStatement, logVars
<1>2. inRecovery => UncommittedLines' = UncommittedLines
    BY <1>1, SameLog
<1>3. ~ inRecovery => /\ UncommittedLines' = IF walGood THEN <<>> ELSE UncommittedLines
                      /\ walGood' = TRUE
    BY <1>1, CommitLeaves DEF IInv
<1>4. CASE Settled \/ (walGood /\ ~ inRecovery)
    <2>1. Settled'
        BY <1>2, <1>3, <1>4 DEF Settled
    <2> QED
        BY <1>1, <2>1, SettledNow
<1>5. CASE stmt = NoStatement /\ (FirstInsert \/ Later)
    <2>1. walGood'
        BY <1>1, <1>3, <1>5 DEF FirstInsert, Later
    <2>2. Later'
        BY <1>1, <1>5, <2>1 DEF Later
    <2> QED
        BY <1>1, <1>5, <2>2, RecoveryStep
<1>6. stmt # NoStatement => Settled \/ (walGood /\ ~ inRecovery)
    BY DEF ReopenInv, Serving
<1>7. stmt = NoStatement => Settled \/ FirstInsert \/ Later
    BY <1>1, InRecovery DEF Fresh, FirstReplace, FirstReplaced
<1> QED
    BY <1>4, <1>5, <1>6, <1>7

\* Why an INSERT fails is a row that recovery could not put back either, and it is
\* the last line of the log if the log could be written to.
LEMMA InsertFailsReopen ==
    ASSUME IInv, ReopenInv, InsertFails
    PROVE  ReopenInv'
<1>1. /\ pc = "store" /\ stmt' = NoStatement /\ pc' \in {"idle", "failed"}
      /\ done < Len(image) /\ ByExecuteInsert /\ wal' = wal
      /\ ~ Stored(NextRow) \/ NextRow \in Unindexable
    BY DEF InsertFails, Refused, NotIndexed, logVars
<1>2. Settled
    <2>1. CASE stmt # NoStatement
        <3>1. CASE walGood /\ ~ inRecovery
            <4>1. job = "insert" /\ Len(image) = 1 /\ done = 0
                <5>1. job = "insert"
                    BY <1>1, <2>1 DEF ByExecuteInsert
                <5>2. Len(image) = 1
                    BY <1>1, <2>1, <5>1 DEF IInv, Structure
                <5>3. done \in 0 .. Len(image)
                    BY DEF IInv, TypeOK
                <5> QED
                    BY <1>1, <5>1, <5>2, <5>3
            <4>2. wal # <<>> /\ Last(wal) = InsertLine(image[1]) /\ NextRow = image[1]
                BY <1>1, <2>1, <3>1, <4>1
                   DEF IInv, WriteAheadWhenLogging, WriteAhead, TouchingData, Logged, NextRow
            <4> QED
                BY <1>1, <4>2, LastUnreadable DEF IInv
        <3> QED
            BY <2>1, <3>1 DEF ReopenInv, Serving
    <2>2. CASE stmt = NoStatement
        <3>1. ~ Readable(image)
            BY <1>1, <2>2, ReadableNext DEF IInv
        <3>2. Settled \/ Later
            BY <1>1, <2>2, <3>1, InRecovery DEF Fresh, FirstInsert, FirstReplace, FirstReplaced
        <3>3. CASE Later
            <4>1. wal # <<>> /\ Last(wal) = InsertLine(NextRow)
                BY <1>1, <3>1, <3>3 DEF Later
            <4> QED
                BY <1>1, <4>1, LastUnreadable DEF IInv
        <3> QED
            BY <3>2, <3>3
    <2> QED
        BY <2>1, <2>2
<1>3. Settled'
    BY <1>1, <1>2, SameLog DEF Settled
<1> QED
    BY <1>1, <1>3, SettledNow

--------------------------------------------------------------------------------
(* Recovery *)

\* Opening the database reads what is uncommitted, and spoils the stream.
LEMMA OpenReopen ==
    ASSUME IInv, ReopenInv, Start \/ Use
    PROVE  ReopenInv'
<1>1. /\ ReadLog /\ pc' = "recover" /\ inRecovery' = inRecovery
      /\ stmt = NoStatement /\ stmt' = NoStatement /\ pc \in {"down", "idle"}
    BY DEF Start, Use, IInv, Structure
<1>2. replay' = UncommittedLines' /\ UncommittedLines' = UncommittedLines /\ ~ walGood'
    BY <1>1, ReadLogLeaves DEF IInv
<1>3. Settled \/ ~ inRecovery
    BY <1>1 DEF ReopenInv, Serving
<1>4. Settled' \/ Fresh'
    BY <1>1, <1>2, <1>3 DEF Settled, Fresh
<1> QED
    BY <1>1, <1>4, RecoveryStep

\* What is left of lines that read back does, too.
LEMMA ReadBackRest ==
    ASSUME NEW lines \in Seq(Line), ReadBack(lines), NEW n \in 0 .. Len(lines)
    PROVE  ReadBack(SubSeq(lines, n + 1, Len(lines)))
<1> DEFINE s == SubSeq(lines, n + 1, Len(lines))
<1>1. Len(s) = Len(lines) - n /\ Len(lines) \in Nat
    BY SubSeqProperties
<1>2. \A i \in 1 .. Len(s) : i + n \in 1 .. Len(lines) /\ s[i] = lines[i + n]
    BY <1>1
<1> HIDE DEF s
<1>3. ReadBack(s)
    BY <1>2 DEF ReadBack
<1> QED
    BY <1>3 DEF s

\* An INSERT is logged again when it is replayed, if the stream is good.
LEMMA RedoInsertReopen ==
    ASSUME IInv, ReopenInv, RedoInsert
    PROVE  ReopenInv'
<1> DEFINE h == Head(replay).row
           r == Replay[h]
<1>1. /\ pc = "recover" /\ stmt = NoStatement /\ stmt' = NoStatement /\ inRecovery' = inRecovery
      /\ job' = "insert" /\ image' = <<h>> /\ replay # <<>> /\ Head(replay).type = "INSERT"
      /\ pc' \in {"recommit", "store"}
    BY DEF RedoInsert, IInv, Structure
<1>2. \/ r = Unparsable /\ wal' = wal /\ walGood' = walGood
      \/ /\ r # Unparsable /\ done' = 0 /\ pc' = "store"
         /\ IF inRecovery THEN wal' = wal /\ walGood' = walGood ELSE Log(InsertLine(r))
    BY DEF RedoInsert, logVars
<1>3. Head(replay) = replay[1] /\ Len(replay) >= 1 /\ Head(replay) \in Line
    BY <1>1 DEF IInv, TypeOK
<1>4. h \in Row
    BY <1>1, <1>3, LineTypes
<1> HIDE DEF r, h
<1>5. ReadBack(replay) => Stored(h) /\ h \notin Unindexable /\ r = h /\ r # Unparsable
    <2> SUFFICES ASSUME ReadBack(replay)
                 PROVE  Stored(h) /\ h \notin Unindexable /\ r = h /\ r # Unparsable
        OBVIOUS
    <2>1. replay[1] # BeginLine
        BY <1>1, <1>3 DEF BeginLine
    <2>2. Stored(h) /\ h \notin Unindexable /\ r = h
        BY <1>3, <2>1 DEF ReadBack, h, r
    <2> QED
        BY <2>2 DEF Stored
<1>6. CASE Settled /\ wal' = wal
    BY <1>1, <1>6, SameLog, RecoveryStep DEF Settled
<1>7. CASE r # Unparsable /\ ~ inRecovery /\ walGood
    <2>1. done' = 0 /\ pc' = "store" /\ Log(InsertLine(r))
        BY <1>2, <1>7
    <2>2. r \in Row
        BY <1>4, <1>7, WalAssumption DEF WalAssumption, r
    <2>3. walGood' /\ wal' = Append(wal, InsertLine(r)) /\ wal \in Seq(Line)
        BY <1>7, <2>1 DEF Log, IInv, TypeOK
    <2>4. wal' # <<>> /\ Last(wal') = InsertLine(r)
        BY <2>2, <2>3, LineTypes, AppendProperties DEF Last
    <2>5. NextRow' = r /\ Len(image') = 1
        BY <1>1, <2>1 DEF NextRow, r
    <2>6. Later'
        BY <1>1, <2>1, <2>3, <2>4, <2>5 DEF Later
    <2> QED
        BY <1>1, <2>6, RecoveryStep
<1>8. CASE Fresh /\ ~ Settled
    <2>1. ReadBack(replay) /\ ~ walGood /\ ~ inRecovery
        BY <1>8 DEF Fresh, Settled
    <2>2. Stored(h) /\ h \notin Unindexable /\ r = h /\ r # Unparsable
        BY <1>5, <2>1
    <2>3. walGood' = walGood /\ pc' = "store"
        BY <1>2, <2>1, <2>2 DEF Log
    <2>4. Readable(image)'
        BY <1>1, <2>2 DEF Readable, r
    <2>5. FirstInsert'
        BY <1>1, <2>1, <2>3, <2>4 DEF FirstInsert
    <2> QED
        BY <1>1, <2>5, RecoveryStep
<1>9. CASE FirstReplaced
    BY <1>5, <1>7, <1>9 DEF FirstReplaced
<1>10. CASE Settled
    <2>1. wal' = wal \/ (r # Unparsable /\ ~ inRecovery /\ walGood)
        BY <1>2 DEF Log
    <2> QED
        BY <1>6, <1>7, <1>10, <2>1
<1> QED
    BY <1>1, <1>8, <1>9, <1>10, InRecovery DEF FirstInsert, FirstReplace, Later

\* The lines of a DELETE or UPDATE, one by one.
LEMMA ReplaceLinesAre ==
    ASSUME NEW s \in Seq(Row)
    PROVE  /\ ReplaceLines(s) \in Seq(Line) /\ Len(ReplaceLines(s)) = 1 + Len(s)
           /\ ReplaceLines(s)[1] = BeginLine
           /\ \A i \in 1 .. Len(s) : ReplaceLines(s)[1 + i] = RowLine(s[i])
<1> DEFINE t == [i \in 1 .. Len(s) |-> RowLine(s[i])]
           one == <<BeginLine>>
<1>1. Len(s) \in Nat /\ t \in [1 .. Len(s) -> Line]
    BY LineTypes
<1>2. t \in Seq(Line) /\ Len(t) = Len(s) /\ \A i \in 1 .. Len(s) : t[i] = RowLine(s[i])
    BY <1>1, FunctionIsSeq
<1>3. one \in Seq(Line) /\ Len(one) = 1 /\ one[1] = BeginLine
    BY LineTypes
<1>4. ReplaceLines(s) = one \o t
    BY DEF ReplaceLines
<1> HIDE DEF t, one
<1>5. /\ one \o t \in Seq(Line) /\ Len(one \o t) = Len(one) + Len(t)
      /\ \A i \in 1 .. Len(one) + Len(t) :
            (one \o t)[i] = IF i <= Len(one) THEN one[i] ELSE t[i - Len(one)]
    <2>1. one \in Seq(Line) /\ t \in Seq(Line)
        BY <1>2, <1>3
    <2> QED
        BY <2>1, ConcatProperties
<1>6. (one \o t)[1] = BeginLine
    BY <1>1, <1>2, <1>3, <1>5
<1>7. ASSUME NEW i \in 1 .. Len(s)
      PROVE  (one \o t)[1 + i] = RowLine(s[i])
    <2>1. 1 + i \in 1 .. 1 + Len(s) /\ ~ 1 + i <= 1 /\ 1 + i - 1 = i
        BY <1>1
    <2>2. (one \o t)[1 + i] = t[i]
        BY <1>2, <1>3, <1>5, <2>1
    <2> QED
        BY <1>2, <2>2
<1> QED
    BY <1>2, <1>3, <1>4, <1>5, <1>6, <1>7

\* A REPLACE_BEGIN and the REPLACE_ROW lines after it are those of the rows in them.
LEMMA ReplaceLinesOf ==
    ASSUME NEW lines \in Seq(Line), NEW n \in 1 .. Len(lines), lines[1] = BeginLine,
           \A i \in 2 .. n : lines[i].type = "REPLACE_ROW",
           NEW s \in Seq(Row), s = [i \in 1 .. n - 1 |-> lines[i + 1].row]
    PROVE  lines = ReplaceLines(s) \o SubSeq(lines, n + 1, Len(lines))
<1> DEFINE rest == SubSeq(lines, n + 1, Len(lines))
           b == ReplaceLines(s)
<1>1. /\ Len(lines) \in Nat /\ n \in Nat /\ n <= Len(lines) /\ n + (Len(lines) - n) = Len(lines)
      /\ Len(s) = n - 1 /\ 1 + (n - 1) = n
    OBVIOUS
<1>2. /\ b \in Seq(Line) /\ Len(b) = n /\ b[1] = BeginLine
      /\ \A i \in 1 .. n - 1 : b[1 + i] = RowLine(s[i])
    BY <1>1, ReplaceLinesAre
<1>3. /\ rest \in Seq(Line) /\ Len(rest) = Len(lines) - n
      /\ \A i \in 1 .. Len(lines) - n : rest[i] = lines[n + i]
    <2>1. Len(lines) \in Nat /\ n \in Nat /\ n + 1 \in Nat /\ n + 1 <= Len(lines) + 1
        BY <1>1
    <2>2. \A i \in n + 1 .. Len(lines) : lines[i] \in Line
        OBVIOUS
    <2>3. /\ rest \in Seq(Line)
          /\ Len(rest) = IF n + 1 <= Len(lines) THEN Len(lines) - (n + 1) + 1 ELSE 0
          /\ \A i \in 1 .. Len(lines) - (n + 1) + 1 : rest[i] = lines[n + 1 + i - 1]
        BY <2>1, <2>2, SubSeqProperties
    <2> HIDE DEF rest
    <2>4. Len(lines) - (n + 1) + 1 = Len(lines) - n /\ (~ n + 1 <= Len(lines) => Len(lines) - n = 0)
        BY <2>1
    <2>5. \A i \in 1 .. Len(lines) - n : n + 1 + i - 1 = n + i
        BY <2>1
    <2> QED
        BY <2>3, <2>4, <2>5
<1>4. \A i \in 2 .. n : lines[i] = RowLine(lines[i].row)
    BY <1>1 DEF Line, InsertLine, RowLine, BeginLine, CommitLine
<1> HIDE DEF b, rest
<1>5. ASSUME NEW i \in 1 .. n
      PROVE  b[i] = lines[i]
    <2>1. CASE i = 1
        BY <1>2, <2>1
    <2>2. CASE i # 1
        <3>1. i - 1 \in 1 .. n - 1 /\ 1 + (i - 1) = i /\ (i - 1) + 1 = i /\ i \in 2 .. n
            BY <1>1, <2>2
        <3>2. b[i] = RowLine(s[i - 1])
            BY <1>2, <3>1
        <3>3. s[i - 1] = lines[i].row
            BY <3>1
        <3> QED
            BY <1>4, <3>1, <3>2, <3>3
    <2> QED
        BY <2>1, <2>2
<1>6. /\ b \o rest \in Seq(Line) /\ Len(b \o rest) = Len(lines)
      /\ \A i \in 1 .. Len(lines) : (b \o rest)[i] = IF i <= n THEN b[i] ELSE rest[i - n]
    <2>1. /\ b \o rest \in Seq(Line) /\ Len(b \o rest) = Len(b) + Len(rest)
          /\ \A i \in 1 .. Len(b) + Len(rest) :
                (b \o rest)[i] = IF i <= Len(b) THEN b[i] ELSE rest[i - Len(b)]
        <3>1. b \in Seq(Line) /\ rest \in Seq(Line)
            BY <1>2, <1>3
        <3> QED
            BY <3>1, ConcatProperties
    <2> QED
        BY <1>1, <1>2, <1>3, <2>1
<1>7. \A i \in 1 .. Len(lines) : (b \o rest)[i] = lines[i]
    <2> TAKE i \in 1 .. Len(lines)
    <2>1. CASE i <= n
        <3>1. i \in 1 .. n
            BY <1>1, <2>1
        <3> QED
            BY <1>5, <1>6, <2>1, <3>1
    <2>2. CASE ~ i <= n
        <3>1. i - n \in 1 .. Len(lines) - n /\ n + (i - n) = i
            BY <1>1, <2>2
        <3>2. (b \o rest)[i] = rest[i - n]
            BY <1>6, <2>2
        <3> QED
            BY <1>3, <3>1, <3>2
    <2> QED
        BY <2>1, <2>2
<1>8. lines = b \o rest
    BY <1>6, <1>7, SeqEqual
<1> QED
    BY <1>8 DEF b, rest

\* A DELETE or UPDATE is replayed with logging off: what is uncommitted stays.
LEMMA RedoReplaceReopen ==
    ASSUME IInv, ReopenInv, RedoReplace
    PROVE  ReopenInv'
<1>1. /\ pc = "recover" /\ stmt = NoStatement /\ stmt' = NoStatement /\ pc' = "clear"
      /\ job' = "replace" /\ done' = 0 /\ wal' = wal /\ walGood' = walGood
      /\ replay # <<>> /\ Head(replay) = BeginLine
    BY DEF RedoReplace, IInv, Structure, logVars
<1>2. PICK n \in 1 .. Len(replay) :
        /\ \A i \in 2 .. n : replay[i].type = "REPLACE_ROW"
        /\ image' = [i \in 1 .. n - 1 |-> replay[i + 1].row]
        /\ replay' = SubSeq(replay, n + 1, Len(replay))
    BY DEF RedoReplace, After
<1>3. /\ replay \in Seq(Line) /\ Len(replay) \in Nat /\ replay[1] = BeginLine
      /\ image' \in Seq(Row)
    <2>1. image' \in Seq(Row)
        BY RedoReplaceStep DEF IInv, TypeOK
    <2> QED
        BY <1>1, <2>1 DEF IInv, TypeOK
<1>4. UncommittedLines' = UncommittedLines
    BY <1>1, SameLog
<1>5. replay = ReplaceLines(image') \o replay'
    BY <1>2, <1>3, ReplaceLinesOf
<1>6. ReadBack(replay) => Readable(image') /\ ReadBack(replay')
    <2> SUFFICES ASSUME ReadBack(replay)
                 PROVE  Readable(image') /\ ReadBack(replay')
        OBVIOUS
    <2>1. Len(image') = n - 1 /\ \A i \in 1 .. n - 1 : image'[i] = replay[i + 1].row
        BY <1>2, <1>3
    <2>2. ASSUME NEW i \in 1 .. n - 1
          PROVE  /\ Stored(image'[i]) /\ image'[i] \notin Unindexable
                 /\ Replay[image'[i]] = image'[i]
        <3>1. i + 1 \in 2 .. n /\ i + 1 \in 1 .. Len(replay)
            BY <1>3
        <3>2. replay[i + 1] # BeginLine
            BY <1>2, <3>1 DEF BeginLine
        <3> QED
            BY <2>1, <3>1, <3>2 DEF ReadBack
    <2>3. Readable(image')
        BY <2>1, <2>2 DEF Readable
    <2>4. ReadBack(replay')
        BY <1>2, <1>3, ReadBackRest
    <2> QED
        BY <2>3, <2>4
<1>7. CASE Settled
    BY <1>1, <1>4, <1>7, RecoveryStep DEF Settled
<1>8. CASE Fresh /\ ~ Settled
    <2>1. ReadBack(replay) /\ UncommittedLines = replay /\ ~ walGood
        BY <1>8 DEF Fresh, Settled
    <2>2. UncommittedLines' = ReplaceLines(image') \o replay'
        BY <1>4, <1>5, <2>1
    <2>3. FirstReplace'
        BY <1>1, <1>6, <2>1, <2>2 DEF FirstReplace, ReplaceLines, Readable, ReadBack, Stored
    <2> QED
        BY <1>1, <2>3, RecoveryStep
<1>9. CASE FirstReplaced
    <2>1. Readable(image') /\ walGood
        BY <1>6, <1>9 DEF FirstReplaced
    <2>2. Later'
        BY <1>1, <2>1 DEF Later, Readable
    <2> QED
        BY <1>1, <2>2, RecoveryStep
<1> QED
    BY <1>1, <1>7, <1>8, <1>9, InRecovery DEF FirstInsert, FirstReplace, Later

\* The commit after an entry, swallowed if it is the first.
LEMMA RecommitReopen ==
    ASSUME IInv, ReopenInv, Recommit
    PROVE  ReopenInv'
<1>1. /\ pc = "recommit" /\ stmt = NoStatement /\ stmt' = NoStatement /\ pc' = "recover"
      /\ rows' = rows /\ replay' = replay /\ Commit
      /\ job = "replace" => ~ inRecovery'
    BY DEF Recommit, IInv, Structure, dataVars
<1>2. /\ UncommittedLines' = IF walGood THEN <<>> ELSE UncommittedLines
      /\ walGood' = TRUE
    BY <1>1, CommitLeaves DEF IInv
<1>3. CASE Settled \/ Later
    <2>1. Settled'
        BY <1>2, <1>3 DEF Settled, Later
    <2> QED
        BY <1>1, <2>1, RecoveryStep
<1>4. CASE FirstReplace
    <2>1. UncommittedLines' = ReplaceLines(rows) \o replay /\ ReadBack(replay) /\ ~ inRecovery'
        BY <1>1, <1>2, <1>4 DEF FirstReplace
    <2>2. (ReplaceLines(rows) \o replay)' = ReplaceLines(rows) \o replay
        BY <1>1 DEF ReplaceLines
    <2>3. ReadBack(replay)'
        BY <1>1, <2>1
    <2>4. FirstReplaced'
        BY <1>1, <1>2, <2>1, <2>2, <2>3 DEF FirstReplaced
    <2> QED
        BY <1>1, <2>4, RecoveryStep
<1> QED
    BY <1>1, <1>3, <1>4, InRecovery DEF Fresh, FirstInsert, FirstReplaced

\* Recovery ends: what is still uncommitted are the rows there are.
LEMMA RecoveredReopen ==
    ASSUME IInv, ReopenInv, Recovered
    PROVE  ReopenInv'
<1>1. /\ pc = "recover" /\ stmt = NoStatement /\ stmt' = NoStatement /\ pc' = "idle"
      /\ replay = <<>> /\ UNCHANGED <<rows, wal, walGood, inRecovery>>
    BY DEF Recovered, IInv, Structure, dataVars, logVars
<1>2. UncommittedLines' = UncommittedLines
    BY <1>1, SameLog
<1>3. CASE Settled \/ Fresh
    <2>1. Settled'
        BY <1>1, <1>2, <1>3 DEF Settled, Fresh
    <2> QED
        BY <1>1, <2>1, SettledNow
<1>4. CASE FirstReplaced
    <2>1. ReplaceLines(rows) \in Seq(Line)
        BY ReplaceLinesAre DEF IInv, TypeOK
    <2>2. UncommittedLines = ReplaceLines(rows) /\ walGood /\ ~ inRecovery
        BY <1>1, <1>4, <2>1 DEF FirstReplaced
    <2>3. (ReplaceLines(rows))' = ReplaceLines(rows)
        BY <1>1 DEF ReplaceLines
    <2> QED
        BY <1>1, <1>2, <2>2, <2>3 DEF ReopenInv, Serving, AsReplayed, Replaying, Recovering
<1> QED
    BY <1>1, <1>3, <1>4, InRecovery DEF FirstInsert, FirstReplace, Later

--------------------------------------------------------------------------------
(* What is replayed leaves the rows as they are *)

\* Redone, once the last REPLACE_BEGIN is known.
LEMMA RedoneIs ==
    ASSUME NEW base, NEW lines, NEW k, (CHOOSE m \in 0 .. Len(lines) : LastBegin(lines, m)) = k
    PROVE  Redone(base, lines) = RowsAfter(base, lines, k)
BY DEF Redone

\* Nothing to replay leaves the rows.
LEMMA RedoneNothing ==
    ASSUME NEW s \in Seq(Row)
    PROVE  Redone(s, <<>>) = s
<1>1. Len(<<>>) = 0 /\ 0 .. 0 = {0}
    OBVIOUS
<1>2. LastBegin(<<>>, 0)
    BY <1>1 DEF LastBegin
<1>3. (CHOOSE k \in 0 .. Len(<<>>) : LastBegin(<<>>, k)) = 0
    BY <1>1, <1>2
<1> DEFINE t == [i \in 1 .. Len(<<>>) - 0 |-> <<>>[0 + i].row]
<1>4. t = <<>>
    <2>1. t \in [1 .. 0 -> Row]
        BY <1>1
    <2>2. t \in Seq(Row) /\ Len(t) = 0
        BY <2>1, FunctionIsSeq
    <2> QED
        BY <2>2
<1>5. Redone(s, <<>>) = s \o t
    BY <1>3, RedoneIs DEF RowsAfter
<1> QED
    BY <1>4, <1>5

\* A DELETE or UPDATE replayed leaves the rows it was logged with.
LEMMA RedoneReplace ==
    ASSUME NEW base, NEW s \in Seq(Row)
    PROVE  Redone(base, ReplaceLines(s)) = s
<1> DEFINE u == ReplaceLines(s)
<1>1. /\ Len(s) \in Nat /\ Len(u) = 1 + Len(s) /\ u[1] = BeginLine
      /\ \A i \in 1 .. Len(s) : u[1 + i] = RowLine(s[i])
    BY ReplaceLinesAre
<1> HIDE DEF u
<1>2. \A i \in 2 .. Len(u) : u[i] # BeginLine
    <2> TAKE i \in 2 .. Len(u)
    <2>1. i - 1 \in 1 .. Len(s) /\ 1 + (i - 1) = i
        BY <1>1
    <2>2. u[i] = RowLine(s[i - 1])
        BY <1>1, <2>1
    <2> QED
        BY <2>2 DEF RowLine, BeginLine
<1>3. LastBegin(u, 1) /\ 1 \in 0 .. Len(u)
    BY <1>1, <1>2 DEF LastBegin
<1>4. ASSUME NEW k \in 0 .. Len(u), LastBegin(u, k)
      PROVE  k = 1
    <2>1. k # 0
        <3>1. 1 \in 0 + 1 .. Len(u)
            BY <1>1
        <3> QED
            BY <1>1, <1>4, <3>1 DEF LastBegin
    <2>2. k \notin 2 .. Len(u)
        BY <1>2, <1>4, <2>1 DEF LastBegin
    <2> QED
        BY <1>1, <2>1, <2>2
<1>5. (CHOOSE k \in 0 .. Len(u) : LastBegin(u, k)) = 1
    BY <1>3, <1>4
<1> DEFINE t == [i \in 1 .. Len(u) - 1 |-> u[1 + i].row]
<1>6. t \in Seq(Row) /\ t = s
    <2>1. Len(u) - 1 = Len(s)
        BY <1>1
    <2>2. \A i \in 1 .. Len(s) : u[1 + i].row = s[i]
        <3> TAKE i \in 1 .. Len(s)
        <3>1. u[1 + i] = RowLine(s[i])
            BY <1>1
        <3> QED
            BY <3>1 DEF RowLine
    <2>3. t = [i \in 1 .. Len(s) |-> s[i]]
        BY <2>1, <2>2
    <2>4. t \in [1 .. Len(s) -> Row] /\ \A i \in 1 .. Len(s) : t[i] = s[i]
        <3> HIDE DEF t
        <3> QED
            BY <1>1, <2>3
    <2> HIDE DEF t
    <2>5. t \in Seq(Row) /\ Len(t) = Len(s)
        BY <1>1, <2>4, FunctionIsSeq
    <2>6. t = s
        BY <2>4, <2>5, SeqEqual
    <2> QED
        BY <2>5, <2>6
<1>7. Redone(base, u) = <<>> \o t
    <2>1. Redone(base, u) = RowsAfter(base, u, 1)
        BY <1>5, RedoneIs
    <2>2. RowsAfter(base, u, 1) = <<>> \o t
        BY DEF RowsAfter
    <2> QED
        BY <2>1, <2>2
<1> HIDE DEF t
<1>8. <<>> \o t = t
    BY <1>6
<1> QED
    BY <1>6, <1>7, <1>8 DEF u

\* Every step keeps what makes reopening harmless.
THEOREM StepReopen == IInv /\ ReopenInv /\ [Next]_vars => ReopenInv'
<1> SUFFICES ASSUME IInv, ReopenInv, [Next]_vars
             PROVE  ReopenInv'
    OBVIOUS
<1>1. CASE UNCHANGED vars
    BY <1>1, QuietReopen
<1>2. ASSUME NEW s \in Statements, Submit(s)
      PROVE  ReopenInv'
    BY <1>2, SubmitReopen
<1>3. CASE InsertBegin \/ DeleteBegin \/ UpdateBegin \/ UpdateNothing \/ LogRow
    BY <1>3, ServeReopen
<1>4. CASE Clear \/ Cleared
    BY <1>4, ClearReopen
<1>5. CASE StoreRow \/ SkipRow \/ AllStored
    BY <1>5, StoreReopen, AllStoredReopen
<1>6. CASE CommitStatement \/ InsertFails
    BY <1>6, CommitStatementReopen, InsertFailsReopen
<1>7. CASE Start \/ Use
    BY <1>7, OpenReopen
<1>8. CASE RedoInsert \/ RedoReplace \/ Recommit \/ Recovered
    BY <1>8, RedoInsertReopen, RedoReplaceReopen, RecommitReopen, RecoveredReopen
<1>9. CASE Crash \/ PowerFailure \/ WriteBack
    BY <1>9, StopReopen, QuietReopen
<1> QED
    BY <1>1, <1>2, <1>3, <1>4, <1>5, <1>6, <1>7, <1>8, <1>9 DEF Next, Running

\* Closing a database between statements and opening it again (WALManager::recover)
\* leaves its rows as they were, whatever statements, crashes and earlier recoveries
\* came before, unless a row still in the log does not read back as it was.
THEOREM ReopenLeavesRows == Spec => []ReopenChangesNothing
<1>1. Init => ReopenInv
    BY DEF Init, ReopenInv, Serving, AsReplayed, Replaying, Recovering
<1>2. IInv /\ ReopenInv => ReopenChangesNothing
    <2> SUFFICES ASSUME IInv, ReopenInv, pc = "idle", ReadBack(UncommittedLines)
                 PROVE  ToBag(Redone(rows, UncommittedLines)) = ToBag(rows)
        BY DEF ReopenChangesNothing
    <2>1. UncommittedLines = <<>> \/ UncommittedLines = ReplaceLines(rows)
        BY DEF ReopenInv, AsReplayed, Settled
    <2>2. Redone(rows, UncommittedLines) = rows
        BY <2>1, RedoneNothing, RedoneReplace DEF IInv, TypeOK
    <2> QED
        BY <2>2
<1> QED
    BY <1>1, <1>2, StepReopen, InitInvariant, StepInvariant, PTL DEF Spec

--------------------------------------------------------------------------------
(* Bags of rows *)

\* The positions of a sequence at which a row stands.
At(s, r) == {i \in 1 .. Len(s) : s[i] = r}

\* The bag of a sequence counts them.
LEMMA BagOf ==
    ASSUME NEW s \in Seq(Row)
    PROVE  /\ ToBag(s) = [r \in {s[i] : i \in 1 .. Len(s)} |-> Cardinality(At(s, r))]
           /\ DOMAIN ToBag(s) = {s[i] : i \in 1 .. Len(s)}
           /\ \A r : r \in DOMAIN ToBag(s) <=> At(s, r) # {}
           /\ \A r \in DOMAIN ToBag(s) : ToBag(s)[r] = Cardinality(At(s, r))
<1>1. DOMAIN s = 1 .. Len(s)
    OBVIOUS
<1>2. ToBag(s) = [r \in {s[i] : i \in 1 .. Len(s)} |-> Cardinality(At(s, r))]
    BY <1>1 DEF ToBag, Range, At
<1> QED
    BY <1>2 DEF At

\* There are finitely many.
LEMMA AtFinite ==
    ASSUME NEW s \in Seq(Row), NEW T, T \subseteq 1 .. Len(s)
    PROVE  IsFiniteSet(T) /\ Cardinality(T) \in Nat
<1>1. Len(s) \in Nat
    OBVIOUS
<1>2. IsFiniteSet(1 .. Len(s))
    BY <1>1, FS_Interval
<1> QED
    BY <1>2, FS_Subset, FS_CardinalityType

\* Two sequences with as many positions for every row have the same bag.
LEMMA SameBag ==
    ASSUME NEW s \in Seq(Row), NEW B, NEW D, B = [r \in D |-> B[r]],
           \A r : r \in D <=> At(s, r) # {},
           \A r \in D : B[r] = Cardinality(At(s, r))
    PROVE  ToBag(s) = B
BY BagOf

\* No rows are the empty bag.
LEMMA NoRowsBag == ToBag(<<>>) = Abstract!EmptyBag
<1>1. <<>> \in Seq(Row) /\ Len(<<>>) = 0
    OBVIOUS
<1>2. ToBag(<<>>) = [r \in {<<>>[i] : i \in 1 .. Len(<<>>)} |-> Cardinality(At(<<>>, r))]
    BY <1>1, BagOf
<1>3. {<<>>[i] : i \in 1 .. Len(<<>>)} = {}
    BY <1>1
<1> QED
    BY <1>2, <1>3 DEF Abstract!EmptyBag

\* INSERT: the bag has one row more.
LEMMA InsertBag ==
    ASSUME NEW s \in Seq(Row), NEW r \in Row
    PROVE  ToBag(Append(s, r)) = Abstract!Add(ToBag(s), r, 1)
<1> DEFINE t == Append(s, r)
           B == ToBag(s)
           n == Len(s)
<1>1. /\ n \in Nat /\ t \in Seq(Row) /\ Len(t) = n + 1 /\ t[n + 1] = r
      /\ \A i \in 1 .. n : t[i] = s[i]
    BY AppendProperties
<1>2. /\ \A x : x \in DOMAIN B <=> At(s, x) # {}
      /\ \A x \in DOMAIN B : B[x] = Cardinality(At(s, x))
    BY BagOf
<1> HIDE DEF t, B, n
<1>3. At(t, r) = At(s, r) \cup {n + 1} /\ n + 1 \notin At(s, r)
    BY <1>1 DEF At, n
<1>4. \A x : x # r => At(t, x) = At(s, x)
    BY <1>1 DEF At, n
<1>5. \A x : IsFiniteSet(At(s, x)) /\ Cardinality(At(s, x)) \in Nat
    BY AtFinite DEF At
<1>6. Cardinality(At(t, r)) = Cardinality(At(s, r)) + 1
    BY <1>3, <1>5, FS_AddElement
<1>7. Cardinality({}) = 0
    BY FS_EmptySet
<1> DEFINE D == DOMAIN B \cup {r}
<1>8. \A x : x \in D <=> At(t, x) # {}
    BY <1>2, <1>3, <1>4
<1> DEFINE C == Abstract!Add(B, r, 1)
<1>9. C = [x \in D |-> (IF x \in DOMAIN B THEN B[x] ELSE 0) + (IF x = r THEN 1 ELSE 0)]
    BY DEF Abstract!Add
<1> HIDE DEF C
<1>10. \A x \in D : C[x] = Cardinality(At(t, x))
    <2> TAKE x \in D
    <2>1. C[x] = (IF x \in DOMAIN B THEN B[x] ELSE 0) + (IF x = r THEN 1 ELSE 0)
        BY <1>9
    <2>2. x \notin DOMAIN B => At(s, x) = {} /\ Cardinality(At(s, x)) = 0
        BY <1>2, <1>7
    <2>3. x \in DOMAIN B => B[x] = Cardinality(At(s, x))
        BY <1>2
    <2>4. C[x] = Cardinality(At(s, x)) + (IF x = r THEN 1 ELSE 0)
        BY <1>5, <2>1, <2>2, <2>3
    <2>5. x # r => Cardinality(At(t, x)) = Cardinality(At(s, x))
        BY <1>4
    <2> QED
        BY <1>5, <1>6, <2>4, <2>5
<1>11. C = [x \in D |-> C[x]]
    BY <1>9
<1>12. ToBag(t) = C
    <2> HIDE DEF D
    <2> QED
        BY <1>1, <1>8, <1>10, <1>11, SameBag
<1> QED
    BY <1>12 DEF t, B, C

\* A function between sets that takes each element to its own, all of them.
LEMMA SameSize ==
    ASSUME NEW S, NEW T, IsFiniteSet(S), NEW f \in [S -> T],
           \A x, y \in S : f[x] = f[y] => x = y,
           \A y \in T : \E x \in S : f[x] = y
    PROVE  IsFiniteSet(T) /\ Cardinality(T) = Cardinality(S)
<1>1. f \in Bijection(S, T)
    BY DEF Bijection, Injection, Surjection, IsInjective
<1> QED
    BY <1>1, FS_Bijection DEF ExistsBijection

\* DELETE: the bag loses the rows of its condition, and nothing else.
LEMMA DeleteBag ==
    ASSUME NEW s \in Seq(Row), NEW cond, NEW k \in Kept(s, cond)
    PROVE  ToBag(k) = Abstract!Without(ToBag(s), cond)
<1> DEFINE I == {i \in 1 .. Len(s) : s[i] \notin cond}
           m == Cardinality(I)
<1>1. Len(s) \in Nat /\ IsFiniteSet(I) /\ m \in Nat
    BY AtFinite
<1>2. PICK at \in [1 .. m -> I] :
        /\ k = [j \in DOMAIN at |-> s[at[j]]]
        /\ \A j, l \in 1 .. m : j < l => at[j] < at[l]
    BY DEF Kept
<1>3. I \subseteq 1 .. Len(s) /\ I \subseteq Int
    BY <1>1
<1>4. \A i \in 1 .. Len(s) : i \in I <=> s[i] \notin cond
    OBVIOUS
<1> HIDE DEF I, m
<1>5. k \in Seq(Row) /\ Len(k) = m /\ \A j \in 1 .. m : k[j] = s[at[j]]
    <2>1. \A j \in 1 .. m : at[j] \in I /\ s[at[j]] \in Row
        BY <1>2, <1>3, ElementOfSeq
    <2>2. k \in [1 .. m -> Row]
        BY <1>2, <2>1
    <2> QED
        BY <1>1, <1>2, <2>2, FunctionIsSeq
<1>6. \A j, l \in 1 .. m : at[j] = at[l] => j = l
    <2> TAKE j, l \in 1 .. m
    <2>1. j \in Int /\ l \in Int
        BY <1>1
    <2>4. at[j] \in I /\ at[l] \in I
        BY <1>2
    <2>5. at[j] \in Int /\ at[l] \in Int
        BY <1>3, <2>4
    <2>2. j < l => at[j] < at[l]
        BY <1>2
    <2>3. l < j => at[l] < at[j]
        BY <1>2
    <2> QED
        BY <2>1, <2>2, <2>3, <2>5
<1>7. \A i \in I : \E j \in 1 .. m : at[j] = i
    <2>1. at \in Injection(1 .. m, I)
        BY <1>2, <1>6 DEF Injection, IsInjective
    <2>2. Cardinality(1 .. m) = Cardinality(I)
        BY <1>1, FS_Interval DEF m
    <2>3. at \in Surjection(1 .. m, I)
        BY <1>1, <2>1, <2>2, FS_Injection
    <2> QED
        BY <2>3 DEF Surjection
<1>8. ASSUME NEW r, r \in cond
      PROVE  At(k, r) = {}
    BY <1>2, <1>3, <1>4, <1>5, <1>8 DEF At
<1>9. ASSUME NEW r, r \notin cond
      PROVE  Cardinality(At(k, r)) = Cardinality(At(s, r)) /\ (At(k, r) = {} <=> At(s, r) = {})
    <2> DEFINE f == [j \in At(k, r) |-> at[j]]
    <2>1. At(k, r) \subseteq 1 .. m /\ \A j \in At(k, r) : at[j] \in At(s, r)
        BY <1>2, <1>3, <1>5 DEF At
    <2>2. \A i \in At(s, r) : \E j \in At(k, r) : at[j] = i
        BY <1>4, <1>5, <1>7, <1>9 DEF At
    <2>3. f \in [At(k, r) -> At(s, r)]
        BY <2>1
    <2>4. \A i, j \in At(k, r) : f[i] = f[j] => i = j
        BY <1>6, <2>1
    <2>5. \A i \in At(s, r) : \E j \in At(k, r) : f[j] = i
        BY <2>2
    <2>6. IsFiniteSet(At(k, r))
        BY <1>5, <2>1, AtFinite
    <2>7. Cardinality(At(s, r)) = Cardinality(At(k, r))
        <3> HIDE DEF f
        <3> QED
            BY <2>3, <2>4, <2>5, <2>6, SameSize
    <2> QED
        BY <2>1, <2>2, <2>7
<1> DEFINE B == ToBag(s)
           D == DOMAIN B \ cond
           C == [r \in D |-> B[r]]
<1>10. /\ \A r : r \in DOMAIN B <=> At(s, r) # {}
       /\ \A r \in DOMAIN B : B[r] = Cardinality(At(s, r))
    BY BagOf
<1> HIDE DEF B
<1>11. \A r : r \in D <=> At(k, r) # {}
    BY <1>8, <1>9, <1>10
<1>12. \A r \in D : C[r] = Cardinality(At(k, r))
    BY <1>9, <1>10
<1>13. C = [r \in D |-> C[r]]
    OBVIOUS
<1>14. ASSUME NEW F, F = [r \in D |-> F[r]], \A r \in D : F[r] = Cardinality(At(k, r))
       PROVE  ToBag(k) = F
    <2> HIDE DEF C, D
    <2>1. k \in Seq(Row)
        BY <1>5
    <2>2. \A r : r \in D <=> At(k, r) # {}
        BY <1>11
    <2>3. F = [r \in D |-> F[r]]
        BY <1>14
    <2>4. \A r \in D : F[r] = Cardinality(At(k, r))
        BY <1>14
    <2> QED
        BY <2>1, <2>2, <2>3, <2>4, SameBag
<1> QED
    BY <1>12, <1>13, <1>14 DEF B, Abstract!Without

\* The positions of the rows that satisfy a condition.
AtAll(s, cond) == {i \in 1 .. Len(s) : s[i] \in cond}

\* The copies a bag has of them are as many as their positions: number the
\* positions of each row.
LEMMA CopiesOf ==
    ASSUME NEW s \in Seq(Row), NEW cond
    PROVE  Cardinality({c \in Abstract!Copies(ToBag(s)) : c[1] \in cond})
                = Cardinality(AtAll(s, cond))
<1> DEFINE B == ToBag(s)
           D == DOMAIN B
           S == {c \in Abstract!Copies(B) : c[1] \in cond}
           T == AtAll(s, cond)
           number == [r \in D |-> CHOOSE f : f \in Bijection(At(s, r), 1 .. B[r])]
           g == [i \in T |-> <<s[i], number[s[i]][i]>>]
<1>1. /\ D = {s[i] : i \in 1 .. Len(s)}
      /\ \A r \in D : B[r] = Cardinality(At(s, r))
    BY BagOf
<1> HIDE DEF B, D
<1>2. ASSUME NEW r \in D
      PROVE  number[r] \in Bijection(At(s, r), 1 .. B[r])
    <2>1. IsFiniteSet(At(s, r)) /\ IsFiniteSet(1 .. B[r]) /\ Cardinality(1 .. B[r]) = B[r]
        <3>1. IsFiniteSet(At(s, r)) /\ Cardinality(At(s, r)) \in Nat
            BY AtFinite DEF At
        <3>2. B[r] \in Nat /\ 1 \in Int /\ B[r] \in Int
            BY <1>1, <3>1
        <3>3. IsFiniteSet(1 .. B[r])
            BY <3>2, FS_Interval
        <3>4. Cardinality(1 .. B[r]) = IF 1 > B[r] THEN 0 ELSE B[r] - 1 + 1
            BY <3>2, FS_Interval
        <3> QED
            BY <3>1, <3>2, <3>3, <3>4
    <2>2. ExistsBijection(At(s, r), 1 .. B[r])
        BY <1>1, <2>1, FS_SameCardinalityBij
    <2>3. \E f : f \in Bijection(At(s, r), 1 .. B[r])
        BY <2>2 DEF ExistsBijection
    <2> QED
        BY <2>3
<1> HIDE DEF number
<1>3. ASSUME NEW r \in D
      PROVE  /\ number[r] \in [At(s, r) -> 1 .. B[r]]
             /\ \A i, j \in At(s, r) : number[r][i] = number[r][j] => i = j
             /\ \A n \in 1 .. B[r] : \E i \in At(s, r) : number[r][i] = n
    BY <1>2 DEF Bijection, Injection, Surjection, IsInjective
<1>4. \A c : c \in Abstract!Copies(B) <=> \E r \in D : \E n \in 1 .. B[r] : c = <<r, n>>
    BY DEF Abstract!Copies, D
<1>5. \A i \in T : s[i] \in D /\ i \in At(s, s[i]) /\ s[i] \in cond
    BY <1>1 DEF At, AtAll
<1>6. g \in [T -> S]
    <2> SUFFICES ASSUME NEW i \in T
                 PROVE  <<s[i], number[s[i]][i]>> \in S
        OBVIOUS
    <2>1. number[s[i]][i] \in 1 .. B[s[i]]
        BY <1>3, <1>5
    <2>2. <<s[i], number[s[i]][i]>> \in Abstract!Copies(B)
        BY <1>4, <1>5, <2>1
    <2> QED
        BY <1>5, <2>2
<1>7. \A i, j \in T : g[i] = g[j] => i = j
    <2> TAKE i, j \in T
    <2> HAVE g[i] = g[j]
    <2>1. <<s[i], number[s[i]][i]>> = <<s[j], number[s[j]][j]>>
        OBVIOUS
    <2>2. s[i] = s[j] /\ number[s[i]][i] = number[s[i]][j]
        BY <2>1
    <2> QED
        BY <1>3, <1>5, <2>2
<1>8. \A c \in S : \E i \in T : g[i] = c
    <2> TAKE c \in S
    <2>1. PICK r \in D : \E n \in 1 .. B[r] : c = <<r, n>>
        BY <1>4
    <2>5. PICK n \in 1 .. B[r] : c = <<r, n>>
        BY <2>1
    <2>2. PICK i \in At(s, r) : number[r][i] = n
        BY <1>3
    <2>3. r \in cond
        BY <2>5
    <2>4. i \in T /\ s[i] = r
        BY <2>2, <2>3 DEF At, AtAll
    <2> QED
        BY <2>2, <2>4, <2>5
<1>9. IsFiniteSet(T)
    BY AtFinite DEF AtAll
<1>10. Cardinality(S) = Cardinality(T)
    <2> HIDE DEF g, S, T
    <2> QED
        BY <1>6, <1>7, <1>8, <1>9, SameSize
<1> QED
    BY <1>10 DEF B

\* AtomicTable counts like the rest of the project.
LEMMA CardinalityOfAbstract == \A S : Abstract!Cardinality(S) = Cardinality(S)
BY DEF Abstract!Cardinality, Cardinality

\* UPDATE: the rows of its condition become rows of their new value.
LEMMA UpdateBag ==
    ASSUME NEW s \in Seq(Row), NEW cond, NEW to \in Row
    PROVE  ToBag(Assigned(s, cond, to)) = Abstract!MoveAll(ToBag(s), cond, to)
<1> DEFINE t == Assigned(s, cond, to)
           B == ToBag(s)
           moved == Cardinality({c \in Abstract!Copies(B) : c[1] \in cond})
           stays == DOMAIN B \ cond
           D == stays \cup {to}
           C == Abstract!Add(Abstract!Without(B, cond), to, moved)
<1>1. Abstract!MoveAll(B, cond, to) = IF moved = 0 THEN B ELSE C
    BY CardinalityOfAbstract DEF Abstract!MoveAll
<1>7. moved = Cardinality(AtAll(s, cond))
    BY CopiesOf
<1>2. /\ t \in Seq(Row) /\ Len(t) = Len(s) /\ Len(s) \in Nat
      /\ \A i \in 1 .. Len(s) : t[i] = IF s[i] \in cond THEN to ELSE s[i]
    BY AssignedType DEF Assigned
<1>3. /\ \A r : r \in DOMAIN B <=> At(s, r) # {}
      /\ \A r \in DOMAIN B : B[r] = Cardinality(At(s, r))
    BY BagOf
<1> HIDE DEF t, B, moved
<1>4. IsFiniteSet(AtAll(s, cond)) /\ (moved = 0 <=> AtAll(s, cond) = {})
    BY <1>7, AtFinite, FS_EmptySet DEF AtAll
<1>8. C = [r \in D |-> (IF r \in stays THEN B[r] ELSE 0) + (IF r = to THEN moved ELSE 0)]
    BY DEF Abstract!Add, Abstract!Without
<1>5. ASSUME moved = 0
      PROVE  ToBag(t) = B
    <2>1. \A i \in 1 .. Len(s) : s[i] \notin cond
        BY <1>4, <1>5 DEF AtAll
    <2>2. t = s
        BY <1>2, <2>1, SeqEqual
    <2> QED
        BY <2>2 DEF B
<1>6. ASSUME moved # 0
      PROVE  ToBag(t) = C
    <2>1. AtAll(s, cond) # {}
        BY <1>4, <1>6
    <2>2. ASSUME NEW r
          PROVE  At(t, r) = (IF r \in cond THEN {} ELSE At(s, r))
                                \cup (IF r = to THEN AtAll(s, cond) ELSE {})
        BY <1>2 DEF At, AtAll
    <2>3. \A r : r \in D <=> At(t, r) # {}
        BY <1>3, <2>1, <2>2
    <2>4. ASSUME NEW r \in D
          PROVE  C[r] = Cardinality(At(t, r))
        <3>1. /\ IsFiniteSet(At(s, r)) /\ Cardinality(At(s, r)) \in Nat /\ moved \in Nat
              /\ Cardinality({}) = 0
            BY <1>7, AtFinite, FS_EmptySet DEF At, AtAll
        <3>2. C[r] = (IF r \in stays THEN B[r] ELSE 0) + (IF r = to THEN moved ELSE 0)
            BY <1>8
        <3>3. CASE r # to
            <4>1. r \in stays /\ At(t, r) = At(s, r)
                BY <2>2, <3>3
            <4> QED
                BY <1>3, <3>1, <3>2, <3>3, <4>1
        <3>4. CASE r = to /\ r \notin stays
            <4>1. At(t, r) = AtAll(s, cond)
                BY <1>3, <2>2, <3>4
            <4> QED
                BY <1>7, <3>1, <3>2, <3>4, <4>1
        <3>5. CASE r = to /\ r \in stays
            <4>1. At(t, r) = At(s, r) \cup AtAll(s, cond)
                BY <2>2, <3>5
            <4>2. At(s, r) \cap AtAll(s, cond) = {}
                BY <3>5 DEF At, AtAll
            <4>3. Cardinality(At(t, r)) = Cardinality(At(s, r)) + moved - 0
                BY <1>4, <1>7, <3>1, <4>1, <4>2, FS_Union
            <4>4. B[r] = Cardinality(At(s, r))
                BY <1>3, <3>5
            <4> QED
                BY <3>1, <3>2, <3>5, <4>3, <4>4
        <3> QED
            BY <3>3, <3>4, <3>5
    <2>5. C = [r \in D |-> C[r]]
        BY <1>8
    <2>6. ASSUME NEW F, F = [r \in D |-> F[r]], \A r \in D : F[r] = Cardinality(At(t, r))
          PROVE  ToBag(t) = F
        <3> HIDE DEF C, D
        <3>1. t \in Seq(Row)
            BY <1>2
        <3> QED
            BY <2>3, <2>6, <3>1, SameBag
    <2> QED
        BY <2>4, <2>5, <2>6
<1> HIDE DEF C
<1> QED
    BY <1>1, <1>5, <1>6 DEF t, B

--------------------------------------------------------------------------------
(* What a log is made of *)

\* A line other than a COMMIT adds to what is uncommitted.
LEMMA RestAdds ==
    ASSUME NEW w \in Seq(Line), NEW line \in Line, line # CommitLine
    PROVE  Rest(Append(w, line)) = Append(Rest(w), line)
<1> DEFINE v == Append(w, line)
<1>1. /\ v \in Seq(Line) /\ Len(v) = Len(w) + 1 /\ Len(w) \in Nat
      /\ v[Len(w) + 1] = line /\ \A i \in 1 .. Len(w) : v[i] = w[i]
    BY AppendProperties
<1>2. PICK k \in 0 .. Len(w) : EndsAt(w, k)
    BY LogEnds
<1>3. Rest(w) = SubSeq(w, k + 1, Len(w))
    BY <1>2, RestIs
<1> HIDE DEF v
<1>4. k \in 0 .. Len(v) /\ EndsAt(v, k)
    BY <1>1, <1>2 DEF EndsAt
<1>5. Rest(v) = SubSeq(v, k + 1, Len(v))
    BY <1>1, <1>4, RestIs
<1>6. SubSeq(v, k + 1, Len(v)) = Append(SubSeq(w, k + 1, Len(w)), line)
    <2> DEFINE p == SubSeq(v, k + 1, Len(v))
               q == SubSeq(w, k + 1, Len(w))
               n == Len(w) - k
    <2>1. n \in Nat /\ k \in Nat /\ Len(v) - k = n + 1
        BY <1>1, <1>2
    <2>2. p \in Seq(Line) /\ Len(p) = n + 1 /\ \A i \in 1 .. n + 1 : p[i] = v[k + i]
        BY <1>1, <2>1
    <2>3. q \in Seq(Line) /\ Len(q) = n /\ \A i \in 1 .. n : q[i] = w[k + i]
        BY <1>1, <2>1
    <2> HIDE DEF p, q
    <2>4. /\ Append(q, line) \in Seq(Line) /\ Len(Append(q, line)) = n + 1
          /\ \A i \in 1 .. n : Append(q, line)[i] = q[i]
          /\ Append(q, line)[n + 1] = line
        BY <2>3, AppendProperties
    <2>5. ASSUME NEW i \in 1 .. n + 1
          PROVE  p[i] = Append(q, line)[i]
        <3>1. CASE i = n + 1
            <4>1. k + i = Len(w) + 1
                BY <2>1, <3>1
            <4> QED
                BY <1>1, <2>2, <2>4, <3>1, <4>1
        <3>2. CASE i # n + 1
            <4>1. i \in 1 .. n /\ k + i \in 1 .. Len(w)
                BY <1>1, <2>1, <3>2
            <4> QED
                BY <1>1, <2>2, <2>3, <2>4, <4>1
        <3> QED
            BY <3>1, <3>2
    <2>6. p = Append(q, line)
        BY <2>2, <2>4, <2>5, SeqEqual
    <2> QED
        BY <2>6 DEF p, q
<1> QED
    BY <1>3, <1>5, <1>6 DEF v

\* So it does to what is in the log.
LEMMA LogAdds ==
    ASSUME TypeOK, NEW line \in Line, line # CommitLine, Log(line), walGood
    PROVE  /\ UncommittedLines' = Append(UncommittedLines, line)
           /\ wal' # <<>> /\ Last(wal') = line /\ walGood' = walGood
<1>1. wal \in Seq(Line) /\ wal' = Append(wal, line) /\ walGood' = walGood
    BY DEF TypeOK, Log
<1>2. wal' # <<>> /\ Last(wal') = line
    BY <1>1, AppendProperties DEF Last
<1> QED
    BY <1>1, <1>2, RestOfLog, RestAdds

\* Nothing is uncommitted in a log that ends with a COMMIT.
LEMMA AllCommitted ==
    ASSUME TypeOK, ~ Uncommitted
    PROVE  UncommittedLines = <<>>
<1>1. wal \in Seq(Line) /\ Len(wal) \in Nat
    BY DEF TypeOK
<1>2. EndsAt(wal, Len(wal))
    BY <1>1 DEF EndsAt, Uncommitted, Last
<1>3. Rest(wal) = SubSeq(wal, Len(wal) + 1, Len(wal))
    BY <1>1, <1>2, RestIs
<1> QED
    BY <1>1, <1>3, RestOfLog

\* The lines of a DELETE or UPDATE, as they are written.
LEMMA ReplaceLinesGrow ==
    /\ ReplaceLines(<<>>) = <<BeginLine>>
    /\ \A s \in Seq(Row), r \in Row :
            ReplaceLines(Append(s, r)) = Append(ReplaceLines(s), RowLine(r))
<1>1. ReplaceLines(<<>>) = <<BeginLine>>
    <2>1. <<>> \in Seq(Row) /\ Len(<<>>) = 0 /\ <<BeginLine>> \in Seq(Line)
        BY LineTypes
    <2> DEFINE none == <<>>
    <2> HIDE DEF none
    <2>3. none \in Seq(Row) /\ 1 + Len(none) = 1
        BY <2>1 DEF none
    <2>2. /\ ReplaceLines(none) \in Seq(Line) /\ Len(ReplaceLines(none)) = 1
          /\ ReplaceLines(none)[1] = BeginLine
        BY <2>3, ReplaceLinesAre
    <2> QED
        BY <2>1, <2>2, SeqEqual DEF none
<1>2. ASSUME NEW s \in Seq(Row), NEW r \in Row
      PROVE  ReplaceLines(Append(s, r)) = Append(ReplaceLines(s), RowLine(r))
    <2> DEFINE a == ReplaceLines(Append(s, r))
               b == ReplaceLines(s)
               c == Append(b, RowLine(r))
    <2>1. /\ Append(s, r) \in Seq(Row) /\ Len(Append(s, r)) = Len(s) + 1 /\ Len(s) \in Nat
          /\ Append(s, r)[Len(s) + 1] = r /\ \A i \in 1 .. Len(s) : Append(s, r)[i] = s[i]
        BY AppendProperties
    <2>2. /\ a \in Seq(Line) /\ Len(a) = Len(s) + 2 /\ a[1] = BeginLine
          /\ \A i \in 1 .. Len(s) + 1 : a[1 + i] = RowLine(Append(s, r)[i])
        <3>1. 1 + (Len(s) + 1) = Len(s) + 2
            BY <2>1
        <3> QED
            BY <2>1, <3>1, ReplaceLinesAre
    <2>3. /\ b \in Seq(Line) /\ Len(b) = Len(s) + 1 /\ b[1] = BeginLine
          /\ \A i \in 1 .. Len(s) : b[1 + i] = RowLine(s[i])
        <3>1. 1 + Len(s) = Len(s) + 1
            BY <2>1
        <3> QED
            BY <3>1, ReplaceLinesAre
    <2> HIDE DEF a, b
    <2>4. /\ c \in Seq(Line) /\ Len(c) = Len(s) + 2 /\ c[Len(s) + 2] = RowLine(r)
          /\ \A i \in 1 .. Len(s) + 1 : c[i] = b[i]
        <3>1. RowLine(r) \in Line
            BY LineTypes
        <3>2. c \in Seq(Line) /\ Len(c) = Len(b) + 1 /\ c[Len(b) + 1] = RowLine(r)
              /\ \A i \in 1 .. Len(b) : c[i] = b[i]
            BY <2>3, <3>1, AppendProperties
        <3>3. Len(s) + 1 + 1 = Len(s) + 2
            BY <2>1
        <3> QED
            BY <2>3, <3>2, <3>3
    <2> HIDE DEF c
    <2>5. ASSUME NEW i \in 1 .. Len(s) + 2
          PROVE  a[i] = c[i]
        <3>1. CASE i = 1
            <4>1. 1 \in 1 .. Len(s) + 1
                BY <2>1
            <4> QED
                BY <2>2, <2>3, <2>4, <3>1, <4>1
        <3>2. CASE i = Len(s) + 2
            <4>1. Len(s) + 1 \in 1 .. Len(s) + 1 /\ 1 + (Len(s) + 1) = Len(s) + 2
                BY <2>1
            <4> QED
                BY <2>1, <2>2, <2>4, <3>2, <4>1
        <3>3. CASE i # 1 /\ i # Len(s) + 2
            <4>1. /\ i - 1 \in 1 .. Len(s) /\ i - 1 \in 1 .. Len(s) + 1 /\ 1 + (i - 1) = i
                  /\ i \in 1 .. Len(s) + 1
                BY <2>1, <3>3
            <4>2. a[i] = RowLine(Append(s, r)[i - 1]) /\ b[i] = RowLine(s[i - 1])
                BY <2>2, <2>3, <4>1
            <4> QED
                BY <2>1, <2>4, <4>1, <4>2
        <3> QED
            BY <3>1, <3>2, <3>3
    <2>6. a = c
        BY <2>2, <2>4, <2>5, SeqEqual
    <2> QED
        BY <2>6 DEF a, b, c
<1> QED
    BY <1>1, <1>2

\* None of them but the first is a REPLACE_BEGIN, and all the others hold a row.
LEMMA ReplaceLinesRows ==
    ASSUME NEW s \in Seq(Row)
    PROVE  \A i \in 2 .. Len(ReplaceLines(s)) :
                /\ ReplaceLines(s)[i] # BeginLine
                /\ ReplaceLines(s)[i].type = "REPLACE_ROW"
                /\ i - 1 \in 1 .. Len(s) /\ ReplaceLines(s)[i].row = s[i - 1]
<1>1. /\ Len(s) \in Nat /\ Len(ReplaceLines(s)) = 1 + Len(s)
      /\ \A i \in 1 .. Len(s) : ReplaceLines(s)[1 + i] = RowLine(s[i])
    BY ReplaceLinesAre
<1> TAKE i \in 2 .. Len(ReplaceLines(s))
<1>2. i - 1 \in 1 .. Len(s) /\ 1 + (i - 1) = i
    BY <1>1
<1>3. ReplaceLines(s)[i] = RowLine(s[i - 1])
    BY <1>1, <1>2
<1> QED
    BY <1>2, <1>3 DEF RowLine, BeginLine

--------------------------------------------------------------------------------
(* What replaying it leaves *)

\* The rows after the last REPLACE_BEGIN, on top of the base if there is none.
LEMMA RedoneAfter ==
    ASSUME NEW base \in Seq(Row), NEW lines \in Seq(Line), NEW k \in 0 .. Len(lines),
           LastBegin(lines, k), NEW u \in Seq(Row), Len(lines) = k + Len(u),
           \A i \in 1 .. Len(u) : lines[k + i].row = u[i]
    PROVE  Redone(base, lines) = IF k = 0 THEN base \o u ELSE u
<1>1. Len(lines) \in Nat /\ Len(u) \in Nat /\ k \in Nat /\ Len(lines) - k = Len(u)
    OBVIOUS
<1>2. ASSUME NEW m \in 0 .. Len(lines), LastBegin(lines, m)
      PROVE  m = k
    <2>1. ASSUME m < k
          PROVE  FALSE
        <3>1. k \in m + 1 .. Len(lines) /\ k # 0
            BY <1>1, <2>1
        <3> QED
            BY <1>2, <3>1 DEF LastBegin
    <2>2. ASSUME k < m
          PROVE  FALSE
        <3>1. m \in k + 1 .. Len(lines) /\ m # 0
            BY <1>1, <2>2
        <3> QED
            BY <1>2, <3>1 DEF LastBegin
    <2> QED
        BY <1>1, <2>1, <2>2
<1>3. (CHOOSE m \in 0 .. Len(lines) : LastBegin(lines, m)) = k
    BY <1>2
<1> DEFINE t == [i \in 1 .. Len(lines) - k |-> lines[k + i].row]
<1>4. t = u
    <2>1. t = [i \in 1 .. Len(u) |-> u[i]]
        BY <1>1
    <2> HIDE DEF t
    <2>2. t \in [1 .. Len(u) -> Row] /\ \A i \in 1 .. Len(u) : t[i] = u[i]
        BY <1>1, <2>1
    <2>3. t \in Seq(Row) /\ Len(t) = Len(u)
        BY <1>1, <2>2, FunctionIsSeq
    <2> QED
        BY <2>2, <2>3, SeqEqual
<1>5. Redone(base, lines) = (IF k = 0 THEN base ELSE <<>>) \o t
    <2>1. Redone(base, lines) = RowsAfter(base, lines, k)
        BY <1>3, RedoneIs
    <2> QED
        BY <2>1 DEF RowsAfter
<1> HIDE DEF t
<1>6. <<>> \o u = u
    OBVIOUS
<1> QED
    BY <1>4, <1>5, <1>6

\* What two sequences of lines are, one after the other.
LEMMA LinesConcat ==
    ASSUME NEW p \in Seq(Line), NEW q \in Seq(Line)
    PROVE  /\ p \o q \in Seq(Line) /\ Len(p \o q) = Len(p) + Len(q)
           /\ \A i \in 1 .. Len(p) : (p \o q)[i] = p[i]
           /\ \A i \in 1 .. Len(q) : (p \o q)[Len(p) + i] = q[i]
           /\ <<>> \o q = q /\ p \o <<>> = p
           /\ \A l \in Line : Append(p \o q, l) = p \o Append(q, l)
<1>1. /\ p \o q \in Seq(Line) /\ Len(p \o q) = Len(p) + Len(q)
      /\ \A i \in 1 .. Len(p) + Len(q) :
            (p \o q)[i] = IF i <= Len(p) THEN p[i] ELSE q[i - Len(p)]
    BY ConcatProperties
<1>2. Len(p) \in Nat /\ Len(q) \in Nat
    OBVIOUS
<1>3. \A i \in 1 .. Len(p) : (p \o q)[i] = p[i]
    BY <1>1, <1>2
<1>4. ASSUME NEW i \in 1 .. Len(q)
      PROVE  (p \o q)[Len(p) + i] = q[i]
    <2>1. Len(p) + i \in 1 .. Len(p) + Len(q) /\ ~ Len(p) + i <= Len(p) /\ Len(p) + i - Len(p) = i
        BY <1>2
    <2> QED
        BY <1>1, <2>1
<1>5. <<>> \o q = q /\ p \o <<>> = p
    OBVIOUS
<1>6. \A l \in Line : Append(p \o q, l) = p \o Append(q, l)
    OBVIOUS
<1> QED
    BY <1>1, <1>3, <1>4, <1>5, <1>6

\* An INSERT entry adds its row.
LEMMA RedoneInsert ==
    ASSUME NEW s \in Seq(Row), NEW r \in Row
    PROVE  Redone(s, <<InsertLine(r)>>) = Append(s, r)
<1> DEFINE lines == <<InsertLine(r)>>
           u == <<r>>
<1>1. /\ lines \in Seq(Line) /\ Len(lines) = 1 /\ lines[1] = InsertLine(r)
      /\ u \in Seq(Row) /\ Len(u) = 1 /\ u[1] = r
    BY LineTypes
<1>2. InsertLine(r).row = r /\ InsertLine(r) # BeginLine
    BY DEF InsertLine, BeginLine
<1>3. Append(s, r) = s \o u
    OBVIOUS
<1> HIDE DEF lines, u
<1>4. LastBegin(lines, 0) /\ 0 \in 0 .. Len(lines)
    BY <1>1, <1>2 DEF LastBegin
<1>5. Len(lines) = 0 + Len(u)
    BY <1>1
<1>6. \A i \in 1 .. Len(u) : lines[0 + i].row = u[i]
    BY <1>1, <1>2
<1>7. Redone(s, lines) = IF 0 = 0 THEN s \o u ELSE u
    BY <1>1, <1>4, <1>5, <1>6, RedoneAfter
<1> QED
    BY <1>3, <1>7 DEF lines

\* After a DELETE or UPDATE it is on top of the rows that one leaves.
LEMMA RedoneReplaceInsert ==
    ASSUME NEW base \in Seq(Row), NEW s \in Seq(Row), NEW r \in Row
    PROVE  Redone(base, Append(ReplaceLines(s), InsertLine(r))) = Append(s, r)
<1> DEFINE b == ReplaceLines(s)
           lines == Append(b, InsertLine(r))
           u == Append(s, r)
<1>1. /\ b \in Seq(Line) /\ Len(b) = 1 + Len(s) /\ b[1] = BeginLine /\ Len(s) \in Nat
      /\ \A i \in 2 .. Len(b) : b[i] # BeginLine
      /\ \A i \in 1 .. Len(s) : b[1 + i] = RowLine(s[i])
    BY ReplaceLinesAre, ReplaceLinesRows
<1>2. /\ u \in Seq(Row) /\ Len(u) = Len(s) + 1 /\ u[Len(s) + 1] = r
      /\ \A i \in 1 .. Len(s) : u[i] = s[i]
    BY AppendProperties
<1>3. InsertLine(r).row = r /\ InsertLine(r) # BeginLine /\ InsertLine(r) \in Line
    BY LineTypes DEF InsertLine, BeginLine
<1> HIDE DEF b, u
<1>4. /\ lines \in Seq(Line) /\ Len(lines) = Len(b) + 1 /\ lines[Len(b) + 1] = InsertLine(r)
      /\ \A i \in 1 .. Len(b) : lines[i] = b[i]
    BY <1>1, <1>3, AppendProperties
<1> HIDE DEF lines
<1>5. LastBegin(lines, 1) /\ 1 \in 0 .. Len(lines)
    <2>1. lines[1] = BeginLine
        BY <1>1, <1>4
    <2>2. ASSUME NEW i \in 1 + 1 .. Len(lines)
          PROVE  lines[i] # BeginLine
        <3>1. i \in 2 .. Len(b) \/ i = Len(b) + 1
            BY <1>1, <1>4
        <3>2. i \in 2 .. Len(b) => i \in 1 .. Len(b)
            OBVIOUS
        <3> QED
            BY <1>1, <1>3, <1>4, <3>1, <3>2
    <2> QED
        BY <1>1, <1>4, <2>1, <2>2 DEF LastBegin
<1>6. Len(lines) = 1 + Len(u)
    BY <1>1, <1>2, <1>4
<1>7. ASSUME NEW i \in 1 .. Len(u)
      PROVE  lines[1 + i].row = u[i]
    <2>1. CASE i = Len(s) + 1
        <3>1. 1 + i = Len(b) + 1
            BY <1>1, <2>1
        <3> QED
            BY <1>2, <1>3, <1>4, <2>1, <3>1
    <2>2. CASE i # Len(s) + 1
        <3>1. i \in 1 .. Len(s) /\ 1 + i \in 1 .. Len(b)
            BY <1>1, <1>2, <2>2
        <3>2. lines[1 + i] = RowLine(s[i])
            BY <1>1, <1>4, <3>1
        <3> QED
            BY <1>2, <3>1, <3>2 DEF RowLine
    <2> QED
        BY <2>1, <2>2
<1>8. Redone(base, lines) = IF 1 = 0 THEN base \o u ELSE u
    BY <1>2, <1>4, <1>5, <1>6, <1>7, RedoneAfter
<1> QED
    BY <1>8 DEF lines, u, b

\* A DELETE or UPDATE leaves its rows, whatever came before.
LEMMA RedoneReplaceLast ==
    ASSUME NEW base \in Seq(Row), NEW before \in Seq(Line), NEW s \in Seq(Row)
    PROVE  Redone(base, before \o ReplaceLines(s)) = s
<1> DEFINE b == ReplaceLines(s)
           lines == before \o b
           k == Len(before) + 1
<1>1. /\ b \in Seq(Line) /\ Len(b) = 1 + Len(s) /\ b[1] = BeginLine /\ Len(s) \in Nat
      /\ \A i \in 2 .. Len(b) : b[i] # BeginLine
      /\ \A i \in 1 .. Len(s) : b[1 + i] = RowLine(s[i])
    BY ReplaceLinesAre, ReplaceLinesRows
<1> HIDE DEF b
<1>2. /\ lines \in Seq(Line) /\ Len(lines) = Len(before) + Len(b) /\ Len(before) \in Nat
      /\ \A i \in 1 .. Len(b) : lines[Len(before) + i] = b[i]
    <2>1. Len(before) \in Nat /\ b \in Seq(Line)
        BY <1>1
    <2> QED
        BY <2>1, LinesConcat
<1> HIDE DEF lines
<1>3. k \in 0 .. Len(lines) /\ k # 0 /\ Len(lines) = k + Len(s)
    BY <1>1, <1>2
<1>4. LastBegin(lines, k)
    <2>1. lines[k] = BeginLine
        <3>1. 1 \in 1 .. Len(b)
            BY <1>1
        <3> QED
            BY <1>1, <1>2, <3>1
    <2>2. ASSUME NEW i \in k + 1 .. Len(lines)
          PROVE  lines[i] # BeginLine
        <3>1. /\ i - Len(before) \in 2 .. Len(b) /\ i - Len(before) \in 1 .. Len(b)
              /\ Len(before) + (i - Len(before)) = i
            BY <1>1, <1>2
        <3>2. lines[i] = b[i - Len(before)]
            BY <1>2, <3>1
        <3> QED
            BY <1>1, <3>1, <3>2
    <2> QED
        BY <2>1, <2>2 DEF LastBegin
<1>5. ASSUME NEW i \in 1 .. Len(s)
      PROVE  lines[k + i].row = s[i]
    <2>1. 1 + i \in 1 .. Len(b) /\ Len(before) + (1 + i) = k + i
        BY <1>1, <1>2
    <2>2. lines[k + i] = RowLine(s[i])
        BY <1>1, <1>2, <2>1
    <2> QED
        BY <2>2 DEF RowLine
<1> HIDE DEF k
<1>6. Redone(base, lines) = IF k = 0 THEN base \o s ELSE s
    BY <1>2, <1>3, <1>4, <1>5, RedoneAfter
<1> QED
    BY <1>3, <1>6 DEF lines, b

--------------------------------------------------------------------------------
(* The entries of a log that a crash leaves *)

\* What the log may hold of what came before a statement: nothing, or a DELETE or
\* UPDATE that recovery has replayed and could not commit.
Before(lines) == lines = <<>> \/ \E s \in Seq(Row) : lines = ReplaceLines(s)

\* One entry, or none.
Entry(lines) == Before(lines) \/ \E r \in Row : lines = <<InsertLine(r)>>

\* What a crash may leave uncommitted: the entry of the statement it interrupted,
\* after what came before.
Crashed(lines) ==
    \/ Entry(lines)
    \/ \E s \in Seq(Row), last \in Seq(Line) : Entry(last) /\ lines = ReplaceLines(s) \o last

\* They are lines.
LEMMA EntryType ==
    /\ \A lines : Before(lines) => Entry(lines)
    /\ \A lines : Entry(lines) => lines \in Seq(Line) /\ Crashed(lines)
    /\ \A lines : Crashed(lines) => lines \in Seq(Line)
<1>1. <<>> \in Seq(Line)
    OBVIOUS
<1>2. \A s \in Seq(Row) : ReplaceLines(s) \in Seq(Line)
    BY ReplaceLinesAre
<1>3. \A r \in Row : <<InsertLine(r)>> \in Seq(Line)
    BY LineTypes
<1>4. \A lines : Before(lines) => Entry(lines)
    BY DEF Entry
<1>5. \A lines : Entry(lines) => lines \in Seq(Line) /\ Crashed(lines)
    BY <1>1, <1>2, <1>3 DEF Entry, Before, Crashed
<1>6. \A lines : Crashed(lines) => lines \in Seq(Line)
    <2>1. \A s \in Seq(Row), last \in Seq(Line) : ReplaceLines(s) \o last \in Seq(Line)
        BY <1>2, LinesConcat
    <2> QED
        BY <1>5, <2>1 DEF Crashed
<1> QED
    BY <1>4, <1>5, <1>6

\* How each of them begins.
LEMMA HeadOfLines ==
    /\ \A r \in Row : /\ Head(<<InsertLine(r)>>).type = "INSERT"
                      /\ Head(<<InsertLine(r)>>) # BeginLine
                      /\ Head(<<InsertLine(r)>>).row = r
                      /\ Tail(<<InsertLine(r)>>) = <<>>
    /\ \A s \in Seq(Row), lines \in Seq(Line) :
            /\ Head(ReplaceLines(s) \o lines) = BeginLine
            /\ Head(ReplaceLines(s)) = BeginLine
    /\ BeginLine.type # "INSERT"
<1>1. \A r \in Row : Head(<<InsertLine(r)>>) = InsertLine(r) /\ Tail(<<InsertLine(r)>>) = <<>>
    BY LineTypes
<1>2. ASSUME NEW s \in Seq(Row), NEW lines \in Seq(Line)
      PROVE  Head(ReplaceLines(s) \o lines) = BeginLine /\ Head(ReplaceLines(s)) = BeginLine
    <2> DEFINE b == ReplaceLines(s)
               c == b \o lines
    <2>1. /\ b \in Seq(Line) /\ Len(b) = 1 + Len(s) /\ b[1] = BeginLine /\ Len(s) \in Nat
          /\ Len(lines) \in Nat
        BY ReplaceLinesAre
    <2> HIDE DEF b
    <2>2. /\ c \in Seq(Line) /\ Len(c) = Len(b) + Len(lines)
          /\ \A i \in 1 .. Len(b) : c[i] = b[i]
        BY <2>1, LinesConcat
    <2> HIDE DEF c
    <2>3. 1 \in 1 .. Len(b) /\ Len(c) # 0 /\ Len(b) # 0
        BY <2>1, <2>2
    <2>4. c # <<>> /\ b # <<>>
        BY <2>3
    <2>5. Head(c) = c[1] /\ Head(b) = b[1]
        BY <2>1, <2>2, <2>4
    <2> QED
        BY <2>1, <2>2, <2>3, <2>5 DEF c, b
<1>3. \A r : /\ InsertLine(r).type = "INSERT" /\ InsertLine(r).row = r
              /\ InsertLine(r) # BeginLine /\ BeginLine.type # "INSERT"
    BY DEF InsertLine, BeginLine
<1>4. \A r \in Row : /\ Head(<<InsertLine(r)>>).type = "INSERT"
                     /\ Head(<<InsertLine(r)>>) # BeginLine
                     /\ Head(<<InsertLine(r)>>).row = r
                     /\ Tail(<<InsertLine(r)>>) = <<>>
    BY <1>1, <1>3
<1> QED
    BY <1>2, <1>3, <1>4

\* An INSERT at the head of what a crash left is all there is.
LEMMA CrashedInsert ==
    ASSUME NEW lines, Crashed(lines), lines # <<>>, Head(lines).type = "INSERT"
    PROVE  Head(lines).row \in Row /\ lines = <<InsertLine(Head(lines).row)>> /\ Tail(lines) = <<>>
<1>1. PICK r \in Row : lines = <<InsertLine(r)>>
    <2>1. \A s \in Seq(Row) : lines # ReplaceLines(s)
        BY HeadOfLines, <<>> \in Seq(Line)
    <2>2. \A s \in Seq(Row), last \in Seq(Line) : lines # ReplaceLines(s) \o last
        BY HeadOfLines
    <2> QED
        BY <2>1, <2>2 DEF Crashed, Entry, Before
<1> QED
    BY <1>1, HeadOfLines

\* A REPLACE_BEGIN is followed by its rows, and at most one entry more.
LEMMA CrashedReplace ==
    ASSUME NEW lines, Crashed(lines), lines # <<>>, Head(lines) = BeginLine
    PROVE  \E s \in Seq(Row), last \in Seq(Line) :
                /\ Entry(last) /\ lines = ReplaceLines(s) \o last
                /\ Entry(lines) => last = <<>>
<1>1. CASE Entry(lines)
    <2>1. PICK s \in Seq(Row) : lines = ReplaceLines(s)
        BY <1>1, HeadOfLines DEF Entry, Before
    <2>2. Entry(<<>>) /\ <<>> \in Seq(Line)
        BY DEF Entry, Before
    <2>3. ReplaceLines(s) \o <<>> = ReplaceLines(s)
        BY <2>2, ReplaceLinesAre, LinesConcat
    <2> QED
        BY <2>1, <2>2, <2>3
<1>2. CASE ~ Entry(lines)
    BY <1>2 DEF Crashed
<1> QED
    BY <1>1, <1>2

\* A DELETE or UPDATE at the beginning of lines has n of them, and these rows.
EndsAfter(lines, n) ==
    /\ \A i \in 2 .. n : lines[i].type = "REPLACE_ROW"
    /\ n < Len(lines) => lines[n + 1].type # "REPLACE_ROW"

RowsLogged(lines, n) == [i \in 1 .. n - 1 |-> lines[i + 1].row]

\* Its entry ends where the next begins: recover() finds its rows, and what is left.
LEMMA SplitReplace ==
    ASSUME NEW s \in Seq(Row), NEW last \in Seq(Line), Entry(last),
           NEW lines, lines = ReplaceLines(s) \o last, NEW n \in 1 .. Len(lines),
           EndsAfter(lines, n)
    PROVE  /\ RowsLogged(lines, n) = s
           /\ SubSeq(lines, n + 1, Len(lines)) = last
<1>0. /\ \A i \in 2 .. n : lines[i].type = "REPLACE_ROW"
      /\ n < Len(lines) => lines[n + 1].type # "REPLACE_ROW"
    BY DEF EndsAfter
<1> DEFINE b == ReplaceLines(s)
<1>1. /\ b \in Seq(Line) /\ Len(b) = 1 + Len(s) /\ Len(s) \in Nat /\ Len(last) \in Nat
      /\ \A i \in 2 .. Len(b) : /\ b[i].type = "REPLACE_ROW"
                                /\ i - 1 \in 1 .. Len(s) /\ b[i].row = s[i - 1]
    BY ReplaceLinesAre, ReplaceLinesRows
<1> HIDE DEF b
<1>2. /\ lines \in Seq(Line) /\ Len(lines) = Len(b) + Len(last)
      /\ \A i \in 1 .. Len(b) : lines[i] = b[i]
      /\ \A i \in 1 .. Len(last) : lines[Len(b) + i] = last[i]
    <2>1. lines = b \o last
        BY DEF b
    <2>2. b \in Seq(Line) /\ last \in Seq(Line)
        BY <1>1
    <2>3. /\ b \o last \in Seq(Line) /\ Len(b \o last) = Len(b) + Len(last)
          /\ \A i \in 1 .. Len(b) : (b \o last)[i] = b[i]
          /\ \A i \in 1 .. Len(last) : (b \o last)[Len(b) + i] = last[i]
        BY <2>2, LinesConcat
    <2> QED
        BY <2>1, <2>3
<1>3. n \in Nat /\ n >= 1 /\ n <= Len(lines)
    BY <1>1, <1>2
<1>4. ~ n < Len(b)
    <2> SUFFICES ASSUME n < Len(b)
                 PROVE  FALSE
        OBVIOUS
    <2>1. n + 1 \in 2 .. Len(b) /\ n + 1 \in 1 .. Len(b) /\ n < Len(lines)
        BY <1>1, <1>2, <1>3
    <2>2. lines[n + 1].type = "REPLACE_ROW"
        BY <1>1, <1>2, <2>1
    <2> QED
        BY <1>0, <2>1, <2>2
<1>5. ~ Len(b) < n
    <2> SUFFICES ASSUME Len(b) < n
                 PROVE  FALSE
        OBVIOUS
    <2>1. Len(b) + 1 \in 2 .. n /\ 1 \in 1 .. Len(last) /\ Len(last) # 0
        BY <1>1, <1>2, <1>3
    <2>2. last[1].type = "REPLACE_ROW"
        BY <1>0, <1>2, <2>1
    <2>3. last # <<>>
        BY <2>1
    <2>4. \A t \in Seq(Row) : ReplaceLines(t)[1] = BeginLine
        BY ReplaceLinesAre
    <2>5. \A r \in Row : <<InsertLine(r)>>[1].type = "INSERT"
        BY DEF InsertLine
    <2> QED
        BY <2>2, <2>3, <2>4, <2>5 DEF Entry, Before, BeginLine
<1>6. n = Len(b) /\ n - 1 = Len(s)
    BY <1>1, <1>3, <1>4, <1>5
<1> DEFINE t == [i \in 1 .. n - 1 |-> lines[i + 1].row]
           rest == SubSeq(lines, n + 1, Len(lines))
<1>7. \A i \in 1 .. Len(s) : lines[i + 1].row = s[i]
    <2> TAKE i \in 1 .. Len(s)
    <2>1. i + 1 \in 2 .. Len(b) /\ i + 1 \in 1 .. Len(b) /\ i + 1 - 1 = i
        BY <1>1
    <2>2. lines[i + 1] = b[i + 1]
        BY <1>2, <2>1
    <2>3. b[i + 1].row = s[i + 1 - 1]
        BY <1>1, <2>1
    <2> QED
        BY <2>1, <2>2, <2>3
<1>8. t = s
    <2>1. t = [i \in 1 .. Len(s) |-> s[i]]
        BY <1>6, <1>7
    <2> HIDE DEF t
    <2>2. t \in [1 .. Len(s) -> Row] /\ \A i \in 1 .. Len(s) : t[i] = s[i]
        BY <1>1, <2>1
    <2>3. t \in Seq(Row) /\ Len(t) = Len(s)
        BY <1>1, <2>2, FunctionIsSeq
    <2> QED
        BY <2>2, <2>3, SeqEqual
<1>9. rest = last
    <2>1. Len(lines) \in Nat /\ n + 1 \in Nat
        BY <1>1, <1>2, <1>3
    <2>2. rest \in Seq(Line) /\ Len(rest) = Len(lines) - n
        <3>1. \A i \in n + 1 .. Len(lines) : lines[i] \in Line
            BY <1>2, <2>1, <1>3, ElementOfSeq
        <3>2. /\ rest \in Seq(Line)
              /\ Len(rest) = IF n + 1 <= Len(lines) THEN Len(lines) - (n + 1) + 1 ELSE 0
            BY <1>2, <2>1, <3>1, SubSeqProperties
        <3> HIDE DEF rest
        <3>3. Len(lines) - (n + 1) + 1 = Len(lines) - n /\ (~ n + 1 <= Len(lines) => Len(lines) - n = 0)
            BY <1>3, <2>1
        <3> QED
            BY <3>2, <3>3
    <2>3. Len(rest) = Len(last)
        BY <1>1, <1>2, <1>6, <2>2
    <2>4. ASSUME NEW i \in 1 .. Len(last)
          PROVE  rest[i] = last[i]
        <3>1. rest[i] = lines[n + i]
            <4>1. \A j \in 1 .. Len(lines) - n : SubSeq(lines, n + 1, Len(lines))[j] = lines[n + j]
                BY <1>2, <1>3, <2>1
            <4>2. i \in 1 .. Len(lines) - n
                BY <1>1, <1>2, <1>6
            <4> QED
                BY <4>1, <4>2
        <3> QED
            BY <1>2, <1>6, <3>1
    <2> HIDE DEF rest
    <2> QED
        BY <2>2, <2>3, <2>4, SeqEqual
<1> QED
    BY <1>8, <1>9 DEF RowsLogged

\* A DELETE or UPDATE leaves its rows to the entry after it.
LEMMA RedoneEntry ==
    ASSUME NEW base \in Seq(Row), NEW s \in Seq(Row), NEW last \in Seq(Line), Entry(last)
    PROVE  Redone(base, ReplaceLines(s) \o last) = Redone(s, last)
<1>1. ReplaceLines(s) \in Seq(Line)
    BY ReplaceLinesAre
<1>2. CASE last = <<>>
    BY <1>1, <1>2, LinesConcat, RedoneNothing, RedoneReplace
<1>3. CASE \E r \in Row : last = <<InsertLine(r)>>
    <2>1. PICK r \in Row : last = <<InsertLine(r)>>
        BY <1>3
    <2>2. ReplaceLines(s) \o last = Append(ReplaceLines(s), InsertLine(r))
        BY <1>1, <2>1, LineTypes
    <2> QED
        BY <2>1, <2>2, RedoneInsert, RedoneReplaceInsert
<1>4. CASE \E t \in Seq(Row) : last = ReplaceLines(t)
    <2>1. PICK t \in Seq(Row) : last = ReplaceLines(t)
        BY <1>4
    <2> QED
        BY <1>1, <2>1, RedoneReplaceLast, RedoneReplace
<1> QED
    BY <1>2, <1>3, <1>4 DEF Entry, Before

\* A crash while a statement is on its way to its commit.
LEMMA CrashedReplacing ==
    ASSUME NEW before \in Seq(Line), Before(before), NEW s \in Seq(Row)
    PROVE  Crashed(before \o ReplaceLines(s))
<1>1. ReplaceLines(s) \in Seq(Line) /\ Entry(ReplaceLines(s))
    BY ReplaceLinesAre DEF Entry, Before
<1>2. <<>> \o ReplaceLines(s) = ReplaceLines(s)
    BY <1>1, LinesConcat
<1>3. CASE before = <<>>
    BY <1>1, <1>2, <1>3, EntryType
<1>4. CASE before # <<>>
    BY <1>1, <1>4 DEF Before, Crashed
<1> QED
    BY <1>3, <1>4

LEMMA CrashedInserting ==
    ASSUME NEW s \in Seq(Row), NEW r \in Row
    PROVE  Crashed(Append(ReplaceLines(s), InsertLine(r)))
<1> DEFINE last == <<InsertLine(r)>>
           b == ReplaceLines(s)
<1>1. b \in Seq(Line) /\ InsertLine(r) \in Line
    BY ReplaceLinesAre, LineTypes
<1>2. last \in Seq(Line) /\ Entry(last)
    BY <1>1 DEF Entry
<1>3. Append(b, InsertLine(r)) = b \o last
    <2> HIDE DEF b
    <2> QED
        BY <1>1
<1> QED
    BY <1>2, <1>3 DEF Crashed

--------------------------------------------------------------------------------
(* What the engine is doing, and what the abstract table holds then *)

\* Every row is stored, has a key and reads back from the log as it was.
AllReadBack == \A r \in Row : Stored(r) /\ r \notin Unindexable /\ Replay[r] = r

NoJob == job = "insert" /\ image = <<>> /\ done = 0

\* How far recovery or a client's DELETE or UPDATE is with the rows of its image.
WritingImage ==
    \/ pc = "clear" /\ done = 0
    \/ pc = "store" /\ rows = SubSeq(image, 1, done)
    \/ pc \in {"commit", "recommit"} /\ rows = image

IsDown ==
    /\ pc = "down" /\ stmt = NoStatement /\ NoJob /\ replay = <<>> /\ ~ inRecovery
    /\ Crashed(UncommittedLines)

IsServing ==
    /\ (pc = "idle" /\ stmt = NoStatement) \/ (pc = "begin" /\ stmt # NoStatement)
    /\ NoJob /\ replay = <<>> /\ ~ inRecovery
    /\ UncommittedLines = <<>> \/ (walGood /\ UncommittedLines = ReplaceLines(rows))

\* A client's statement.
IsServed == stmt # NoStatement /\ replay = <<>> /\ ~ inRecovery /\ (~ walGood => UncommittedLines = <<>>)

IsLogging ==
    /\ IsServed /\ pc = "log" /\ job = "replace"
    /\ walGood => \E before \in Seq(Line) :
                    /\ before = <<>> \/ before = ReplaceLines(rows)
                    /\ UncommittedLines = before \o ReplaceLines(SubSeq(image, 1, done))
    /\ ToBag(image) = Abstract!Effect(stmt, ToBag(rows))

IsReplacing ==
    /\ IsServed /\ pc \in {"clear", "store", "commit"} /\ job = "replace"
    /\ WritingImage
    /\ walGood => \E before \in Seq(Line) :
                    Before(before) /\ UncommittedLines = before \o ReplaceLines(image)

\* An UPDATE that matched nothing.
IsUnchanged ==
    /\ IsServed /\ pc = "commit" /\ job = "replace"
    /\ UncommittedLines = <<>> \/ UncommittedLines = ReplaceLines(rows)

IsInserting ==
    /\ IsServed /\ job = "insert" /\ stmt.kind = "insert" /\ image = <<stmt.row>>
    /\ pc = "store" \/ (pc = "commit" /\ done = 1)
    /\ walGood => Uncommitted
    /\ walGood /\ done = 0 =>
        \E before \in Seq(Line) :
            /\ before = <<>> \/ before = ReplaceLines(rows)
            /\ UncommittedLines = Append(before, InsertLine(stmt.row))

\* recover() between two entries.
IsRecovering ==
    /\ pc = "recover" /\ stmt = NoStatement /\ NoJob /\ ~ inRecovery
    /\ \/ ~ walGood /\ UncommittedLines = replay /\ Crashed(replay)
       \/ walGood /\ UncommittedLines = <<>> /\ replay = <<>>
       \/ walGood /\ UncommittedLines = ReplaceLines(rows) \o replay /\ Entry(replay)

IsRedoingReplace ==
    /\ pc \in {"clear", "store", "recommit"} /\ stmt = NoStatement /\ job = "replace" /\ inRecovery
    /\ WritingImage
    /\ \/ ~ walGood /\ UncommittedLines = ReplaceLines(image) \o replay /\ Entry(replay)
       \/ /\ walGood /\ replay = <<>>
          /\ \E before \in Seq(Line) :
                Before(before) /\ UncommittedLines = before \o ReplaceLines(image)

IsRedoingInsert ==
    /\ stmt = NoStatement /\ job = "insert" /\ ~ inRecovery /\ replay = <<>>
    /\ \/ /\ pc = "store" /\ Len(image) = 1 /\ Uncommitted
          /\ ~ walGood /\ done = 0 => UncommittedLines = <<InsertLine(image[1])>>
       \/ pc = "commit" /\ done = 1 /\ Uncommitted
       \/ pc = "recommit" /\ walGood

AtomicInv ==
    \/ IsDown \/ IsServing \/ IsLogging \/ IsReplacing \/ IsUnchanged \/ IsInserting
    \/ IsRecovering \/ IsRedoingReplace \/ IsRedoingInsert

\* What refinement maps each of them to.
ContentInPhase ==
    /\ IsDown => Content = ToBag(Redone(rows, UncommittedLines)) /\ ~ Applied
    /\ IsServing \/ IsLogging => Content = ToBag(rows) /\ ~ Applied
    /\ IsReplacing => Content = ToBag(image) /\ Applied
    /\ IsUnchanged => Content = ToBag(rows) /\ Applied
    /\ IsInserting /\ done = 1 => Content = ToBag(rows) /\ Applied
    /\ IsInserting /\ done = 0 =>
            IF walGood THEN Content = ToBag(Append(rows, stmt.row)) /\ Applied
                       ELSE Content = ToBag(rows) /\ ~ Applied
    /\ IsRecovering => Content = ToBag(Redone(rows, replay)) /\ ~ Applied
    /\ IsRedoingReplace => Content = ToBag(Redone(image, replay)) /\ ~ Applied
    /\ IsRedoingInsert /\ pc = "store" /\ done = 0 =>
            Content = ToBag(Append(rows, image[1])) /\ ~ Applied
    /\ IsRedoingInsert /\ ~ (pc = "store" /\ done = 0) => Content = ToBag(rows) /\ ~ Applied

\* The rows written so far and those still to be written are all there are.
LEMMA RowsToCome ==
    ASSUME NEW s \in Seq(Row), NEW n \in 0 .. Len(s)
    PROVE  SubSeq(s, 1, n) \o SubSeq(s, n + 1, Len(s)) = s
<1> DEFINE p == SubSeq(s, 1, n)
           q == SubSeq(s, n + 1, Len(s))
<1>1. Len(s) \in Nat /\ n \in Nat /\ n <= Len(s)
    OBVIOUS
<1>2. p \in Seq(Row) /\ Len(p) = n /\ \A i \in 1 .. n : p[i] = s[i]
    BY <1>1
<1>3. q \in Seq(Row) /\ Len(q) = Len(s) - n /\ \A i \in 1 .. Len(s) - n : q[i] = s[n + i]
    BY <1>1
<1> HIDE DEF p, q
<1>4. /\ p \o q \in Seq(Row) /\ Len(p \o q) = Len(s)
      /\ \A i \in 1 .. Len(s) : (p \o q)[i] = IF i <= n THEN p[i] ELSE q[i - n]
    <2>1. /\ p \o q \in Seq(Row) /\ Len(p \o q) = Len(p) + Len(q)
          /\ \A i \in 1 .. Len(p) + Len(q) :
                (p \o q)[i] = IF i <= Len(p) THEN p[i] ELSE q[i - Len(p)]
        BY <1>2, <1>3, ConcatProperties
    <2>2. n + (Len(s) - n) = Len(s)
        BY <1>1
    <2> QED
        BY <1>2, <1>3, <2>1, <2>2
<1>5. ASSUME NEW i \in 1 .. Len(s)
      PROVE  (p \o q)[i] = s[i]
    <2>1. CASE i <= n
        <3>1. i \in 1 .. n
            BY <1>1, <2>1
        <3> QED
            BY <1>2, <1>4, <2>1, <3>1
    <2>2. CASE ~ i <= n
        <3>1. i - n \in 1 .. Len(s) - n /\ n + (i - n) = i
            BY <1>1, <2>2
        <3> QED
            BY <1>3, <1>4, <2>2, <3>1
    <2> QED
        BY <2>1, <2>2
<1>6. p \o q = s
    BY <1>4, <1>5, SeqEqual
<1> QED
    BY <1>6 DEF p, q

\* One row added.
LEMMA OneRow ==
    ASSUME NEW s \in Seq(Row), Len(s) = 1, NEW t \in Seq(Row)
    PROVE  t \o SubSeq(s, 1, 1) = Append(t, s[1])
<1>1. SubSeq(s, 1, 1) = s
    OBVIOUS
<1>2. s = <<s[1]>>
    OBVIOUS
<1>3. \A r : t \o <<r>> = Append(t, r)
    OBVIOUS
<1> QED
    BY <1>1, <1>2, <1>3

\* The rows a DELETE or UPDATE will leave, wherever it is.
LEMMA WritingLeaves ==
    ASSUME TypeOK, WritingImage, job = "replace"
    PROVE  JobRows = image
<1>1. image \in Seq(Row) /\ done \in 0 .. Len(image)
    BY DEF TypeOK
<1> QED
    BY <1>1, RowsToCome DEF JobRows, WritingImage

LEMMA PhaseContent == AllReadBack /\ TypeOK => ContentInPhase
<1> SUFFICES ASSUME AllReadBack, TypeOK
             PROVE  ContentInPhase
    OBVIOUS
<1>1. /\ rows \in Seq(Row) /\ image \in Seq(Row) /\ done \in 0 .. Len(image)
      /\ Redone(rows, <<>>) = rows /\ Redone(image, <<>>) = image
    BY RedoneNothing DEF TypeOK
<1>2. ASSUME IsDown
      PROVE  Content = ToBag(Redone(rows, UncommittedLines)) /\ ~ Applied
    BY <1>2 DEF IsDown, Content, JobRows, Applied
<1>3. ASSUME IsServing \/ IsLogging
      PROVE  Content = ToBag(rows) /\ ~ Applied
    BY <1>1, <1>3 DEF IsServing, IsLogging, IsServed, Content, JobRows, Applied
<1>4. ASSUME IsReplacing
      PROVE  Content = ToBag(image) /\ Applied
    BY <1>1, <1>4, WritingLeaves DEF IsReplacing, IsServed, Content, Applied
<1>5. ASSUME IsUnchanged
      PROVE  Content = ToBag(rows) /\ Applied
    BY <1>1, <1>5 DEF IsUnchanged, IsServed, Content, JobRows, Applied
<1>6. ASSUME IsInserting
      PROVE  /\ done = 1 => Content = ToBag(rows) /\ Applied
             /\ done = 0 => IF walGood THEN Content = ToBag(Append(rows, stmt.row)) /\ Applied
                                       ELSE Content = ToBag(rows) /\ ~ Applied
    <2>1. stmt.row \in Row /\ Len(image) = 1 /\ image[1] = stmt.row /\ stmt # NoStatement
        BY <1>1, <1>6, StatementTypes DEF IsInserting, IsServed, TypeOK
    <2>2. Stored(image[1]) /\ rows \o SubSeq(image, 1, 1) = Append(rows, stmt.row)
        <3>1. rows \o SubSeq(image, 1, 1) = Append(rows, image[1])
            BY <1>1, <2>1, OneRow
        <3> QED
            BY <2>1, <3>1 DEF AllReadBack
    <2>3. pc \in {"store", "commit"} /\ job = "insert" /\ replay = <<>> /\ ~ inRecovery
        BY <1>6 DEF IsInserting, IsServed
    <2>4. ASSUME done = 1
          PROVE  Content = ToBag(rows) /\ Applied
        BY <1>1, <2>1, <2>3, <2>4 DEF Content, JobRows, InsertLogged, Applied
    <2>5. ASSUME done = 0
          PROVE  IF walGood THEN Content = ToBag(Append(rows, stmt.row)) /\ Applied
                            ELSE Content = ToBag(rows) /\ ~ Applied
        <3>1. pc = "store" /\ (InsertLogged <=> walGood) /\ done # Len(image)
            BY <1>6, <2>1, <2>2, <2>3, <2>5 DEF IsInserting, InsertLogged
        <3>2. JobRows = IF walGood THEN Append(rows, stmt.row) ELSE rows
            <4>1. SubSeq(image, done + 1, Len(image)) = SubSeq(image, 1, 1)
                BY <2>1, <2>5
            <4>2. job # "replace" /\ pc # "clear"
                BY <2>3, <3>1
            <4> QED
                BY <2>2, <3>1, <4>1, <4>2 DEF JobRows
        <3>3. Append(rows, stmt.row) \in Seq(Row)
            BY <1>1, <2>1
        <3>4. Content = ToBag(Redone(JobRows, <<>>))
            BY <2>3 DEF Content
        <3>5. Content = ToBag(JobRows)
            BY <1>1, <3>2, <3>3, <3>4, RedoneNothing
        <3>6. Applied <=> walGood
            BY <2>1, <2>3, <3>1 DEF Applied
        <3> QED
            BY <3>2, <3>5, <3>6
    <2> QED
        BY <2>4, <2>5
<1>7. ASSUME IsRecovering
      PROVE  Content = ToBag(Redone(rows, replay)) /\ ~ Applied
    BY <1>7 DEF IsRecovering, Content, JobRows, Applied
<1>8. ASSUME IsRedoingReplace
      PROVE  Content = ToBag(Redone(image, replay)) /\ ~ Applied
    BY <1>8, WritingLeaves DEF IsRedoingReplace, Content, Applied
<1>9. ASSUME IsRedoingInsert
      PROVE  /\ Content = ToBag(IF pc = "store" /\ done = 0 THEN Append(rows, image[1]) ELSE rows)
             /\ ~ Applied
    <2>1. /\ stmt = NoStatement /\ job = "insert" /\ replay = <<>>
          /\ pc \in {"store", "commit", "recommit"}
          /\ pc = "store" => Len(image) = 1
        BY <1>9 DEF IsRedoingInsert
    <2>2. ASSUME pc = "store", done = 0
          PROVE  JobRows = Append(rows, image[1]) /\ JobRows \in Seq(Row)
        <3>1. Len(image) = 1 /\ image[1] \in Row /\ Stored(image[1])
            BY <1>1, <2>1, <2>2 DEF AllReadBack
        <3>2. rows \o SubSeq(image, 1, 1) = Append(rows, image[1])
            BY <1>1, <3>1, OneRow
        <3>3. SubSeq(image, done + 1, Len(image)) = SubSeq(image, 1, 1) /\ done < Len(image)
            BY <2>2, <3>1
        <3>4. InsertLogged
            BY <2>1, <3>1, <3>3 DEF InsertLogged
        <3>5. JobRows = Append(rows, image[1])
            BY <2>2, <3>2, <3>3, <3>4 DEF JobRows
        <3> QED
            BY <1>1, <3>1, <3>5
    <2>3. ASSUME ~ (pc = "store" /\ done = 0)
          PROVE  JobRows = rows
        <3>1. pc = "store" => ~ done < Len(image)
            <4>1. Len(image) = 1 /\ done \in 0 .. Len(image) /\ done # 0 => ~ done < Len(image)
                OBVIOUS
            <4> QED
                BY <1>1, <2>1, <2>3, <4>1
        <3> QED
            BY <2>1, <3>1 DEF JobRows, InsertLogged
    <2>4. Content = ToBag(Redone(JobRows, <<>>))
        BY <2>1 DEF Content
    <2>5. Content = ToBag(JobRows)
        BY <1>1, <2>2, <2>3, <2>4, RedoneNothing
    <2> QED
        BY <2>1, <2>2, <2>3, <2>5 DEF Applied
<1> QED
    BY <1>2, <1>3, <1>4, <1>5, <1>6, <1>7, <1>8, <1>9 DEF ContentInPhase

\* And after a step.
LEMMA PhaseContentAfter ==
    ASSUME AllReadBack, TypeOK'
    PROVE  ContentInPhase'
<1>1. (AllReadBack /\ TypeOK => ContentInPhase)'
    BY PhaseContent, PTL
<1> QED
    BY <1>1

--------------------------------------------------------------------------------
(* The steps of the abstract table *)

AbstractStep == [Abstract!Next]_(Abstract!vars)

\* One that changes nothing it knows of.
LEMMA Stutters ==
    ASSUME Content' = Content, stmt' = stmt, Applied' <=> Applied
    PROVE  AbstractStep
<1>1. Applied' = Applied
    BY DEF Applied
<1> QED
    BY <1>1 DEF AbstractStep, Abstract!vars

\* The one at which a statement takes effect.
LEMMA Applies ==
    ASSUME stmt # NoStatement, stmt' = stmt, ~ Applied, Applied',
           Content' = Abstract!Effect(stmt, Content)
    PROVE  AbstractStep
<1>1. Applied' = TRUE
    BY DEF Applied
<1> QED
    BY <1>1 DEF AbstractStep, Abstract!Next, Abstract!Apply

\* Where the engine is says what it is doing.
LEMMA Phases ==
    ASSUME AtomicInv
    PROVE  /\ pc # "failed"
           /\ pc = "down" => IsDown
           /\ pc \in {"idle", "begin"} => IsServing
           /\ pc = "log" => IsLogging
           /\ pc = "recover" => IsRecovering
           /\ pc = "clear" => IsReplacing \/ IsRedoingReplace
           /\ pc = "store" => IsReplacing \/ IsRedoingReplace \/ IsInserting \/ IsRedoingInsert
           /\ pc = "commit" => IsReplacing \/ IsUnchanged \/ IsInserting \/ IsRedoingInsert
           /\ pc = "recommit" => IsRedoingReplace \/ IsRedoingInsert
BY DEF AtomicInv, IsDown, IsServing, IsLogging, IsReplacing, IsUnchanged, IsInserting,
       IsRecovering, IsRedoingReplace, IsRedoingInsert, IsServed

\* What the statements make of the rows is what they make of their bag.
LEMMA Effects ==
    ASSUME TypeOK, stmt \in Statements
    PROVE  /\ stmt.kind = "insert" =>
                Abstract!Effect(stmt, ToBag(rows)) = ToBag(Append(rows, stmt.row))
           /\ stmt.kind = "delete" =>
                \A k \in Kept(rows, stmt.cond) : Abstract!Effect(stmt, ToBag(rows)) = ToBag(k)
           /\ stmt.kind = "update" =>
                Abstract!Effect(stmt, ToBag(rows)) = ToBag(Assigned(rows, stmt.cond, stmt.to))
<1>1. rows \in Seq(Row)
    BY DEF TypeOK
<1>2. CASE stmt.kind = "insert"
    <2>1. Abstract!Effect(stmt, ToBag(rows)) = Abstract!Add(ToBag(rows), stmt.row, 1)
        BY <1>2 DEF Abstract!Effect
    <2> QED
        BY <1>1, <1>2, <2>1, StatementTypes, InsertBag
<1>3. CASE stmt.kind = "delete"
    <2>1. Abstract!Effect(stmt, ToBag(rows)) = Abstract!Without(ToBag(rows), stmt.cond)
        BY <1>3 DEF Abstract!Effect
    <2> QED
        BY <1>1, <1>3, <2>1, DeleteBag
<1>4. CASE stmt.kind = "update"
    <2>1. Abstract!Effect(stmt, ToBag(rows)) = Abstract!MoveAll(ToBag(rows), stmt.cond, stmt.to)
        BY <1>4 DEF Abstract!Effect
    <2> QED
        BY <1>1, <1>4, <2>1, StatementTypes, UpdateBag
<1> QED
    BY <1>2, <1>3, <1>4

\* A statement arrives.
LEMMA SubmitAtomic ==
    ASSUME AllReadBack, TypeOK, TypeOK', AtomicInv, NEW s \in Statements, Submit(s)
    PROVE  AtomicInv' /\ AbstractStep
<1>1. /\ pc = "idle" /\ pc' = "begin" /\ stmt' = s /\ s # NoStatement
      /\ UNCHANGED <<rows, wal, walGood, inRecovery, job, image, done, replay>>
    BY WalAssumption DEF Submit, WalAssumption, dataVars, logVars, jobVars
<1>2. IsServing
    BY <1>1, Phases
<1>3. IsServing'
    <2>1. UncommittedLines' = UncommittedLines /\ ReplaceLines(rows)' = ReplaceLines(rows)
        BY <1>1, SameLog DEF ReplaceLines
    <2> QED
        BY <1>1, <1>2, <2>1 DEF IsServing, NoJob
<1>4. Content' = Content /\ ~ Applied' /\ ~ Applied
    <2>1. Content = ToBag(rows) /\ ~ Applied
        BY <1>2, PhaseContent DEF ContentInPhase
    <2>2. Content' = ToBag(rows)' /\ ~ Applied'
        BY <1>3, PhaseContentAfter DEF ContentInPhase
    <2> QED
        BY <1>1, <2>1, <2>2
<1>5. stmt = NoStatement
    BY <1>1, <1>2 DEF IsServing
<1>6. AbstractStep
    <2>1. Abstract!Submit(s)
        BY <1>1, <1>4, <1>5 DEF Abstract!Submit, Applied
    <2> QED
        BY <2>1 DEF AbstractStep, Abstract!Next
<1> QED
    BY <1>3, <1>6 DEF AtomicInv

\* An INSERT takes effect when its line is logged, unless the stream drops it.
LEMMA InsertBeginAtomic ==
    ASSUME AllReadBack, TypeOK, TypeOK', AtomicInv, InsertBegin
    PROVE  AtomicInv' /\ AbstractStep
<1>1. IsServing
    BY Phases DEF InsertBegin
<1>2. /\ stmt \in Statements /\ stmt # NoStatement /\ stmt' = stmt /\ stmt.kind = "insert"
      /\ stmt.row \in Row
      /\ pc' = "store" /\ job' = "insert" /\ image' = <<stmt.row>> /\ done' = 0
      /\ UNCHANGED <<rows, replay, inRecovery>> /\ ~ inRecovery /\ replay = <<>>
      /\ Log(InsertLine(stmt.row))
    BY <1>1, StatementTypes DEF InsertBegin, IsServing, TypeOK, dataVars
<1>3. walGood' = walGood
    BY <1>2 DEF Log
<1>4. ASSUME walGood
      PROVE  /\ UncommittedLines' = Append(UncommittedLines, InsertLine(stmt.row))
             /\ Uncommitted'
    <2>1. InsertLine(stmt.row) \in Line /\ InsertLine(stmt.row) # CommitLine
        BY <1>2, LineTypes DEF InsertLine, CommitLine
    <2> QED
        BY <1>2, <1>4, <2>1, LogAdds DEF Uncommitted
<1>5. ~ walGood => UncommittedLines' = <<>>
    BY <1>1, <1>2, LogLeaves DEF IsServing
<1>6. UncommittedLines \in Seq(Line)
    BY RestOfLog, RestType DEF TypeOK
<1>7. IsInserting'
    <2>1. IsServed'
        BY <1>2, <1>3, <1>5 DEF IsServed
    <2>2. walGood' => \E before \in Seq(Line) :
                        /\ before = <<>> \/ before = ReplaceLines(rows)'
                        /\ UncommittedLines' = Append(before, InsertLine(stmt.row)')
        <3>1. ReplaceLines(rows)' = ReplaceLines(rows) /\ InsertLine(stmt.row)' = InsertLine(stmt.row)
            BY <1>2 DEF ReplaceLines, InsertLine
        <3>2. UncommittedLines = <<>> \/ UncommittedLines = ReplaceLines(rows)
            BY <1>1 DEF IsServing
        <3> QED
            BY <1>3, <1>4, <1>6, <3>1, <3>2
    <2> QED
        BY <1>2, <1>3, <1>4, <2>1, <2>2 DEF IsInserting
<1>8. Content = ToBag(rows) /\ ~ Applied
    BY <1>1, PhaseContent DEF ContentInPhase
<1>9. IF walGood THEN Content' = ToBag(Append(rows, stmt.row)) /\ Applied'
                 ELSE Content' = ToBag(rows) /\ ~ Applied'
    BY <1>2, <1>3, <1>7, PhaseContentAfter DEF ContentInPhase
<1>10. Abstract!Effect(stmt, ToBag(rows)) = ToBag(Append(rows, stmt.row))
    BY <1>2, Effects
<1>11. AbstractStep
    BY <1>2, <1>8, <1>9, <1>10, Applies, Stutters
<1> QED
    BY <1>7, <1>11 DEF AtomicInv

\* A DELETE or UPDATE that leaves no rows takes effect at once, any other with the
\* last line it logs.
LEMMA ReplaceBeginAtomic ==
    ASSUME AllReadBack, TypeOK, TypeOK', AtomicInv, pc = "begin", stmt # NoStatement,
           NEW newState \in Seq(Row), ReplaceBegin(newState),
           ToBag(newState) = Abstract!Effect(stmt, ToBag(rows))
    PROVE  AtomicInv' /\ AbstractStep
<1>1. IsServing
    BY Phases
<1>2. /\ stmt' = stmt /\ job' = "replace" /\ image' = newState /\ done' = 0
      /\ UNCHANGED <<rows, replay, inRecovery>> /\ ~ inRecovery /\ replay = <<>>
      /\ Log(BeginLine) /\ pc' = IF newState = <<>> THEN "clear" ELSE "log"
    BY <1>1 DEF ReplaceBegin, AfterBeginLine, IsServing, dataVars
<1>3. walGood' = walGood
    BY <1>2 DEF Log
<1>4. UncommittedLines \in Seq(Line) /\ <<>> \in Seq(Row)
    BY RestOfLog, RestType DEF TypeOK
<1>5. walGood => UncommittedLines' = UncommittedLines \o ReplaceLines(<<>>)
    <2>1. BeginLine \in Line /\ BeginLine # CommitLine
        BY LineTypes DEF BeginLine, CommitLine
    <2>2. walGood => UncommittedLines' = Append(UncommittedLines, BeginLine)
        BY <1>2, <2>1, LogAdds
    <2>3. Append(UncommittedLines, BeginLine) = UncommittedLines \o <<BeginLine>>
        BY <1>4, <2>1
    <2> QED
        BY <2>2, <2>3, ReplaceLinesGrow
<1>6. ~ walGood => UncommittedLines' = <<>>
    BY <1>1, <1>2, LogLeaves DEF IsServing
<1>7. IsServed'
    BY <1>2, <1>3, <1>6 DEF IsServed
<1>8. UncommittedLines = <<>> \/ UncommittedLines = ReplaceLines(rows)
    BY <1>1 DEF IsServing
<1>9. Content = ToBag(rows) /\ ~ Applied
    BY <1>1, PhaseContent DEF ContentInPhase
<1>10. ASSUME newState = <<>>
       PROVE  IsReplacing' /\ AbstractStep
    <2>1. Before(UncommittedLines)
        BY <1>8 DEF Before, TypeOK
    <2>2. IsReplacing'
        BY <1>2, <1>3, <1>4, <1>5, <1>7, <1>10, <2>1 DEF IsReplacing, WritingImage
    <2>3. Content' = ToBag(newState) /\ Applied'
        BY <1>2, <2>2, PhaseContentAfter DEF ContentInPhase
    <2> QED
        BY <1>2, <1>9, <2>2, <2>3, Applies
<1>11. ASSUME newState # <<>>
       PROVE  IsLogging' /\ AbstractStep
    <2>1. ReplaceLines(SubSeq(image, 1, done))' = ReplaceLines(<<>>)
        <3>1. SubSeq(image, 1, done)' = <<>>
            BY <1>2
        <3> QED
            BY <3>1
    <2>2. walGood' => \E before \in Seq(Line) :
                        /\ before = <<>> \/ before = ReplaceLines(rows)'
                        /\ UncommittedLines' = before \o ReplaceLines(SubSeq(image, 1, done))'
        <3>1. ReplaceLines(rows)' = ReplaceLines(rows)
            BY <1>2 DEF ReplaceLines
        <3> QED
            BY <1>3, <1>4, <1>5, <1>8, <2>1, <3>1
    <2>3. ToBag(image)' = Abstract!Effect(stmt, ToBag(rows))'
        BY <1>2
    <2>4. IsLogging'
        BY <1>2, <1>7, <1>11, <2>2, <2>3 DEF IsLogging
    <2>5. Content' = ToBag(rows)' /\ ~ Applied'
        BY <2>4, PhaseContentAfter DEF ContentInPhase
    <2> QED
        BY <1>2, <1>9, <2>4, <2>5, Stutters
<1> QED
    BY <1>10, <1>11 DEF AtomicInv

LEMMA DeleteUpdateAtomic ==
    ASSUME AllReadBack, TypeOK, TypeOK', AtomicInv, DeleteBegin \/ UpdateBegin
    PROVE  AtomicInv' /\ AbstractStep
<1>1. stmt \in Statements /\ rows \in Seq(Row)
    BY DEF DeleteBegin, UpdateBegin, TypeOK
<1>2. CASE DeleteBegin
    <2>1. PICK kept \in Kept(rows, stmt.cond) : ReplaceBegin(kept)
        BY <1>2 DEF DeleteBegin
    <2>2. kept \in Seq(Row)
        BY <1>1, KeptType
    <2>3. ToBag(kept) = Abstract!Effect(stmt, ToBag(rows))
        BY <1>1, <1>2, Effects DEF DeleteBegin
    <2> QED
        BY <1>2, <2>1, <2>2, <2>3, ReplaceBeginAtomic DEF DeleteBegin
<1>3. CASE UpdateBegin
    <2> DEFINE newState == Assigned(rows, stmt.cond, stmt.to)
    <2>1. newState \in Seq(Row)
        BY <1>1, <1>3, StatementTypes, AssignedType DEF UpdateBegin
    <2>2. ToBag(newState) = Abstract!Effect(stmt, ToBag(rows))
        BY <1>1, <1>3, Effects DEF UpdateBegin
    <2>3. ReplaceBegin(newState) /\ pc = "begin" /\ stmt # NoStatement
        BY <1>3 DEF UpdateBegin
    <2> HIDE DEF newState
    <2> QED
        BY <2>1, <2>2, <2>3, ReplaceBeginAtomic
<1> QED
    BY <1>2, <1>3

\* An UPDATE that matches nothing takes effect by changing nothing.
LEMMA UpdateNothingAtomic ==
    ASSUME AllReadBack, TypeOK, TypeOK', AtomicInv, UpdateNothing
    PROVE  AtomicInv' /\ AbstractStep
<1>1. IsServing
    BY Phases DEF UpdateNothing
<1>2. /\ stmt \in Statements /\ stmt # NoStatement /\ stmt' = stmt /\ stmt.kind = "update"
      /\ pc' = "commit" /\ job' = "replace" /\ rows \in Seq(Row)
      /\ UNCHANGED <<rows, wal, walGood, replay, inRecovery>>
      /\ \A i \in 1 .. Len(rows) : rows[i] \notin stmt.cond
    BY <1>1 DEF UpdateNothing, Matches, IsServing, TypeOK, dataVars, logVars
<1>3. IsUnchanged'
    <2>1. UncommittedLines' = UncommittedLines /\ ReplaceLines(rows)' = ReplaceLines(rows)
        BY <1>2, SameLog DEF ReplaceLines
    <2> QED
        BY <1>1, <1>2, <2>1 DEF IsServing, IsServed, IsUnchanged
<1>4. Content = ToBag(rows) /\ ~ Applied
    BY <1>1, PhaseContent DEF ContentInPhase
<1>5. Content' = ToBag(rows) /\ Applied'
    BY <1>2, <1>3, PhaseContentAfter DEF ContentInPhase
<1>6. Abstract!Effect(stmt, ToBag(rows)) = ToBag(rows)
    <2> DEFINE t == Assigned(rows, stmt.cond, stmt.to)
    <2>1. t \in Seq(Row)
        BY <1>2, StatementTypes, AssignedType
    <2>2. Len(t) = Len(rows) /\ \A i \in 1 .. Len(rows) : t[i] = rows[i]
        BY <1>2 DEF Assigned
    <2>3. Abstract!Effect(stmt, ToBag(rows)) = ToBag(t)
        BY <1>2, Effects
    <2> HIDE DEF t
    <2>4. t = rows
        BY <1>2, <2>1, <2>2, SeqEqual
    <2> QED
        BY <2>3, <2>4
<1> QED
    BY <1>2, <1>3, <1>4, <1>5, <1>6, Applies DEF AtomicInv

\* A row of a DELETE or UPDATE is logged; with the last one it takes effect.
LEMMA LogRowAtomic ==
    ASSUME AllReadBack, TypeOK, TypeOK', AtomicInv, Structure, LogRow
    PROVE  AtomicInv' /\ AbstractStep
<1> DEFINE r == image[done + 1]
           so == SubSeq(image, 1, done)
           far == SubSeq(image, 1, done + 1)
<1>1. IsLogging
    BY Phases DEF LogRow
<1>2. /\ stmt # NoStatement /\ stmt' = stmt /\ job' = "replace" /\ image' = image
      /\ UNCHANGED <<rows, replay, inRecovery>> /\ ~ inRecovery /\ replay = <<>>
      /\ Log(RowLine(r)) /\ walGood' = walGood
      /\ IF done + 1 = Len(image) THEN done' = 0 /\ pc' = "clear"
                                  ELSE done' = done + 1 /\ pc' = "log"
    BY <1>1 DEF LogRow, Log, IsLogging, IsServed, dataVars
<1>3. image \in Seq(Row) /\ Len(image) \in Nat /\ done \in Nat /\ done < Len(image) /\ r \in Row
    <2>1. image \in Seq(Row) /\ Len(image) \in Nat /\ done \in Nat /\ done < Len(image)
        BY DEF TypeOK, Structure, LogRow
    <2> QED
        BY <2>1
<1>4. so \in Seq(Row) /\ far \in Seq(Row) /\ far = Append(so, r)
    BY <1>3
<1>5. done + 1 = Len(image) => far = image
    BY <1>3
<1> HIDE DEF r, so, far
<1>6. ASSUME walGood
      PROVE  \E before \in Seq(Line) :
                /\ before = <<>> \/ before = ReplaceLines(rows)
                /\ UncommittedLines' = before \o ReplaceLines(far)
    <2>1. PICK before \in Seq(Line) :
            /\ before = <<>> \/ before = ReplaceLines(rows)
            /\ UncommittedLines = before \o ReplaceLines(so)
        BY <1>1, <1>6 DEF IsLogging, so
    <2>2. RowLine(r) \in Line /\ RowLine(r) # CommitLine
        BY <1>3, LineTypes DEF RowLine, CommitLine
    <2>3. UncommittedLines' = Append(before \o ReplaceLines(so), RowLine(r))
        BY <1>2, <1>6, <2>1, <2>2, LogAdds
    <2>4. ReplaceLines(so) \in Seq(Line) /\ ReplaceLines(far) = Append(ReplaceLines(so), RowLine(r))
        BY <1>3, <1>4, ReplaceLinesAre, ReplaceLinesGrow
    <2>5. Append(before \o ReplaceLines(so), RowLine(r))
            = before \o Append(ReplaceLines(so), RowLine(r))
        <3>1. \A l \in Line : Append(before \o ReplaceLines(so), l) = before \o Append(ReplaceLines(so), l)
            BY <2>4, LinesConcat
        <3> QED
            BY <2>2, <3>1
    <2>6. UncommittedLines' = before \o ReplaceLines(far)
        BY <2>3, <2>4, <2>5
    <2> QED
        BY <2>1, <2>6
<1>7. ~ walGood => UncommittedLines' = <<>>
    BY <1>1, <1>2, LogLeaves DEF IsLogging, IsServed
<1>8. IsServed' /\ Content = ToBag(rows) /\ ~ Applied
    BY <1>1, <1>2, <1>7, PhaseContent DEF IsServed, ContentInPhase
<1>9. ReplaceLines(rows)' = ReplaceLines(rows) /\ ReplaceLines(image)' = ReplaceLines(image)
    BY <1>2 DEF ReplaceLines
<1>10. ASSUME done + 1 = Len(image)
       PROVE  IsReplacing' /\ AbstractStep
    <2>1. walGood' => \E before \in Seq(Line) :
                        Before(before) /\ UncommittedLines' = before \o ReplaceLines(image)'
        BY <1>2, <1>5, <1>6, <1>9, <1>10 DEF Before, TypeOK
    <2>2. IsReplacing'
        BY <1>2, <1>8, <1>10, <2>1 DEF IsReplacing, WritingImage
    <2>3. Content' = ToBag(image) /\ Applied'
        BY <1>2, <2>2, PhaseContentAfter DEF ContentInPhase
    <2>4. Content' = Abstract!Effect(stmt, Content)
        BY <1>1, <1>8, <2>3 DEF IsLogging
    <2> QED
        BY <1>2, <1>8, <2>2, <2>3, <2>4, Applies
<1>11. ASSUME done + 1 # Len(image)
       PROVE  IsLogging' /\ AbstractStep
    <2>1. ReplaceLines(SubSeq(image, 1, done))' = ReplaceLines(far)
        <3>1. SubSeq(image, 1, done)' = far
            BY <1>2, <1>11 DEF far
        <3> QED
            BY <3>1 DEF ReplaceLines
    <2>2. ToBag(image)' = Abstract!Effect(stmt, ToBag(rows))'
        BY <1>1, <1>2 DEF IsLogging
    <2>3. IsLogging'
        BY <1>2, <1>6, <1>8, <1>9, <1>11, <2>1, <2>2 DEF IsLogging
    <2>4. Content' = ToBag(rows) /\ ~ Applied'
        BY <1>2, <2>3, PhaseContentAfter DEF ContentInPhase
    <2> QED
        BY <1>2, <1>8, <2>3, <2>4, Stutters
<1> QED
    BY <1>10, <1>11 DEF AtomicInv

\* A step that writes rows and leaves the log alone leaves a DELETE or UPDATE, the
\* client's or a replayed one, what it was.
LEMMA WritingOn ==
    ASSUME AllReadBack, TypeOK, TypeOK', IsReplacing \/ IsRedoingReplace, WritingImage',
           UNCHANGED <<wal, walGood, inRecovery, stmt, job, image, replay>>,
           stmt # NoStatement => pc' \in {"clear", "store", "commit"},
           stmt = NoStatement => pc' \in {"clear", "store", "recommit"}
    PROVE  AtomicInv' /\ AbstractStep
<1>1. UncommittedLines' = UncommittedLines /\ ReplaceLines(image)' = ReplaceLines(image)
    BY SameLog DEF ReplaceLines
<1>2. CASE IsReplacing
    <2>1. IsReplacing'
        BY <1>1, <1>2 DEF IsReplacing, IsServed
    <2>2. Content = ToBag(image) /\ Applied
        BY <1>2, PhaseContent DEF ContentInPhase
    <2>3. Content' = ToBag(image) /\ Applied'
        BY <2>1, PhaseContentAfter DEF ContentInPhase
    <2> QED
        BY <2>1, <2>2, <2>3, Stutters DEF AtomicInv
<1>3. CASE IsRedoingReplace
    <2>1. IsRedoingReplace'
        BY <1>1, <1>3 DEF IsRedoingReplace
    <2>2. Content = ToBag(Redone(image, replay)) /\ ~ Applied
        BY <1>3, PhaseContent DEF ContentInPhase
    <2>3. Content' = ToBag(Redone(image, replay)) /\ ~ Applied'
        <3>1. Content' = ToBag(Redone(image, replay))' /\ ~ Applied'
            BY <2>1, PhaseContentAfter DEF ContentInPhase
        <3> QED
            BY <3>1 DEF Redone, RowsAfter, LastBegin
    <2> QED
        BY <2>1, <2>2, <2>3, Stutters DEF AtomicInv
<1> QED
    BY <1>2, <1>3

LEMMA ClearAtomic ==
    ASSUME AllReadBack, TypeOK, TypeOK', AtomicInv, Clear \/ Cleared
    PROVE  AtomicInv' /\ AbstractStep
<1>1. /\ pc = "clear" /\ UNCHANGED <<wal, walGood, inRecovery, stmt, job, image, done, replay>>
      /\ pc' = "clear" \/ (pc' = "store" /\ rows' = <<>>)
    BY DEF Clear, Cleared, dataVars, logVars, jobVars
<1>2. IsReplacing \/ IsRedoingReplace
    BY <1>1, Phases
<1>3. done = 0 /\ SubSeq(image, 1, 0) = <<>>
    BY <1>1, <1>2 DEF IsReplacing, IsRedoingReplace, WritingImage
<1>4. WritingImage'
    BY <1>1, <1>3 DEF WritingImage
<1> QED
    BY <1>1, <1>2, <1>4, WritingOn

\* The row stored next is the one that was submitted.
LEMMA NextRowReadBack ==
    ASSUME AllReadBack, TypeOK, done < Len(image)
    PROVE  /\ NextRow = image[done + 1] /\ NextRow \in Row
           /\ Stored(NextRow) /\ NextRow \notin Unindexable
<1>1. image \in Seq(Row) /\ done \in Nat /\ Len(image) \in Nat
    BY DEF TypeOK
<1>2. image[done + 1] \in Row
    BY <1>1
<1> QED
    BY <1>2 DEF NextRow, AllReadBack

\* Rows go into the data file one by one.
LEMMA StoreRowAtomic ==
    ASSUME AllReadBack, TypeOK, TypeOK', AtomicInv, StoreRow
    PROVE  AtomicInv' /\ AbstractStep
<1>1. /\ pc = "store" /\ pc' = "store" /\ done < Len(image) /\ done' = done + 1
      /\ UNCHANGED <<wal, walGood, inRecovery, stmt, job, image, replay>>
      /\ rows' = Append(rows, image[done + 1])
    BY NextRowReadBack DEF StoreRow, StoreStep, logVars
<1>2. image \in Seq(Row) /\ Len(image) \in Nat /\ done \in Nat /\ rows \in Seq(Row)
    BY DEF TypeOK
<1>3. CASE IsReplacing \/ IsRedoingReplace
    <2>1. rows = SubSeq(image, 1, done)
        BY <1>1, <1>3 DEF IsReplacing, IsRedoingReplace, WritingImage
    <2>2. SubSeq(image, 1, done + 1) = Append(SubSeq(image, 1, done), image[done + 1])
        BY <1>1, <1>2
    <2>3. WritingImage'
        BY <1>1, <2>1, <2>2 DEF WritingImage
    <2> QED
        BY <1>1, <1>3, <2>3, WritingOn
<1>4. UncommittedLines' = UncommittedLines /\ (Uncommitted' <=> Uncommitted)
    BY <1>1, SameLog DEF Uncommitted
<1>5. CASE IsInserting
    <2>1. /\ image = <<stmt.row>> /\ stmt.row \in Row /\ stmt \in Statements /\ stmt.kind = "insert"
          /\ stmt # NoStatement
        BY <1>5, StatementTypes DEF IsInserting, IsServed, TypeOK
    <2>2. done = 0 /\ done' = 1 /\ image[done + 1] = stmt.row
        BY <1>1, <1>2, <2>1
    <2>3. IsInserting'
        BY <1>1, <1>4, <1>5, <2>2 DEF IsInserting, IsServed
    <2>4. IF walGood THEN Content = ToBag(Append(rows, stmt.row)) /\ Applied
                     ELSE Content = ToBag(rows) /\ ~ Applied
        BY <1>5, <2>2, PhaseContent DEF ContentInPhase
    <2>5. Content' = ToBag(Append(rows, stmt.row)) /\ Applied'
        <3>1. Content' = ToBag(rows)' /\ Applied'
            BY <2>2, <2>3, PhaseContentAfter DEF ContentInPhase
        <3> QED
            BY <1>1, <2>2, <3>1
    <2>6. Abstract!Effect(stmt, ToBag(rows)) = ToBag(Append(rows, stmt.row))
        BY <2>1, Effects
    <2>7. AbstractStep
        BY <1>1, <2>1, <2>4, <2>5, <2>6, Applies, Stutters
    <2> QED
        BY <2>3, <2>7 DEF AtomicInv
<1>6. CASE IsRedoingInsert
    <2>1. Len(image) = 1 /\ Uncommitted /\ stmt = NoStatement
        BY <1>1, <1>6 DEF IsRedoingInsert
    <2>2. done = 0 /\ done' = 1
        BY <1>1, <1>2, <2>1
    <2>3. IsRedoingInsert'
        BY <1>1, <1>4, <1>6, <2>1, <2>2 DEF IsRedoingInsert
    <2>4. Content = ToBag(Append(rows, image[1])) /\ ~ Applied
        BY <1>1, <1>6, <2>2, PhaseContent DEF ContentInPhase
    <2>5. Content' = ToBag(rows)' /\ ~ Applied'
        BY <2>2, <2>3, PhaseContentAfter DEF ContentInPhase
    <2>6. Content' = Content
        BY <1>1, <2>2, <2>4, <2>5
    <2> QED
        BY <1>1, <2>3, <2>4, <2>5, <2>6, Stutters DEF AtomicInv
<1> QED
    BY <1>1, <1>3, <1>5, <1>6, Phases

LEMMA AllStoredAtomic ==
    ASSUME AllReadBack, TypeOK, TypeOK', AtomicInv, AllStored
    PROVE  AtomicInv' /\ AbstractStep
<1>1. /\ pc = "store" /\ done = Len(image)
      /\ UNCHANGED <<rows, wal, walGood, inRecovery, stmt, job, image, done, replay>>
      /\ pc' = IF stmt = NoStatement /\ job = "replace" THEN "recommit" ELSE "commit"
    BY DEF AllStored, dataVars, logVars, jobVars
<1>2. image \in Seq(Row) /\ Len(image) \in Nat
    BY DEF TypeOK
<1>3. CASE IsReplacing \/ IsRedoingReplace
    <2>1. rows = SubSeq(image, 1, Len(image)) /\ job = "replace"
        BY <1>1, <1>3 DEF IsReplacing, IsRedoingReplace, WritingImage
    <2>2. rows = image
        BY <1>2, <2>1
    <2>3. WritingImage'
        BY <1>1, <2>1, <2>2 DEF WritingImage
    <2> QED
        BY <1>1, <1>3, <2>1, <2>3, WritingOn
<1>4. UncommittedLines' = UncommittedLines /\ (Uncommitted' <=> Uncommitted)
    BY <1>1, SameLog DEF Uncommitted
<1>5. CASE IsInserting
    <2>1. done = 1 /\ done' = 1 /\ pc' = "commit"
        BY <1>1, <1>5 DEF IsInserting, IsServed
    <2>2. IsInserting'
        BY <1>1, <1>4, <1>5, <2>1 DEF IsInserting, IsServed
    <2>3. Content = ToBag(rows) /\ Applied
        BY <1>5, <2>1, PhaseContent DEF ContentInPhase
    <2>4. Content' = ToBag(rows) /\ Applied'
        BY <1>1, <2>1, <2>2, PhaseContentAfter DEF ContentInPhase
    <2> QED
        BY <1>1, <2>2, <2>3, <2>4, Stutters DEF AtomicInv
<1>6. CASE IsRedoingInsert
    <2>1. done = 1 /\ done' = 1 /\ pc' = "commit" /\ Uncommitted
        BY <1>1, <1>6 DEF IsRedoingInsert
    <2>2. IsRedoingInsert'
        BY <1>1, <1>4, <1>6, <2>1 DEF IsRedoingInsert
    <2>3. Content = ToBag(rows) /\ ~ Applied
        BY <1>6, <2>1, PhaseContent DEF ContentInPhase
    <2>4. Content' = ToBag(rows) /\ ~ Applied'
        BY <1>1, <2>1, <2>2, PhaseContentAfter DEF ContentInPhase
    <2> QED
        BY <1>1, <2>2, <2>3, <2>4, Stutters DEF AtomicInv
<1> QED
    BY <1>1, <1>3, <1>5, <1>6, Phases

\* Nothing is refused, nothing is skipped.
LEMMA NothingFails ==
    ASSUME AllReadBack, TypeOK
    PROVE  ~ SkipRow /\ ~ InsertFails
BY NextRowReadBack DEF SkipRow, InsertFails, StoreStep, Refused, NotIndexed

\* A statement is answered, or a replayed one is over.
LEMMA CommitStatementAtomic ==
    ASSUME AllReadBack, TypeOK, TypeOK', AtomicInv, CommitStatement
    PROVE  AtomicInv' /\ AbstractStep
<1>1. IsReplacing \/ IsUnchanged \/ IsInserting \/ IsRedoingInsert
    BY Phases DEF CommitStatement
<1>2. /\ pc = "commit" /\ stmt' = NoStatement /\ NoJob' /\ UNCHANGED <<rows, replay, inRecovery>>
      /\ ~ inRecovery /\ replay = <<>> /\ Commit
      /\ pc' = IF stmt = NoStatement THEN "recommit" ELSE "idle"
    BY <1>1 DEF CommitStatement, JobOver, NoJob, dataVars, IsReplacing, IsUnchanged, IsInserting,
                IsRedoingInsert, IsServed
<1>3. walGood' = TRUE /\ UncommittedLines' = IF walGood THEN <<>> ELSE UncommittedLines
    BY <1>2, CommitLeaves
<1>4. CASE IsReplacing \/ IsUnchanged \/ IsInserting
    <2>1. IsServed
        BY <1>4 DEF IsReplacing, IsUnchanged, IsInserting
    <2>2. IsServing'
        BY <1>2, <1>3, <2>1 DEF IsServing, IsServed
    <2>3. Content = ToBag(rows) /\ Applied
        <3>1. IsReplacing => rows = image
            BY <1>2 DEF IsReplacing, WritingImage
        <3>2. IsInserting => done = 1
            BY <1>2 DEF IsInserting
        <3> QED
            BY <1>4, <3>1, <3>2, PhaseContent DEF ContentInPhase
    <2>4. Content' = ToBag(rows)' /\ ~ Applied'
        BY <2>2, PhaseContentAfter DEF ContentInPhase
    <2>5. Abstract!Succeed
        BY <1>2, <2>3, <2>4 DEF Abstract!Succeed, Applied
    <2> QED
        BY <2>2, <2>5 DEF AtomicInv, AbstractStep, Abstract!Next
<1>5. CASE IsRedoingInsert
    <2>1. IsRedoingInsert'
        BY <1>2, <1>3, <1>5 DEF IsRedoingInsert, NoJob
    <2>2. Content = ToBag(rows) /\ ~ Applied
        BY <1>2, <1>5, PhaseContent DEF ContentInPhase
    <2>3. Content' = ToBag(rows)' /\ ~ Applied'
        BY <1>2, <1>5, <2>1, PhaseContentAfter DEF ContentInPhase, IsRedoingInsert
    <2>4. stmt' = stmt
        BY <1>2, <1>5 DEF IsRedoingInsert
    <2> QED
        BY <1>2, <2>1, <2>2, <2>3, <2>4, Stutters DEF AtomicInv
<1> QED
    BY <1>1, <1>4, <1>5

--------------------------------------------------------------------------------
(* Recovery is invisible *)

\* Opening a database, whatever a crash has left, changes nothing of its content.
LEMMA OpenAtomic ==
    ASSUME AllReadBack, TypeOK, TypeOK', AtomicInv, Start \/ Use
    PROVE  AtomicInv' /\ AbstractStep
<1>1. /\ pc \in {"down", "idle"} /\ pc' = "recover" /\ ReadLog
      /\ UNCHANGED <<rows, inRecovery, stmt, job, image, done>>
    BY DEF Start, Use, dataVars, jobVars
<1>2. replay' = UncommittedLines /\ UncommittedLines' = UncommittedLines /\ walGood' = FALSE
    BY <1>1, ReadLogLeaves
<1>3. rows \in Seq(Row)
    BY DEF TypeOK
<1>4. /\ stmt = NoStatement /\ NoJob /\ ~ inRecovery /\ Crashed(UncommittedLines)
      /\ Content = ToBag(Redone(rows, UncommittedLines)) /\ ~ Applied
    <2>1. CASE pc = "down"
        <3>1. IsDown
            BY <2>1, Phases
        <3> QED
            BY <3>1, PhaseContent DEF IsDown, ContentInPhase
    <2>2. CASE pc = "idle"
        <3>1. IsServing
            BY <2>2, Phases
        <3>2. UncommittedLines = <<>> \/ UncommittedLines = ReplaceLines(rows)
            BY <3>1 DEF IsServing
        <3>3. Crashed(UncommittedLines)
            BY <1>3, <3>2 DEF Crashed, Entry, Before
        <3>4. Redone(rows, UncommittedLines) = rows
            BY <1>3, <3>2, RedoneNothing, RedoneReplace
        <3> QED
            BY <2>2, <3>1, <3>3, <3>4, PhaseContent DEF IsServing, ContentInPhase
    <2> QED
        BY <1>1, <2>1, <2>2
<1>5. IsRecovering'
    BY <1>1, <1>2, <1>4 DEF IsRecovering, NoJob
<1>6. Content' = ToBag(Redone(rows, replay))' /\ ~ Applied'
    BY <1>5, PhaseContentAfter DEF ContentInPhase
<1>7. Redone(rows, replay)' = Redone(rows, UncommittedLines)
    BY <1>1, <1>2 DEF Redone, RowsAfter, LastBegin
<1> QED
    BY <1>1, <1>4, <1>5, <1>6, <1>7, Stutters DEF AtomicInv

\* An INSERT found in the log is its last entry.  If the stream is good it is
\* logged once more, and stays there twice until its commit.
LEMMA RedoInsertAtomic ==
    ASSUME AllReadBack, TypeOK, TypeOK', AtomicInv, RedoInsert
    PROVE  AtomicInv' /\ AbstractStep
<1> DEFINE r == Head(replay).row
<1>1. IsRecovering
    BY Phases DEF RedoInsert
<1>2. rows \in Seq(Row)
    BY DEF TypeOK
<1>3. Crashed(replay) /\ replay # <<>> /\ Head(replay).type = "INSERT"
    BY <1>1, EntryType DEF RedoInsert, IsRecovering
<1>4. r \in Row /\ replay = <<InsertLine(r)>> /\ Tail(replay) = <<>>
    BY <1>3, CrashedInsert
<1>5. Replay[r] = r /\ r # Unparsable
    BY <1>4, WalAssumption DEF AllReadBack, WalAssumption
<1>6. /\ pc = "recover" /\ pc' = "store" /\ stmt = NoStatement /\ stmt' = NoStatement
      /\ job' = "insert" /\ image' = <<r>> /\ done' = 0 /\ replay' = <<>>
      /\ ~ inRecovery /\ UNCHANGED <<rows, inRecovery>> /\ Log(InsertLine(r))
    BY <1>1, <1>4, <1>5 DEF RedoInsert, IsRecovering, dataVars
<1>7. Len(image') = 1 /\ image'[1] = r /\ walGood' = walGood
    BY <1>6 DEF Log
<1>8. IsRedoingInsert'
    <2>1. CASE ~ walGood
        <3>1. UncommittedLines = <<InsertLine(r)>>
            BY <1>1, <1>4, <2>1 DEF IsRecovering
        <3>2. UncommittedLines # <<>>
            BY <3>1
        <3>3. Uncommitted
            BY <3>2, AllCommitted
        <3>4. UncommittedLines' = UncommittedLines /\ wal' = wal
            BY <1>6, <2>1, LogLeaves
        <3>5. Uncommitted'
            BY <3>3, <3>4 DEF Uncommitted
        <3>6. InsertLine(image[1])' = InsertLine(r)
            BY <1>7 DEF InsertLine
        <3> QED
            BY <1>6, <1>7, <3>1, <3>4, <3>5, <3>6 DEF IsRedoingInsert
    <2>2. CASE walGood
        <3>1. InsertLine(r) \in Line /\ InsertLine(r) # CommitLine
            BY <1>4, LineTypes DEF InsertLine, CommitLine
        <3>2. Uncommitted'
            BY <1>6, <2>2, <3>1, LogAdds DEF Uncommitted
        <3> QED
            BY <1>6, <1>7, <2>2, <3>2 DEF IsRedoingInsert
    <2> QED
        BY <2>1, <2>2
<1>9. Content = ToBag(Append(rows, r)) /\ ~ Applied
    <2>1. Content = ToBag(Redone(rows, replay)) /\ ~ Applied
        BY <1>1, PhaseContent DEF ContentInPhase
    <2>2. Redone(rows, <<InsertLine(r)>>) = Append(rows, r)
        BY <1>2, <1>4, RedoneInsert
    <2>3. Redone(rows, replay) = Append(rows, r)
        BY <1>4, <2>2
    <2> QED
        BY <2>1, <2>3
<1>10. Content' = ToBag(Append(rows, image[1]))' /\ ~ Applied'
    BY <1>6, <1>8, PhaseContentAfter DEF ContentInPhase
<1>11. Content' = Content
    BY <1>6, <1>7, <1>9, <1>10
<1> QED
    BY <1>6, <1>8, <1>9, <1>10, <1>11, Stutters DEF AtomicInv

\* A DELETE or UPDATE found in the log is followed by one more entry at most.
LEMMA RedoReplaceAtomic ==
    ASSUME AllReadBack, TypeOK, TypeOK', AtomicInv, RedoReplace
    PROVE  AtomicInv' /\ AbstractStep
<1>1. IsRecovering
    BY Phases DEF RedoReplace
<1>2. rows \in Seq(Row)
    BY DEF TypeOK
<1>3. Crashed(replay) /\ replay # <<>> /\ Head(replay) = BeginLine
    BY <1>1, EntryType DEF RedoReplace, IsRecovering
<1>4. PICK s \in Seq(Row) : \E last \in Seq(Line) :
        Entry(last) /\ replay = ReplaceLines(s) \o last /\ (Entry(replay) => last = <<>>)
    BY <1>3, CrashedReplace
<1>5. PICK last \in Seq(Line) :
        Entry(last) /\ replay = ReplaceLines(s) \o last /\ (Entry(replay) => last = <<>>)
    BY <1>4
<1>6. /\ pc' = "clear" /\ job' = "replace" /\ done' = 0 /\ inRecovery' = TRUE
      /\ stmt' = stmt /\ stmt = NoStatement
      /\ UNCHANGED <<rows, wal, walGood>>
      /\ image' = s /\ replay' = last
    <2>1. PICK n \in 1 .. Len(replay) :
            /\ EndsAfter(replay, n) /\ image' = RowsLogged(replay, n)
            /\ replay' = SubSeq(replay, n + 1, Len(replay))
        BY DEF RedoReplace, After, EndsAfter, RowsLogged
    <2>2. RowsLogged(replay, n) = s /\ SubSeq(replay, n + 1, Len(replay)) = last
        BY <1>5, <2>1, SplitReplace
    <2> QED
        BY <1>1, <2>1, <2>2 DEF RedoReplace, IsRecovering, dataVars, logVars
<1>7. UncommittedLines' = UncommittedLines
    BY <1>6, SameLog
<1>8. ReplaceLines(s) \in Seq(Line) /\ ReplaceLines(image)' = ReplaceLines(s)
    BY <1>6, ReplaceLinesAre DEF ReplaceLines
<1>9. IsRedoingReplace'
    <2>1. CASE ~ walGood
        <3>1. UncommittedLines = ReplaceLines(s) \o last
            BY <1>1, <1>5, <2>1 DEF IsRecovering
        <3> QED
            BY <1>5, <1>6, <1>7, <1>8, <2>1, <3>1 DEF IsRedoingReplace, WritingImage
    <2>2. CASE walGood
        <3>1. UncommittedLines = ReplaceLines(rows) \o replay /\ Entry(replay)
            BY <1>1, <1>3, <2>2 DEF IsRecovering
        <3>2. last = <<>> /\ ReplaceLines(s) \o <<>> = ReplaceLines(s)
            BY <1>5, <1>8, <3>1, LinesConcat
        <3>3. UncommittedLines = ReplaceLines(rows) \o ReplaceLines(s)
            BY <1>5, <3>1, <3>2
        <3>4. ReplaceLines(rows) \in Seq(Line) /\ Before(ReplaceLines(rows))
            BY <1>2, ReplaceLinesAre DEF Before
        <3> QED
            BY <1>6, <1>7, <1>8, <2>2, <3>2, <3>3, <3>4 DEF IsRedoingReplace, WritingImage
    <2> QED
        BY <2>1, <2>2
<1>10. Content = ToBag(Redone(rows, replay)) /\ ~ Applied
    BY <1>1, PhaseContent DEF ContentInPhase
<1>11. Content' = ToBag(Redone(image, replay))' /\ ~ Applied'
    BY <1>9, PhaseContentAfter DEF ContentInPhase
<1>12. Content' = Content
    <2>1. Redone(image, replay)' = Redone(s, last)
        BY <1>6 DEF Redone, RowsAfter, LastBegin
    <2>2. Redone(rows, ReplaceLines(s) \o last) = Redone(s, last)
        BY <1>2, <1>5, RedoneEntry
    <2> QED
        BY <1>5, <1>10, <1>11, <2>1, <2>2
<1> QED
    BY <1>6, <1>9, <1>10, <1>11, <1>12, Stutters DEF AtomicInv

\* recover() commits what it has replayed, or only makes the stream good again.
LEMMA RecommitAtomic ==
    ASSUME AllReadBack, TypeOK, TypeOK', AtomicInv, Recommit
    PROVE  AtomicInv' /\ AbstractStep
<1>1. IsRedoingReplace \/ IsRedoingInsert
    BY Phases DEF Recommit
<1>2. /\ pc = "recommit" /\ pc' = "recover" /\ Commit /\ NoJob' /\ UNCHANGED <<rows, replay, stmt>>
      /\ inRecovery' = IF job = "replace" THEN FALSE ELSE inRecovery
      /\ stmt = NoStatement
    BY <1>1 DEF Recommit, JobOver, NoJob, dataVars, IsRedoingReplace, IsRedoingInsert
<1>3. walGood' = TRUE /\ UncommittedLines' = IF walGood THEN <<>> ELSE UncommittedLines
    BY <1>2, CommitLeaves
<1>4. Redone(rows, replay)' = Redone(rows, replay) /\ ReplaceLines(rows)' = ReplaceLines(rows)
    BY <1>2 DEF Redone, RowsAfter, LastBegin, ReplaceLines
<1>5. CASE IsRedoingReplace
    <2>1. rows = image /\ job = "replace"
        BY <1>2, <1>5 DEF IsRedoingReplace, WritingImage
    <2>2. IsRecovering'
        BY <1>2, <1>3, <1>4, <1>5, <2>1 DEF IsRedoingReplace, IsRecovering
    <2>3. Content = ToBag(Redone(rows, replay)) /\ ~ Applied
        BY <1>5, <2>1, PhaseContent DEF ContentInPhase
    <2>4. Content' = ToBag(Redone(rows, replay))' /\ ~ Applied'
        BY <2>2, PhaseContentAfter DEF ContentInPhase
    <2> QED
        BY <1>2, <1>4, <2>2, <2>3, <2>4, Stutters DEF AtomicInv
<1>6. CASE IsRedoingInsert
    <2>1. replay = <<>> /\ walGood /\ job = "insert" /\ ~ inRecovery
        BY <1>2, <1>6 DEF IsRedoingInsert
    <2>2. IsRecovering'
        BY <1>2, <1>3, <2>1 DEF IsRecovering
    <2>3. Content = ToBag(rows) /\ ~ Applied
        BY <1>2, <1>6, PhaseContent DEF ContentInPhase
    <2>4. Content' = ToBag(Redone(rows, replay))' /\ ~ Applied'
        BY <2>2, PhaseContentAfter DEF ContentInPhase
    <2>5. Redone(rows, replay) = rows
        BY <2>1, RedoneNothing DEF TypeOK
    <2> QED
        BY <1>2, <1>4, <2>2, <2>3, <2>4, <2>5, Stutters DEF AtomicInv
<1> QED
    BY <1>1, <1>5, <1>6

LEMMA RecoveredAtomic ==
    ASSUME AllReadBack, TypeOK, TypeOK', AtomicInv, Recovered
    PROVE  AtomicInv' /\ AbstractStep
<1>1. IsRecovering
    BY Phases DEF Recovered
<1>2. /\ pc' = "idle" /\ replay = <<>> /\ stmt = NoStatement
      /\ UNCHANGED <<rows, wal, walGood, inRecovery, stmt, job, image, done, replay>>
    BY <1>1 DEF Recovered, IsRecovering, dataVars, logVars, jobVars
<1>3. rows \in Seq(Row) /\ ReplaceLines(rows) \in Seq(Line)
    BY ReplaceLinesAre DEF TypeOK
<1>4. UncommittedLines = <<>> \/ (walGood /\ UncommittedLines = ReplaceLines(rows))
    <2>1. ReplaceLines(rows) \o <<>> = ReplaceLines(rows)
        BY <1>3, LinesConcat
    <2> QED
        BY <1>1, <1>2, <2>1 DEF IsRecovering
<1>5. IsServing'
    <2>1. UncommittedLines' = UncommittedLines /\ ReplaceLines(rows)' = ReplaceLines(rows)
        BY <1>2, SameLog DEF ReplaceLines
    <2> QED
        BY <1>1, <1>2, <1>4, <2>1 DEF IsRecovering, IsServing, NoJob
<1>6. Content = ToBag(Redone(rows, replay)) /\ ~ Applied
    BY <1>1, PhaseContent DEF ContentInPhase
<1>7. Redone(rows, replay) = rows
    BY <1>2, <1>3, RedoneNothing
<1>8. Content' = ToBag(rows)' /\ ~ Applied'
    BY <1>5, PhaseContentAfter DEF ContentInPhase
<1> QED
    BY <1>2, <1>5, <1>6, <1>7, <1>8, Stutters DEF AtomicInv

--------------------------------------------------------------------------------
(* Crashes, and the whole *)

\* What a crash outside the unsafe windows finds in the log puts the content back.
LEMMA SurvivesCrash ==
    ASSUME AllReadBack, TypeOK, AtomicInv, Hazards = {}, CrashPoint
    PROVE  Crashed(UncommittedLines) /\ ToBag(Redone(rows, UncommittedLines)) = Content
<1>1. /\ rows \in Seq(Row) /\ image \in Seq(Row) /\ UncommittedLines \in Seq(Line)
      /\ done \in 0 .. Len(image) /\ Len(image) \in Nat /\ walGood \in BOOLEAN
    BY RestOfLog, RestType DEF TypeOK
<1>2. /\ ~ (pc = "log" /\ walGood)
      /\ Replacing /\ pc \in {"clear", "store"} => walGood /\ ~ inRecovery
      /\ job = "insert" /\ (done = 1 \/ pc = "recommit") => UncommittedLines = <<>> /\ ~ Uncommitted
      /\ job = "insert" /\ stmt = NoStatement /\ pc = "store" => ~ walGood
    <2>1. \A w \in {"partialLog", "unlogged", "stored", "relogged"} : ~ Unsafe(w)
        BY DEF CrashPoint, Windows
    <2>2. /\ ~ Unsafe("partialLog") /\ ~ Unsafe("unlogged") /\ ~ Unsafe("stored")
          /\ ~ Unsafe("relogged")
        BY <2>1
    <2>3. job = "insert" /\ (done = 1 \/ pc = "recommit") => ~ Uncommitted
        BY <2>2 DEF Unsafe
    <2> QED
        BY <2>2, <2>3, AllCommitted DEF Unsafe
<1>3. Redone(rows, <<>>) = rows /\ Crashed(<<>>)
    BY <1>1, RedoneNothing DEF Crashed, Entry, Before
<1>4. \A s \in Seq(Row) : Redone(rows, ReplaceLines(s)) = s /\ Crashed(ReplaceLines(s))
    BY RedoneReplace DEF Crashed, Entry, Before
<1>5. CASE IsDown
    BY <1>5, PhaseContent DEF IsDown, ContentInPhase
<1>6. CASE IsServing
    BY <1>1, <1>3, <1>4, <1>6, PhaseContent DEF IsServing, ContentInPhase
<1>7. CASE IsLogging
    BY <1>2, <1>3, <1>7, PhaseContent DEF IsLogging, IsServed, ContentInPhase
<1>8. CASE IsReplacing
    <2>1. Content = ToBag(image)
        BY <1>8, PhaseContent DEF ContentInPhase
    <2>2. CASE walGood
        <3>1. PICK before \in Seq(Line) :
                Before(before) /\ UncommittedLines = before \o ReplaceLines(image)
            BY <1>8, <2>2 DEF IsReplacing
        <3>2. Redone(rows, before \o ReplaceLines(image)) = image
            BY <1>1, RedoneReplaceLast
        <3>3. Crashed(before \o ReplaceLines(image))
            BY <1>1, <3>1, CrashedReplacing
        <3> QED
            BY <2>1, <3>1, <3>2, <3>3
    <2>3. CASE ~ walGood
        <3>1. pc = "commit" /\ UncommittedLines = <<>>
            BY <1>2, <1>8, <2>3 DEF IsReplacing, IsServed, Replacing
        <3>2. rows = image
            BY <1>8, <3>1 DEF IsReplacing, WritingImage
        <3> QED
            BY <1>3, <2>1, <3>1, <3>2
    <2> QED
        BY <2>2, <2>3
<1>9. CASE IsUnchanged
    BY <1>1, <1>3, <1>4, <1>9, PhaseContent DEF IsUnchanged, ContentInPhase
<1>10. CASE IsInserting
    <2>1. job = "insert" /\ Len(image) = 1 /\ stmt.row \in Row
        BY <1>10, StatementTypes DEF IsInserting, IsServed, TypeOK
    <2>2. done = 0 \/ done = 1
        BY <1>1, <2>1
    <2>3. CASE done = 1
        <3>1. UncommittedLines = <<>>
            BY <1>2, <2>1, <2>3
        <3>2. Content = ToBag(rows)
            BY <1>10, <2>3, PhaseContent DEF ContentInPhase
        <3> QED
            BY <1>3, <3>1, <3>2
    <2>4. CASE done = 0 /\ ~ walGood
        <3>1. UncommittedLines = <<>>
            BY <1>10, <2>4 DEF IsInserting, IsServed
        <3>2. Content = ToBag(rows)
            BY <1>10, <2>4, PhaseContent DEF ContentInPhase
        <3> QED
            BY <1>3, <3>1, <3>2
    <2>5. CASE done = 0 /\ walGood
        <3>1. Content = ToBag(Append(rows, stmt.row))
            BY <1>10, <2>5, PhaseContent DEF ContentInPhase
        <3>2. PICK before \in Seq(Line) :
                /\ before = <<>> \/ before = ReplaceLines(rows)
                /\ UncommittedLines = Append(before, InsertLine(stmt.row))
            BY <1>10, <2>5 DEF IsInserting
        <3>3. CASE before = <<>>
            <4>1. UncommittedLines = <<InsertLine(stmt.row)>>
                BY <3>2, <3>3
            <4>2. Redone(rows, <<InsertLine(stmt.row)>>) = Append(rows, stmt.row)
                BY <1>1, <2>1, RedoneInsert
            <4> QED
                BY <2>1, <3>1, <4>1, <4>2 DEF Crashed, Entry
        <3>4. CASE before = ReplaceLines(rows)
            <4>1. UncommittedLines = Append(ReplaceLines(rows), InsertLine(stmt.row))
                BY <3>2, <3>4
            <4>2. Redone(rows, UncommittedLines) = Append(rows, stmt.row)
                BY <1>1, <2>1, <4>1, RedoneReplaceInsert
            <4>3. Crashed(UncommittedLines)
                BY <1>1, <2>1, <4>1, CrashedInserting
            <4> QED
                BY <3>1, <4>2, <4>3
        <3> QED
            BY <3>2, <3>3, <3>4
    <2> QED
        BY <2>2, <2>3, <2>4, <2>5
<1>11. CASE IsRecovering
    <2>1. Content = ToBag(Redone(rows, replay))
        BY <1>11, PhaseContent DEF ContentInPhase
    <2>2. CASE UncommittedLines = replay /\ Crashed(replay)
        BY <2>1, <2>2
    <2>3. CASE UncommittedLines = <<>> /\ replay = <<>>
        BY <1>3, <2>1, <2>3
    <2>4. CASE UncommittedLines = ReplaceLines(rows) \o replay /\ Entry(replay)
        <3>1. replay \in Seq(Line)
            BY DEF TypeOK
        <3>2. Redone(rows, ReplaceLines(rows) \o replay) = Redone(rows, replay)
            BY <1>1, <2>4, <3>1, RedoneEntry
        <3> QED
            BY <1>1, <2>1, <2>4, <3>1, <3>2 DEF Crashed
    <2> QED
        BY <1>11, <2>2, <2>3, <2>4 DEF IsRecovering
<1>12. CASE IsRedoingReplace
    <2>1. Content = ToBag(Redone(image, replay))
        BY <1>12, PhaseContent DEF ContentInPhase
    <2>2. CASE UncommittedLines = ReplaceLines(image) \o replay /\ Entry(replay)
        <3>1. replay \in Seq(Line)
            BY DEF TypeOK
        <3>2. Redone(rows, ReplaceLines(image) \o replay) = Redone(image, replay)
            BY <1>1, <2>2, <3>1, RedoneEntry
        <3> QED
            BY <1>1, <2>1, <2>2, <3>1, <3>2 DEF Crashed
    <2>3. CASE replay = <<>> /\ \E before \in Seq(Line) :
                    Before(before) /\ UncommittedLines = before \o ReplaceLines(image)
        <3>1. PICK before \in Seq(Line) :
                Before(before) /\ UncommittedLines = before \o ReplaceLines(image)
            BY <2>3
        <3>2. Redone(rows, before \o ReplaceLines(image)) = image
            BY <1>1, RedoneReplaceLast
        <3>3. Crashed(before \o ReplaceLines(image))
            BY <1>1, <3>1, CrashedReplacing
        <3>4. Redone(image, replay) = image
            BY <1>1, <2>3, RedoneNothing
        <3> QED
            BY <2>1, <3>1, <3>2, <3>3, <3>4
    <2> QED
        BY <1>12, <2>2, <2>3 DEF IsRedoingReplace
<1>13. CASE IsRedoingInsert
    <2>1. stmt = NoStatement /\ job = "insert"
        BY <1>13 DEF IsRedoingInsert
    <2>2. CASE pc = "store"
        <3>1. Len(image) = 1 /\ ~ walGood /\ Uncommitted
            BY <1>2, <1>13, <2>1, <2>2 DEF IsRedoingInsert
        <3>2. done = 0
            BY <1>1, <1>2, <2>1, <3>1
        <3>3. UncommittedLines = <<InsertLine(image[1])>>
            BY <1>13, <2>2, <3>1, <3>2 DEF IsRedoingInsert
        <3>4. Content = ToBag(Append(rows, image[1]))
            BY <1>13, <2>2, <3>2, PhaseContent DEF ContentInPhase
        <3>5. image[1] \in Row
            <4>1. image \in Seq(Row) /\ 1 \in 1 .. Len(image)
                BY <1>1, <3>1
            <4> QED
                BY <4>1
        <3>6. Redone(rows, <<InsertLine(image[1])>>) = Append(rows, image[1])
            BY <1>1, <3>5, RedoneInsert
        <3> QED
            BY <3>3, <3>4, <3>5, <3>6 DEF Crashed, Entry
    <2>3. CASE pc = "recommit"
        <3>1. UncommittedLines = <<>>
            BY <1>2, <2>1, <2>3
        <3>2. Content = ToBag(rows)
            BY <1>13, <2>3, PhaseContent DEF ContentInPhase
        <3> QED
            BY <1>3, <3>1, <3>2
    <2>4. pc = "store" \/ pc = "recommit"
        BY <1>2, <1>13, <2>1 DEF IsRedoingInsert
    <2> QED
        BY <2>2, <2>3, <2>4
<1> QED
    BY <1>5, <1>6, <1>7, <1>8, <1>9, <1>10, <1>11, <1>12, <1>13 DEF AtomicInv

\* The process dies and takes the statement with it, not the content.
LEMMA CrashAtomic ==
    ASSUME AllReadBack, TypeOK, TypeOK', AtomicInv, Hazards = {}, Crash
    PROVE  AtomicInv' /\ AbstractStep
<1>1. /\ CrashPoint /\ pc' = "down" /\ stmt' = NoStatement /\ replay' = <<>> /\ NoJob'
      /\ inRecovery' = FALSE /\ UNCHANGED <<rows, wal>>
    BY DEF Crash, Stopped, JobOver, NoJob, dataVars
<1>2. Crashed(UncommittedLines) /\ ToBag(Redone(rows, UncommittedLines)) = Content
    BY <1>1, SurvivesCrash
<1>3. UncommittedLines' = UncommittedLines
    BY <1>1, SameLog
<1>4. IsDown'
    BY <1>1, <1>2, <1>3 DEF IsDown
<1>5. Content' = ToBag(Redone(rows, UncommittedLines))' /\ ~ Applied'
    BY <1>4, PhaseContentAfter DEF ContentInPhase
<1>6. Redone(rows, UncommittedLines)' = Redone(rows, UncommittedLines)
    BY <1>1, <1>3 DEF Redone, RowsAfter, LastBegin
<1>7. Abstract!Crash
    BY <1>1, <1>2, <1>5, <1>6 DEF Abstract!Crash, Applied
<1> QED
    BY <1>4, <1>7 DEF AtomicInv, AbstractStep, Abstract!Next

LEMMA UnchangedAtomic ==
    ASSUME AtomicInv, UNCHANGED vars
    PROVE  AtomicInv' /\ AbstractStep
<1>1. UNCHANGED <<rows, wal, walGood, inRecovery, pc, stmt, job, image, done, replay>>
    BY DEF vars, dataVars, logVars, jobVars
<1>2. /\ UncommittedLines' = UncommittedLines /\ (Uncommitted' <=> Uncommitted)
      /\ ReplaceLines(rows)' = ReplaceLines(rows) /\ ReplaceLines(image)' = ReplaceLines(image)
    BY <1>1, SameLog DEF ReplaceLines, Uncommitted
<1>3. /\ InsertLogged' <=> InsertLogged
      /\ JobRows' = JobRows
    BY <1>1 DEF InsertLogged, JobRows
<1>4. Content' = Content
    BY <1>1, <1>2, <1>3 DEF Content, Redone, RowsAfter, LastBegin
<1>5. Applied' <=> Applied
    BY <1>1, <1>3 DEF Applied
<1>6. AtomicInv'
    <2>1. /\ (NoJob' <=> NoJob) /\ (IsServed' <=> IsServed) /\ (WritingImage' <=> WritingImage)
          /\ ReplaceLines(SubSeq(image, 1, done))' = ReplaceLines(SubSeq(image, 1, done))
        BY <1>1, <1>2 DEF NoJob, IsServed, WritingImage, ReplaceLines
    <2>2. /\ IsDown => IsDown'
          /\ IsServing => IsServing'
          /\ IsUnchanged => IsUnchanged'
          /\ IsRecovering => IsRecovering'
        BY <1>1, <1>2, <2>1 DEF IsDown, IsServing, IsUnchanged, IsRecovering
    <2>3. IsLogging => IsLogging'
        BY <1>1, <1>2, <2>1 DEF IsLogging
    <2>4. IsReplacing => IsReplacing'
        BY <1>1, <1>2, <2>1 DEF IsReplacing
    <2>5. IsInserting => IsInserting'
        BY <1>1, <1>2, <2>1 DEF IsInserting
    <2>6. IsRedoingReplace => IsRedoingReplace'
        BY <1>1, <1>2, <2>1 DEF IsRedoingReplace
    <2>7. IsRedoingInsert => IsRedoingInsert'
        BY <1>1, <1>2 DEF IsRedoingInsert
    <2> QED
        BY <2>2, <2>3, <2>4, <2>5, <2>6, <2>7 DEF AtomicInv
<1> QED
    BY <1>1, <1>4, <1>5, <1>6, Stutters

\* A database begins empty.
LEMMA InitAtomic == AllReadBack /\ Init => AtomicInv /\ Abstract!Init
<1> SUFFICES ASSUME AllReadBack, Init
             PROVE  AtomicInv /\ Abstract!Init
    OBVIOUS
<1>1. TypeOK
    BY InitInvariant DEF IInv
<1>2. UncommittedLines = <<>>
    BY <1>1, AllCommitted DEF Init, Uncommitted
<1>3. IsDown
    BY <1>2 DEF Init, IsDown, NoJob, Crashed, Entry, Before
<1>4. Content = ToBag(<<>>) /\ ~ Applied
    <2>1. Content = ToBag(Redone(rows, <<>>)) /\ ~ Applied
        BY <1>1, <1>2, <1>3, PhaseContent DEF ContentInPhase
    <2>2. Redone(rows, <<>>) = rows /\ rows = <<>>
        BY <1>1, RedoneNothing DEF Init, TypeOK
    <2> QED
        BY <2>1, <2>2
<1>5. Applied = FALSE
    BY <1>4 DEF Applied
<1> QED
    BY <1>3, <1>4, <1>5, NoRowsBag DEF Init, AtomicInv, Abstract!Init

\* Every step of the engine is a step of the abstract table, or none.
THEOREM StepAtomic ==
    ASSUME AllReadBack, Hazards = {}, ~ PowerLoss
    PROVE  IInv /\ AtomicInv /\ [Next]_vars => AtomicInv' /\ AbstractStep
<1> SUFFICES ASSUME IInv, AtomicInv, [Next]_vars
             PROVE  AtomicInv' /\ AbstractStep
    OBVIOUS
<1>1. TypeOK /\ Structure /\ TypeOK'
    BY StepInvariant DEF IInv
<1>2. CASE UNCHANGED vars
    BY <1>2, UnchangedAtomic
<1>3. ASSUME NEW s \in Statements, Submit(s)
      PROVE  AtomicInv' /\ AbstractStep
    BY <1>1, <1>3, SubmitAtomic
<1>4. CASE InsertBegin
    BY <1>1, <1>4, InsertBeginAtomic
<1>5. CASE DeleteBegin \/ UpdateBegin
    BY <1>1, <1>5, DeleteUpdateAtomic
<1>6. CASE UpdateNothing
    BY <1>1, <1>6, UpdateNothingAtomic
<1>7. CASE LogRow
    BY <1>1, <1>7, LogRowAtomic
<1>8. CASE Clear \/ Cleared
    BY <1>1, <1>8, ClearAtomic
<1>9. CASE StoreRow
    BY <1>1, <1>9, StoreRowAtomic
<1>10. CASE AllStored
    BY <1>1, <1>10, AllStoredAtomic
<1>11. CASE SkipRow \/ InsertFails
    BY <1>1, <1>11, NothingFails
<1>12. CASE CommitStatement
    BY <1>1, <1>12, CommitStatementAtomic
<1>13. CASE Start \/ Use
    BY <1>1, <1>13, OpenAtomic
<1>14. CASE RedoInsert
    BY <1>1, <1>14, RedoInsertAtomic
<1>15. CASE RedoReplace
    BY <1>1, <1>15, RedoReplaceAtomic
<1>16. CASE Recommit
    BY <1>1, <1>16, RecommitAtomic
<1>17. CASE Recovered
    BY <1>1, <1>17, RecoveredAtomic
<1>18. CASE Crash
    BY <1>1, <1>18, CrashAtomic
<1>19. CASE PowerFailure \/ WriteBack
    BY <1>19 DEF PowerFailure, WriteBack
<1> QED
    BY <1>2, <1>3, <1>4, <1>5, <1>6, <1>7, <1>8, <1>9, <1>10, <1>11, <1>12, <1>13, <1>14, <1>15,
       <1>16, <1>17, <1>18, <1>19 DEF Next, Running

\* Engine, Table and WALManager together are the atomic table of AtomicTable, through
\* any number of statements, crashes, recoveries and crashes of recoveries, as long
\* as the rows read back as they were written, crashes stay out of the windows of
\* Unsafe, and the machine does not lose power.
THEOREM AtomicRefinement ==
    AllReadBack /\ Hazards = {} /\ ~ PowerLoss => (Spec => Atomic)
<1> SUFFICES ASSUME AllReadBack, Hazards = {}, ~ PowerLoss
             PROVE  Spec => Atomic
    OBVIOUS
<1>1. Init => AtomicInv /\ Abstract!Init
    BY InitAtomic
<1>2. IInv /\ AtomicInv /\ [Next]_vars => AtomicInv' /\ [Abstract!Next]_(Abstract!vars)
    BY StepAtomic DEF AbstractStep
<1> QED
    BY <1>1, <1>2, InitInvariant, StepInvariant, PTL DEF Spec, Atomic, Abstract!Spec

================================================================================

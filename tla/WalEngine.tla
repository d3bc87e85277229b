------------------------------- MODULE WalEngine -------------------------------
(***************************************************************************)
(* Engine, Table and WALManager: one table under INSERT, DELETE and        *)
(* UPDATE, the write-ahead log they keep, and the recovery that replays    *)
(* its uncommitted entries when a database is opened.                      *)
(*                                                                         *)
(* Statements run one at a time (NetworkServer::engineMutex).  A step is   *)
(* one line written to the log, one page written or freed, or a commit, so *)
(* that a crash can fall between any two of them.  The log is written with *)
(* flush() after each line: it survives the death of the process, but only *)
(* commit() makes it survive the death of the machine.  The data file is   *)
(* never synced.                                                           *)
(*                                                                         *)
(* The rows of the table are one sequence, in the order of a full scan;    *)
(* that the pages under it are allocated and freed properly is the subject *)
(* of module Tables, and what a crash in the middle of an allocation       *)
(* leaves is an empty page.                                                *)
(***************************************************************************)
EXTENDS Integers, SequencesExt

CONSTANTS
    Row,            \* rows, as clients submit them
    Invalid,        \* those insertRow refuses: wrong columns or types
    Oversize,       \* those that fit in no page
    Unindexable,    \* those whose key std::stoi refuses
    Replay,         \* what the SQL text recovery makes of a logged row reads
                    \* back as (values are pasted into it without quotes)
    Unparsable,     \* ... or that the parser refuses it
    Statements,     \* statements clients may submit
    NoStatement,
    PageRows,       \* rows a page holds at most
    MaxStatements,  \* bound: statements submitted
    MaxCrashes,     \* bound: crashes, power failures and USE statements
    Hazards,        \* the unsafe windows in which a crash may strike
    PowerLoss,      \* may the machine fail, and lose what was not synced?
    InProcessUse    \* may a client reopen the database with USE?

ASSUME WalAssumption ==
    /\ Invalid \subseteq Row
    /\ Oversize \subseteq Row
    /\ Unindexable \subseteq Row
    /\ Unparsable \notin Row
    /\ Replay \in [Row -> Row \cup {Unparsable}]
    /\ NoStatement \notin Statements
    /\ Statements \subseteq
            [kind : {"insert"}, row : Row]
            \cup [kind : {"delete"}, cond : SUBSET Row]
            \cup [kind : {"update"}, cond : SUBSET Row, to : Row \ Invalid]
    /\ PageRows \in Nat \ {0}
    /\ MaxStatements \in Nat
    /\ MaxCrashes \in Nat
    /\ PowerLoss \in BOOLEAN
    /\ InProcessUse \in BOOLEAN

VARIABLES
    rows,       \* the rows in the data file
    stable,     \* the rows in the data file as the disk has them
    wal,        \* the lines of the log
    walStable,  \* how many of them the disk has
    walGood,    \* WALManager::file.good()
    inRecovery, \* Engine::inRecovery
    pc,         \* where the process is
    stmt,       \* the client's statement, NoStatement if none
    job,        \* which statement is executing, the client's or a replayed one
    image,      \* the rows it is to write (toKeep, newState, {row}, ...)
    done,       \* how many of them it has logged or inserted
    replay,     \* the entries recover() still has to look at
    opening,    \* "start": Engine's constructor runs recover(); "use": USE does
    submitted,  \* statements submitted, for MaxStatements
    crashes     \* crashes so far, for MaxCrashes

dataVars == <<rows, stable>>
logVars == <<wal, walStable, walGood>>
jobVars == <<job, image, done>>
boundVars == <<submitted, crashes>>
vars == <<dataVars, logVars, inRecovery, pc, stmt, jobVars, replay, opening, boundVars>>

InsertLine(r) == [type |-> "INSERT", row |-> r]
RowLine(r) == [type |-> "REPLACE_ROW", row |-> r]
BeginLine == [type |-> "REPLACE_BEGIN"]
CommitLine == [type |-> "COMMIT"]

Line == [type : {"INSERT", "REPLACE_ROW"}, row : Row] \cup {BeginLine, CommitLine}

Labels == {"down", "failed", "idle", "recover", "begin", "log", "clear", "store",
           "commit", "recommit"}

TypeOK ==
    /\ rows \in Seq(Row)
    /\ stable \in Seq(Row)
    /\ wal \in Seq(Line)
    /\ walStable \in 0 .. Len(wal)
    /\ walGood \in BOOLEAN
    /\ inRecovery \in BOOLEAN
    /\ pc \in Labels
    /\ stmt \in Statements \cup {NoStatement}
    /\ job \in {"insert", "replace"}
    /\ image \in Seq(Row)
    /\ done \in 0 .. Len(image)
    /\ replay \in Seq(Line)
    /\ opening \in {"start", "use"}
    /\ submitted \in 0 .. MaxStatements
    /\ crashes \in 0 .. MaxCrashes

Init ==
    /\ rows = <<>>
    /\ stable = <<>>
    /\ wal = <<>>
    /\ walStable = 0
    /\ walGood = FALSE
    /\ inRecovery = FALSE
    /\ pc = "down"
    /\ stmt = NoStatement
    /\ job = "insert"
    /\ image = <<>>
    /\ done = 0
    /\ replay = <<>>
    /\ opening = "start"
    /\ submitted = 0
    /\ crashes = 0

--------------------------------------------------------------------------------
(* WALManager *)

\* `file << line; file.flush()`.  A stream that is not good() writes nothing
\* and says nothing.
Log(line) ==
    /\ wal' = IF walGood THEN Append(wal, line) ELSE wal
    /\ UNCHANGED <<walStable, walGood>>

\* Mutant: commit() forgets its line.
Commit_NoLine ==
    /\ wal' = wal
    /\ walStable' = Len(wal')
    /\ walGood' = TRUE

\* commit() writes its line the same way, then closes the file, syncs it and
\* opens it again, which clears the state of the stream.
Commit ==
    /\ wal' = IF walGood THEN Append(wal, CommitLine) ELSE wal
    /\ walStable' = Len(wal')
    /\ walGood' = TRUE

\* k lines end with the last COMMIT: the entries after it are uncommitted.
CommittedPrefix(k) ==
    /\ k # 0 => wal[k] = CommitLine
    /\ \A i \in k + 1 .. Len(wal) : wal[i] # CommitLine

\* readLog() reads to the end of the file and leaves the stream that way, with
\* eofbit and failbit set.
ReadLog ==
    /\ \E k \in 0 .. Len(wal) :
        /\ CommittedPrefix(k)
        /\ replay' = SubSeq(wal, k + 1, Len(wal))
    /\ walGood' = FALSE
    /\ UNCHANGED <<wal, walStable>>

--------------------------------------------------------------------------------
(* A client's statement *)

\* Mutant: the count of its rows is not reset with them.
JobOver_CountKept ==
    /\ job' = "insert"
    /\ image' = <<>>
    /\ done' = done

\* Its locals go out of scope.
JobOver ==
    /\ job' = "insert"
    /\ image' = <<>>
    /\ done' = 0

\* Parsed, its table found, its Table object built.
Submit(s) ==
    /\ pc = "idle"
    /\ submitted < MaxStatements
    /\ submitted' = submitted + 1
    /\ stmt' = s
    /\ pc' = "begin"
    /\ UNCHANGED <<dataVars, logVars, inRecovery, jobVars, replay, opening, crashes>>

\* executeInsert logs the row before it looks at it.
InsertBegin ==
    /\ pc = "begin"
    /\ stmt # NoStatement
    /\ stmt.kind = "insert"
    /\ job' = "insert"
    /\ image' = <<stmt.row>>
    /\ done' = 0
    /\ IF inRecovery THEN UNCHANGED logVars ELSE Log(InsertLine(stmt.row))
    /\ pc' = "store"
    /\ UNCHANGED <<dataVars, inRecovery, stmt, replay, opening, boundVars>>

\* The rows DELETE keeps, in their order: those outside its condition.
Kept(s, cond) ==
    {[k \in DOMAIN at |-> s[at[k]]] :
        at \in LET I == {i \in 1 .. Len(s) : s[i] \notin cond}
               IN  {f \in [1 .. Cardinality(I) -> I] :
                        \A j, k \in 1 .. Cardinality(I) : j < k => f[j] < f[k]}}

Assigned(s, cond, to) == [i \in 1 .. Len(s) |-> IF s[i] \in cond THEN to ELSE s[i]]

\* Mutant: the rows are not logged.
AfterBeginLine_NoRows(newState) == "clear"

\* Where logReplaceBegin leads: to one logReplaceRow per row.
AfterBeginLine(newState) == IF newState = <<>> THEN "clear" ELSE "log"

\* DELETE and UPDATE compute the rows they will leave and log them all.
ReplaceBegin(newState) ==
    /\ job' = "replace"
    /\ image' = newState
    /\ done' = 0
    /\ IF inRecovery
       THEN /\ pc' = "clear"
            /\ UNCHANGED logVars
       ELSE /\ Log(BeginLine)
            /\ pc' = AfterBeginLine(newState)
    /\ UNCHANGED <<dataVars, inRecovery, stmt, replay, opening, boundVars>>

DeleteBegin ==
    /\ pc = "begin"
    /\ stmt # NoStatement
    /\ stmt.kind = "delete"
    /\ \E kept \in Kept(rows, stmt.cond) : ReplaceBegin(kept)

Matches(cond) == \E i \in 1 .. Len(rows) : rows[i] \in cond

UpdateBegin ==
    /\ pc = "begin"
    /\ stmt # NoStatement
    /\ stmt.kind = "update"
    /\ Matches(stmt.cond)
    /\ ReplaceBegin(Assigned(rows, stmt.cond, stmt.to))

\* An UPDATE that matches nothing logs nothing, changes nothing and commits.
UpdateNothing ==
    /\ pc = "begin"
    /\ stmt # NoStatement
    /\ stmt.kind = "update"
    /\ ~ Matches(stmt.cond)
    /\ job' = "replace"
    /\ pc' = "commit"
    /\ UNCHANGED <<dataVars, logVars, inRecovery, stmt, image, done, replay, opening, boundVars>>

LogRow ==
    /\ pc = "log"
    /\ Log(RowLine(image[done + 1]))
    /\ IF done + 1 = Len(image)
       THEN /\ done' = 0
            /\ pc' = "clear"
       ELSE /\ done' = done + 1
            /\ UNCHANGED pc
    /\ UNCHANGED <<dataVars, inRecovery, stmt, job, image, replay, opening, boundVars>>

--------------------------------------------------------------------------------
(* Touching the data file *)

\* clearAll() frees a page, and the rows in it are gone: the first ones left.
Clear ==
    /\ pc = "clear"
    /\ rows # <<>>
    /\ \E k \in 1 .. Len(rows) :
        /\ k <= PageRows
        /\ rows' = SubSeq(rows, k + 1, Len(rows))
    /\ UNCHANGED <<stable, logVars, inRecovery, pc, stmt, jobVars, replay, opening, boundVars>>

Cleared ==
    /\ pc = "clear"
    /\ rows = <<>>
    /\ pc' = "store"
    /\ UNCHANGED <<dataVars, logVars, inRecovery, stmt, jobVars, replay, opening, boundVars>>

\* What insertRow is given: in recovery, the row as it was parsed back.
NextRow == IF stmt = NoStatement THEN Replay[image[done + 1]] ELSE image[done + 1]

Stored(r) == r # Unparsable /\ r \notin Invalid \cup Oversize

\* executeInsert throws when insertRow fails; recovery puts back the rows of a
\* DELETE or UPDATE with INSERT statements, so there it is called for them too.
ByExecuteInsert == job = "insert" \/ stmt = NoStatement

StoreStep ==
    /\ pc = "store"
    /\ done < Len(image)
    /\ done' = done + 1
    /\ UNCHANGED <<stable, logVars, inRecovery, stmt, job, image, replay, opening, boundVars>>

\* The row goes into the data file with one page write.
StoreRow ==
    /\ StoreStep
    /\ Stored(NextRow)
    /\ ByExecuteInsert => NextRow \notin Unindexable
    /\ rows' = Append(rows, NextRow)
    /\ UNCHANGED pc

\* deleteRow and updateRow do not look at what insertRow returns, and
\* recovery goes on after text it cannot parse.
SkipRow ==
    /\ StoreStep
    /\ ~ Stored(NextRow)
    /\ job = "replace"
    /\ stmt = NoStatement => NextRow = Unparsable
    /\ UNCHANGED <<rows, pc>>

AllStored ==
    /\ pc = "store"
    /\ done = Len(image)
    /\ pc' = IF stmt = NoStatement /\ job = "replace" THEN "recommit" ELSE "commit"
    /\ UNCHANGED <<dataVars, logVars, inRecovery, stmt, jobVars, replay, opening, boundVars>>

--------------------------------------------------------------------------------
(* The end of a statement *)

\* The client has its answer, or recover() its statement executed.
CommitStatement ==
    /\ pc = "commit"
    /\ IF inRecovery THEN UNCHANGED logVars ELSE Commit
    /\ pc' = IF stmt = NoStatement THEN "recommit" ELSE "idle"
    /\ stmt' = NoStatement
    /\ JobOver
    /\ UNCHANGED <<dataVars, inRecovery, replay, opening, boundVars>>

\* insertRow refuses the row before it is stored.
Refused ==
    /\ ByExecuteInsert
    /\ ~ Stored(NextRow)
    /\ UNCHANGED rows

\* Its key is the problem, and the row is stored already.
NotIndexed ==
    /\ ByExecuteInsert
    /\ Stored(NextRow)
    /\ NextRow \in Unindexable
    /\ rows' = Append(rows, NextRow)

\* executeInsert throws when insertRow fails.
InsertFails ==
    /\ pc = "store"
    /\ done < Len(image)
    /\ NextRow # Unparsable
    /\ Refused \/ NotIndexed
    /\ stmt' = NoStatement
    /\ replay' = <<>>
    /\ JobOver
    \* To the client; to the client of USE; or out of main().
    /\ pc' = IF stmt # NoStatement \/ opening = "use" THEN "idle" ELSE "failed"
    /\ UNCHANGED <<stable, logVars, inRecovery, opening, boundVars>>

--------------------------------------------------------------------------------
(* Opening the database: WALManager::recover *)

\* The process starts on this database, or on another one and a client USEs
\* this one.
Start ==
    /\ pc = "down"
    /\ ReadLog
    /\ opening' \in {"start"} \cup (IF InProcessUse THEN {"use"} ELSE {})
    /\ pc' = "recover"
    /\ UNCHANGED <<dataVars, inRecovery, stmt, jobVars, boundVars>>

\* USE of the database that is open already: the same in the same process,
\* which keeps Engine::inRecovery.
Use ==
    /\ InProcessUse
    /\ pc = "idle"
    /\ crashes < MaxCrashes
    /\ crashes' = crashes + 1
    /\ ReadLog
    /\ opening' = "use"
    /\ pc' = "recover"
    /\ UNCHANGED <<dataVars, inRecovery, stmt, jobVars, submitted>>

\* An INSERT entry is executed like a client's statement, log and commit
\* included; text that does not parse is skipped.
RedoInsert ==
    /\ pc = "recover"
    /\ replay # <<>>
    /\ Head(replay).type = "INSERT"
    /\ replay' = Tail(replay)
    /\ job' = "insert"
    /\ image' = <<Head(replay).row>>
    /\ LET r == Replay[Head(replay).row]
       IN  IF r = Unparsable
           THEN /\ done' = 1
                /\ pc' = "recommit"
                /\ UNCHANGED logVars
           ELSE /\ done' = 0
                /\ pc' = "store"
                /\ IF inRecovery THEN UNCHANGED logVars ELSE Log(InsertLine(r))
    /\ UNCHANGED <<dataVars, inRecovery, stmt, opening, boundVars>>

\* Mutant: recover() goes back one entry too far.
After_OneBack(n) == SubSeq(replay, n, Len(replay))

\* The entries after the first n of them.
After(n) == SubSeq(replay, n + 1, Len(replay))

\* A REPLACE_BEGIN entry and the REPLACE_ROW entries after it: DELETE FROM the
\* table, then one INSERT per row, with logging off.
RedoReplace ==
    /\ pc = "recover"
    /\ replay # <<>>
    /\ Head(replay) = BeginLine
    /\ \E n \in 1 .. Len(replay) :
        /\ \A i \in 2 .. n : replay[i].type = "REPLACE_ROW"
        /\ n < Len(replay) => replay[n + 1].type # "REPLACE_ROW"
        /\ image' = [i \in 1 .. n - 1 |-> replay[i + 1].row]
        /\ replay' = After(n)
    /\ inRecovery' = TRUE
    /\ job' = "replace"
    /\ done' = 0
    /\ pc' = "clear"
    /\ UNCHANGED <<dataVars, logVars, stmt, opening, boundVars>>

\* recover() commits after each entry it has replayed.
Recommit ==
    /\ pc = "recommit"
    /\ Commit
    /\ inRecovery' = IF job = "replace" THEN FALSE ELSE inRecovery
    /\ JobOver
    /\ pc' = "recover"
    /\ UNCHANGED <<dataVars, stmt, replay, opening, boundVars>>

Recovered ==
    /\ pc = "recover"
    /\ replay = <<>>
    /\ pc' = "idle"
    /\ UNCHANGED <<dataVars, logVars, inRecovery, stmt, jobVars, replay, opening, boundVars>>

--------------------------------------------------------------------------------
(* Crashes *)

Replacing == job = "replace" /\ stmt # NoStatement

Uncommitted == wal # <<>> /\ Last(wal) # CommitLine

\* The windows in which a crash breaks the promise of AtomicTable.
Unsafe(window) ==
    CASE window = "partialLog" -> pc = "log" /\ walGood
      [] window = "unlogged" ->
            Replacing /\ pc \in {"clear", "store"} /\ (~ walGood \/ inRecovery)
      [] window = "stored" ->
            job = "insert" /\ (done = 1 \/ pc = "recommit") /\ Uncommitted
      [] window = "relogged" ->
            job = "insert" /\ stmt = NoStatement /\ pc = "store" /\ walGood

Windows == {"partialLog", "unlogged", "stored", "relogged"}

CrashPoint == \A w \in Windows : Unsafe(w) => w \in Hazards

Stopped ==
    /\ pc # "down"
    /\ CrashPoint
    /\ crashes < MaxCrashes
    /\ crashes' = crashes + 1
    /\ pc' = "down"
    /\ stmt' = NoStatement
    /\ replay' = <<>>
    /\ JobOver
    /\ inRecovery' = FALSE
    /\ walGood' = FALSE
    /\ UNCHANGED <<opening, submitted>>

\* The process dies; what it gave to the operating system is written.
Crash == Stopped /\ UNCHANGED <<dataVars, wal, walStable>>

\* The machine fails: the data file is what the disk has of it, and so is the
\* log, of which the system may have written more than it was asked to.
PowerFailure ==
    /\ PowerLoss
    /\ Stopped
    /\ rows' = stable
    /\ \E k \in walStable .. Len(wal) :
        /\ wal' = SubSeq(wal, 1, k)
        /\ walStable' = k
    /\ UNCHANGED stable

\* The operating system gets round to writing the data file.
WriteBack ==
    /\ PowerLoss
    /\ stable # rows
    /\ stable' = rows
    /\ UNCHANGED <<rows, logVars, inRecovery, pc, stmt, jobVars, replay, opening, boundVars>>

--------------------------------------------------------------------------------

Running ==
    \/ InsertBegin \/ DeleteBegin \/ UpdateBegin \/ UpdateNothing \/ LogRow
    \/ Clear \/ Cleared \/ StoreRow \/ SkipRow \/ AllStored
    \/ CommitStatement \/ InsertFails
    \/ Start \/ RedoInsert \/ RedoReplace \/ Recommit \/ Recovered

Next ==
    \/ Running
    \/ \E s \in Statements : Submit(s)
    \/ Use \/ Crash \/ PowerFailure \/ WriteBack

Spec == Init /\ [][Next]_vars

--------------------------------------------------------------------------------
(* Safety *)

\* The log ends with a REPLACE_BEGIN and the first n rows of image.
ImageLogged(n) ==
    LET begin == Len(wal) - n
    IN  /\ begin >= 1
        /\ wal[begin] = BeginLine
        /\ \A i \in 1 .. n : wal[begin + i] = RowLine(image[i])

\* What the statement is about to do is in the log, after the last COMMIT.
Logged ==
    IF job = "insert"
    THEN wal # <<>> /\ Last(wal) = InsertLine(image[1])
    ELSE ImageLogged(Len(image))

TouchingData == stmt # NoStatement /\ pc \in {"clear", "store"}

\* Write-ahead: while a client's statement touches the data file, the log has
\* the row it inserts, or all the rows it leaves, and no COMMIT after them.
\* This is what README.md promises of every INSERT, UPDATE and DELETE.
WriteAhead == TouchingData => Logged

\* The same when the log can be written to at all: the stream is good() and
\* the engine does not believe it is recovering.  It holds of every order of
\* statements, crashes and recoveries, because every step that logs is taken
\* before the first that clears or stores.
WriteAheadWhenLogging == walGood /\ ~ inRecovery => WriteAhead

\* Lines with no REPLACE_BEGIN after the k-th.
LastBegin(lines, k) ==
    /\ k # 0 => lines[k] = BeginLine
    /\ \A i \in k + 1 .. Len(lines) : lines[i] # BeginLine

\* Each line after the k-th adds its row; a REPLACE_BEGIN drops those before it.
RowsAfter(base, lines, k) ==
    (IF k = 0 THEN base ELSE <<>>) \o [i \in 1 .. Len(lines) - k |-> lines[k + i].row]

\* The rows the entries of a log leave when they are replayed in order.
Redone(base, lines) ==
    LET k == CHOOSE k \in 0 .. Len(lines) : LastBegin(lines, k)
    IN  RowsAfter(base, lines, k)

UncommittedLines ==
    LET k == CHOOSE k \in 0 .. Len(wal) : CommittedPrefix(k)
    IN  SubSeq(wal, k + 1, Len(wal))

\* Rows that can be put back as they were.
ReadBack(lines) ==
    \A i \in 1 .. Len(lines) :
        lines[i] # BeginLine =>
            /\ Stored(lines[i].row) /\ lines[i].row \notin Unindexable
            /\ Replay[lines[i].row] = lines[i].row

\* Between statements, closing and opening the database again changes nothing,
\* unless a row in the log does not read back as it was: whatever recover()
\* still finds uncommitted (a REPLACE it has already replayed, whose COMMIT the
\* stream swallowed) leaves the rows as they are.
ReopenChangesNothing ==
    pc = "idle" /\ ReadBack(UncommittedLines)
        => ToBag(Redone(rows, UncommittedLines)) = ToBag(rows)

--------------------------------------------------------------------------------
(* Liveness *)

\* A process that is started ends up serving clients: recovery terminates,
\* also when it is interrupted and finds its own entries in the log.
EventuallyUp == pc = "down" ~> pc = "idle"

================================================================================

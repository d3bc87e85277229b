# NexDB: specifications, model checking and proofs

NexDB is a small SQL database engine with a TCP server and a raylib GUI in one
process. This directory holds TLA+ modules of its storage, its databases, its
log and recovery, its index, its SQL and its server, the TLC configurations that
check them, and proofs that TLAPS checks. Paths below are relative to `src/`.

## 1. The system

### Components, their state and operations

| Component | State | Operations | Module |
|---|---|---|---|
| `Storage/Page`, `Storage/StorageFile` | the file of pages, `totalPages`, `freeList`; each page has the id of its table, 0 when free | allocate, free, read, write, free all pages of a table, scan on open | `StorageFile` |
| `Storage/PageManager`, `Storage/LRUCache` | the page ids of one table, a write-through LRU cache; `insert_mutex`, `cache_mutex` | insert a row, read all, clear | `PageManager` |
| `Catalog` | names, ids, next id, the `.cat` file | create, drop, id of a name, load, save | `Tables`, `Databases` |
| `Table` | a `PageManager` and an index, built for one statement | insert, select, delete, update, rebuild the index | `Tables`, `WalEngine`, `BPlusTree`, `Select` |
| `WALManager` | the log file and the state of its stream | log lines, commit, read, recover | `WalEngine` |
| `Engine` | the three managers, the current path, `inRecovery`, `lastColumns`, `pendingSwitch` | one function per statement, `query`, create, drop, open and switch a database | `WalEngine`, `Tables`, `Databases`, `Select`, `NetworkServer` |
| `Indexing/BPlusTree` | nodes with parent pointers | insert with splits, search, clear | `BPlusTree` |
| `Networking/NetworkServer` | acceptor, `io_context`, thread pool, `rateLimitMap`; `engineMutex`, `rateLimitMutex` | prepare, run, stop; accept, handshake, read, execute, write | `NetworkServer` |
| `GUI` | the thread that runs the server, the panels | start and stop the server, execute a statement | `NetworkServer`, `Tables` |
| `Frontend` (lexer, parser), `AST` | none kept | SQL text to tokens to a statement | `Sql` |
| `StringUtils` | none kept | encode, decode and split the values of a row | `SqlText` |
| `main` | none kept | open the database and start | `WalEngine`, `Databases` |
| `Config`, `picosha2.h` | none kept | read the configuration, hash | not modelled |

### How they interact

* A network client's line is executed by a pool thread that holds
  `engineMutex` for the whole of `Engine::query` and until the answer is
  formatted. The GUI thread calls `Engine::query` **without** that mutex
  (`GUI/GUI.cpp:142`).
* Each statement looks its table up in `Catalog`, builds a `Table` on the
  shared `StorageFile` (a private list of page ids, a private cache and a
  private index) and throws it away at the end.
* `INSERT`, `DELETE` and `UPDATE` write lines to the log, then change pages,
  then write `COMMIT` and sync the log. Opening a database reads the log and
  replays what follows the last `COMMIT` by calling the engine again.
* The handshake blocks the pool thread it runs on; everything else on a
  connection is an asynchronous handler that any thread of the pool may run.

### What is hard, and what makes each part correct

* **Crash and recovery** (`WalEngine`): a statement takes effect entirely or
  not at all; recovery loses, doubles and resurrects nothing; it terminates
  when it is itself interrupted; what a statement will do is in the log before
  it touches a page.
* **Databases** (`Databases`): the three managers of the engine are always of one
  database; a database whose files fail half way can still be dropped; a new
  table finds no rows of an old one.
* **Text** (`Sql`, `SqlText`, `Select`): a statement means what was written, a
  mistyped one is refused, a value survives being quoted, logged, stored and
  replayed, and SELECT and DELETE agree on what a condition matches.
* **Ownership of pages** (`Tables`, `StorageFile`): each page has one owner or
  is on the free list once; a dropped table leaves nothing to a later one that
  gets its id; a statement changes pages of its own table only.
* **Cache coherence** (`PageManager`): the cache is the file; an acknowledged
  row is not overwritten from an older copy; the cache's list is not changed by
  two threads at once.
* **The index** (`BPlusTree`): splits keep every record once, parent pointers
  right and every leaf equally deep, so that what was inserted is found.
* **The server** (`NetworkServer`): answers come in order and belong to their
  requests, bans count exactly, every connection is attended to, and neither a
  client that disappears nor a restart breaks any of it.

Every hazard, with its line and the properties on it, is in `PROJECT.json`.

## 2. The modules

### `StorageFile` and `Tables`

`StorageFile` has the file (`disk`, `totalPages`) and the free list. Every
member function holds `fileMutex` throughout, so each is one operator:
`AllocatePage`, `FreePage`, `WritePage`, `Reopen` (what the constructor's scan
finds after a restart). A page is its tag and its rows; the offsets of the
header are abstracted to a number of rows that fit.

`Tables` adds the catalog and threads that run `CREATE`, `DROP`, `INSERT` and
rewriting statements (`DELETE`, `UPDATE`). A statement is a sequence of steps,
one per call of `Catalog` or `StorageFile`. The threads in `outside` do not hold
the engine mutex, as the GUI's does not; `Outsiders` is the sets of threads that
`Init` chooses from. The properties that need the mutex say so (`Serialized`). `Restart` may happen between any two steps;
`TornSave` lets it also fall between the truncation of the catalog file and the
write of its contents. `pages` and `view` are the `PageManager` of the
statement's `Table`.

### `Databases`

`files` has which of its three files (`.db`, `.cat`, `.wal`) each database has;
the engine has a catalog, a storage and a log, each by the database it was opened
for, or none. A step is one file created, removed or opened, so the process may
stop between any two, and up to `MaxFaults` of them fail (`OpenStorageFails`,
`RemoveFails`, a `Save` that cannot open its file). `FileOf` leads from a name to
its file: on Windows `mydb` and `MyDB` are one, and the engine compares names
without case (`IsCurrent`). Of the pages only the ids of their tables are kept,
and of a log only whether opening it throws (`poisoned`). `spoiled` are the
databases whose pages a fault has parted from their catalog.

### `Sql`, `Select` and `SqlText`

`Sql` and `Select` are operators. A text is a sequence of characters, and a
keyword counts as one letter. `Sql` has the lexer (`Lexeme`, `Tokenize`), the
parser as a table of which token leads from which place in a statement to which
other (`Rules`, `Consume`), `walEncode`, `walDecode` and `split`, the form of a
row on its page and in the log, and the statement that recovery pastes together
from a logged row (`Replayed`). `Select` has the types, the comparison of a
condition, the two ways of `selectRow` (index and full scan), the projection, and
what DELETE and UPDATE make of the rows. Operators return the set of possible
results, since the index returns any one row of a key. The condition of an
UPDATE without WHERE is never initialised, so `UpdateTargets` leaves open which
rows it selects.

`SqlText` takes a statement that a client means, writes it by the rules of the
protocol (`Text`), tokenizes it, and lets tokens be lost, added or replaced
(`Typo`); its properties speak of whatever `Parse` then accepts.

`MCWal` takes from `Select` what its rows read back as: its assumption
`RowsAreTheirTexts` compares the constants of `WalEngine` (`Replay`, the invalid
and the unindexable rows) with what the lexer, the parser and the types make of a
text of each row. TLC evaluates it in every run of the log.

### `PageManager`

Several threads on one `PageManager`, as `tests/test_pagemanager.cpp` uses it.
A step is one access to the cache or one to the file, since no mutex covers
both; `LRUCache::get` is two steps because its lock is shared. `Joined` says
whether callers, as those tests do, read and clear only when no other call
runs. `acked` (what was returned to callers), `owed` and `seen` only serve the
properties.

### `AtomicTable`, `WalEngine` and `WalRefinement`

`AtomicTable` is the promise: a bag of rows that only statements change, each
at one instant. `WalEngine` is the code: a step is a line of the log, a page
written or freed, or a commit. `walGood` is the state of the log's stream:
`readLog` leaves it at end of file with `failbit` set, so nothing written
reaches the file until `commit()` opens it again. `walStable` and `stable` are
what a failure of the machine leaves. `Replay` is what the SQL text that
recovery pastes together from a logged row reads back as.

`WalRefinement` maps one onto the other: the abstract content is what the rows
will be when the statement in progress, or the recovery of what the log has of
it, is through. `Atomic` is the property that every behaviour of `WalEngine` is
one of `AtomicTable`.

A crash does not keep the promise in four windows, named by `Unsafe`:
`partialLog` (some of the `REPLACE_ROW` lines are logged), `unlogged` (a table
is rewritten with nothing in the log), `stored` (a row is written and its
`COMMIT` is not) and `relogged` (recovery logs the INSERT it replays). `Hazards`
says in which of them a run lets a crash fall. `AtomicWhenCalm`, in the run `wal`,
keeps out of all four and holds; `wal_crash_stored` opens one and shows what it costs.

### `BPlusTree`

Nodes are numbered in the order they are made; a number stands for a pointer.
The recursion of `splitLeaf` and `splitInternal` is one step per node split, and
the properties speak of the tree when it is through. A record names its row
instead of the page and offset that lead to it. How `Table` turns the text of a
value into a key is not part of it. `search` goes to one leaf only, and the
rows of a key may lie in several: `SearchFinds` says that a key with rows is
found, not which of its rows is.

### `NetworkServer`

Threads take one ready handler at a time; `pool` is the threads there are, which
`Init` chooses. `armed` counts the accepts
outstanding on the open acceptor, `queue` has the accept handlers that are
ready, also across a stop. `at` and `serves` say where the handler of a thread
is: `greet` (banner), `check` (ban), `await` (the blocking read), `tell` (the
verdict), `rearm` (`acceptConnections` again), `query` and `answer`
(`executeQuery`, under `engineMutex`). `link` is where a connection is.
`columns` and `pending` stand for `Engine::lastColumns` and `pendingSwitch` by
whose statement set them; each answer records whose data it shows. Asio and the
clients are external and modelled from how this code uses them.

The `MC*` modules name model values, sets of statements and symmetries.
`MCWalBoth` and `MCServerBoth` put a module into one of two surroundings, which
`Init` chooses and no step changes; they list the module's actions one by one, with
what the surroundings add to the guard of three or four of them.

## 3. What is checked

### Runs that pass

| Run | Question | Bounds, and why they are enough |
|---|---|---|
| `tables` | Does each page have one owner, is none lost, is a new table empty, does only DROP remove one; and with the GUI's statements outside the mutex, does the catalog survive? | two tables, two threads, three pages of two rows, ids to 3: two tables compete for the last page, ids run out and are given again after a restart. With a thread outside the mutex, a constraint: one page, since the free list grows without limit when pages are freed twice |
| `databases` | Are the engine's files always of one database, do open files stay, can a database be dropped, is a new table empty? | two databases, one with two spellings, two table ids, up to two files that cannot be used, a crash between any two calls |
| `text` | Does the parser understand what was written and nothing else, do values survive, do SELECT, DELETE and UPDATE agree? | nine kinds of statement, every value of one or two characters of an alphabet of special ones, one mistyped token, tables of up to two rows |
| `pages` | Inserts of three threads, then reads and clears: is a row lost, a location given twice, the cache stale, a row not read back? | six calls, three pages of two rows, a cache of two: inserts fill pages, evict and allocate, and cleared pages are used again |
| `wal` | Calm (`calm`, in `MCWalBoth`): outside the four windows, does the engine implement the atomic table (`AtomicWhenCalm`), and does a process that is started come up (`UpWhenCalm`)? Hostile: with rows that fail, fit in no page or read back differently, and crashes of the process and of the machine anywhere: is the log ahead of the data, and does opening the database between statements leave it alone? The last two are checked in both. | three crashes, so that recovery is interrupted twice; calm: four statements on two rows; hostile: three statements on seven kinds of row |
| `index` | Order 2: is every row once in the tree, is it found, are parents and depths right? | five keys, nine rows: the root splits twice as an internal node |
| `server` | Are answers in order and one's own, with clients that pipeline, leave and return, or with a GUI that executes statements, and with a restart? Does no address fail more often than its limit allows? | two clients of one remote address, limit 1, one or two threads, two requests, one stop and start, any number of reconnections and bans. Clients leave or the GUI executes statements, not both in one behaviour (`MCServerBoth`): the two together have four million states and pass as well. A local client, which is let in without a challenge, is in `server_silent`; the theorems cover both |

### Runs that disagree with a document, a comment or a test

Each checks one property that the repository states, and TLC finds a behaviour
of the code that violates it. `PROJECT.json` quotes the statement.

| Run | What happens |
|---|---|
| `pages_readers` | two threads that read the table are in `LRUCache::get` at once, under a shared lock: both move an entry of its list. `README.md:478` offers "multiple concurrent readers", `:466` a "thread-safe LRU cache" |
| `wal_first_unlogged` | the first statement after a start or a USE is not logged: `readLog` left the stream at end of file |
| `wal_crash_stored` | a crash between the page of an INSERT and its `COMMIT`: recovery inserts the row a second time |
| `server_silent` | a client that does not answer the challenge holds its thread for ever and, since the accept is started again only after it, keeps out a local client too: the read that the comment at `Networking/NetworkServer.cpp:134` calls "synchronous, with 5s timeout via deadline" has no deadline. The threads are fair, the clients are not |
| `text_recovered` | a value that the log keeps does not come back: `recover` pastes it into SQL without quotes, and `x~` is read as `x`. `README.md:134` says that recovery "can always restore the correct final state" and that the encoding handles "any delimiter characters" |

### What other values of the constants show

The passing runs say what holds while certain things do not happen. The modules
contain these things too, and each of the following can be watched by changing
one constant.

* `Tables`, `TornSave = TRUE`: a crash during `Catalog::save` loses tables that
  nobody dropped (`OnlyDropRemoves`).
* `PageManager`, `Joined = FALSE`: besides the readers of `pages_readers`, a reader
  caches a page as it was before an insert, and the next insert writes it out
  (`CacheIsFile`, `AckedStays`). The tests of the repository join the inserting
  threads before they read, which is what `Joined = TRUE` says; the engine has one
  thread per `PageManager`.
* `Tables`, the run `tables` with `TouchesOwnPages`: a statement of a thread outside
  `engineMutex`, as the GUI's is (`GUI/GUI.cpp:142`), and one of the pool's free or
  overwrite each other's pages.
* `WalEngine`, `Hazards` with `partialLog`, `unlogged` or `relogged`: a crash
  there loses or doubles rows (`Atomic`); so does a failure of the machine,
  since the data file is never synced.
* `WalEngine` with the hostile rows of `wal` violates `Atomic` without a crash:
  an UPDATE to a row longer than a page loses it and answers ok; an INSERT whose
  key is beyond `int` is answered with an error and its row is there; a refused
  INSERT stays in the log and the next start throws; and a value with a space
  does not come back from recovery. For the last reason
  `ReopenChangesNothing` is stated for a log whose uncommitted lines read back
  (`ReadBack`).
* `Databases`: two properties state their exceptions, and fail without them. After
  a USE that failed between the managers, DROP DATABASE and CREATE TABLE leave a
  `.cat` of a database that is not there (`Droppable`); and after a DROP DATABASE
  that stopped at the `.db`, CREATE DATABASE keeps the pages of the old one and a
  new table finds rows in them (`PagesHaveTables`, which exempts `spoiled`).
* `NetworkServer`, `GuiQueries`: a statement of the GUI changes a network client's
  answer, even without overlapping it: a `USE` typed in the GUI is answered to the
  next client. `OwnAnswer` therefore allows the GUI's columns where the GUI executes
  statements, and never another client's.
* `NetworkServer`: `AtMostMaxFailures` allows one failure beyond the limit for
  each stop, and needs it: a stop during a handshake and a start leave two
  accepts outstanding, so two handshakes of one address pass the check together.
* `NetworkServer`, `ResponsiveSpec` instead of `FairSpec`, which makes every client
  answer the challenge: `Attended` holds, also with two clients of one address, two
  requests, a stop and a start. With `Leaving = TRUE` it does not: an exception in a
  handler ends the thread's `run()`, the accepts or the process.

`CHECK_DEADLOCK FALSE` is set where the system may stop: in `WalEngine`, where
the statements and crashes of the bound run out, in `NetworkServer`, where the
process may have ended, and in `SqlText`, where a statement has had its typos.
`PageManager` has an explicit step for the end of the calls.

### Where the code and its documents differ without a run of their own

* The lexer skips every character it does not know, `-` among them
  (`Frontend/Lexer/Lexer.cpp:158`): `-0.5`, which `README.md:125` gives as an
  example of a FLOAT, is stored as `0.5` unless it is quoted.
* `README.md:415` says that any column can store `NULL`. `validateValueForType`
  refuses it in a column of any type but STRING.
* `docs/CLIENT_PROTOCOL.md:335` says that `WHERE id = 007` does not match a stored
  `7`. SELECT by the index finds it, as it finds `5` for `WHERE id = 5.5`; DELETE
  and UPDATE with the same condition do not. `SelectShowsWhatDeleteRemoves` is
  stated for keys written the way they print.
* The columns named in an INSERT are counted and otherwise ignored.
* Which operator a condition has is not checked when it is parsed: `==` and `!`
  are accepted and match nothing.
* `docs/CLIENT_PROTOCOL.md:140` says that "Pipelining technically works (the read
  buffer keeps whatever arrived early)". The buffer is a new one for each read
  (`Networking/NetworkServer.cpp:273`) and for the handshake (`:135`), so lines that
  arrive together with another are dropped with it (`Read`, `AwaitReply`) and never
  answered. That the responses "come back in order", it says too, and that is
  `AnswersInOrder`: it speaks of the answers there are, and does not see the lines
  that are lost.
* `README.md:131` says that "engine access is serialized internally via a mutex";
  `GUI/GUI.cpp:142` does not take it. `TouchesOwnPages` shows what this costs (above),
  and the run `tables` what it does not: ids stay distinct and no table is lost.

Each property of a passing run has a mutant of the code it depends on, defined
next to the original, under which TLC finds it violated.

### Fairness

* `WalEngine` (`wal`): weak fairness of `Running` (`RunningBoth`), the steps of a process that
  is up and its start. The process is sequential, so it goes on while it can;
  crashes and clients are not fair.
* `NetworkServer` (`server_silent`): weak fairness of the steps of each thread, of
  accepting, and of the handlers of each connection. The pool blocks in
  `io_context::run` until something is ready and then runs it. After a stop, the GUI
  joins the threads before anything else, hence fairness of `Stopped`; an accept
  handler left over from before the stop is run like any other, hence of
  `StaleAccept`. No fairness is assumed of the operator's stop, of the end of bans,
  of requests or of replies: nothing in the code makes a client answer, and the run
  shows what follows. `ResponsiveSpec` adds it.

## 4. What is proved

### `WalEngine_proofs`

`WalEngine_proofs` proves, for every set of rows, statements, windows and
bounds that satisfies `WalAssumption`:

* `TypeCorrect`: `Spec => []TypeOK`. This says among other things that never
  more of the log is synced than was written.
* `LogsBeforeTouching`: `Spec => []WriteAheadWhenLogging`. Whenever the log can
  be written to, what a statement is about to do is in it before the first page
  is freed or written. It is the property the whole design of the log rests on,
  and it has to hold through crashes, power failures, USE and nested recovery.

`WriteAheadWhenLogging` is not inductive. It only speaks of the steps that touch
the data file, and says nothing of the lines that led there. The invariant is

    IInv == TypeOK /\ Structure /\ LoggingSoFar /\ WriteAheadWhenLogging

`LoggingSoFar` says that while a DELETE or UPDATE is logging, the log ends with
its `REPLACE_BEGIN` and as many rows as `done` counts, so the last `LogRow` step
establishes `Logged`. `Structure` says what each program counter implies about
`job`, `stmt`, `image` and `done`: without it, `image[1]` of an INSERT need not
exist, and a step of recovery could pass for a step of a client.
`InitInvariant` and `StepInvariant` are the two halves; the latter has one lemma
per action, over lemmas on what each helper (`Log`, `Commit`, `ReadLog`,
`JobOver`) leaves of the log.

* `ReopenLeavesRows`: `Spec => []ReopenChangesNothing`. Closing a database between
  statements and opening it again leaves its rows, also when recovery left lines
  uncommitted. It can: `readLog` leaves the stream with failbit set, so the COMMIT
  of the first entry that is replayed is dropped, and the entry is there again at
  the next opening.

Why this is harmless is decided in `recover()`, in states the property does not
speak of. `ReopenInv` says what is uncommitted there: nothing, or something that
does not read back (`Settled`); all that is to be replayed (`Fresh`); an INSERT,
whose second commit is not dropped (`FirstInsert`); a DELETE or UPDATE with one
commit, which stays, with the rows it leaves (`FirstReplace`, `FirstReplaced`); or
the stream is good again and the next commit covers all (`Later`). Served clients
then find nothing, or the lines of exactly the rows there are (`AsReplayed`), and
replaying these gives the rows. An INSERT that fails throws out of `recover()`; it
fails on a row that does not read back, which is in the log by then. `StepReopen`
has a lemma per kind of step, over lemmas on where the last COMMIT of a log is
(`LogEnds`, `RestIs`). `Redone` names the last REPLACE_BEGIN instead of folding over
the lines, so that no induction is needed; `RedoneLineByLine` in `MCWal` has TLC
compare it with the fold.

* `AtomicRefinement`: `AllReadBack /\ Hazards = {} /\ ~ PowerLoss => (Spec => Atomic)`.
  `WalEngine` implements `AtomicTable`, the refinement the run `wal` checks
  (`AtomicWhenCalm`) on two rows, four statements and three crashes, for any rows, statements and page size and any
  number of crashes, also while recovery runs.

The hypotheses hold of the calm surroundings of that run, and each is needed. `Hazards = {}`
keeps crashes out of the windows of `Unsafe`, and `~ PowerLoss` leaves the machine its
power: section 3 has what the engine loses otherwise. `AllReadBack` says that every row
in use is valid, fits in a page, has a key and comes back from the log as it was.
With the hostile rows, `Atomic` fails without a crash; and a refused row that
stays in the log makes recovery throw before it reaches the entries after it.

`AtomicInv` is the invariant. It names nine things the engine can be doing (`IsDown`,
`IsServing`, `IsLogging`, `IsReplacing`, `IsUnchanged`, `IsInserting`, `IsRecovering`,
`IsRedoingReplace`, `IsRedoingInsert`) and says of each what is uncommitted in the log.
The crux is `Crashed`: a crash leaves at most the entry of the statement it interrupted,
after the lines of at most one DELETE or UPDATE whose COMMIT the stream swallowed. Two
INSERTs are never uncommitted together when a crash outside `Unsafe` strikes, and of
two DELETEs or UPDATEs the first does not matter, since replaying the second drops all
rows before it (`RedoneEntry`, `RedoneReplaceLast`). `ContentInPhase` gives the abstract
content in each phase, `SurvivesCrash` says that what a crash finds in the log puts
exactly that content back, and `StepAtomic` has a lemma per action: one step of each
statement is `Apply` (`Applies`), its answer is `Succeed`, and all steps of recovery
are stutters.

What the statements make of rows is compared with what `Effect` makes of bags by
`InsertBag`, `DeleteBag` and `UpdateBag`. They count places, not copies: a bijection
between sets of places (`SameSize`, `CopiesOf`) replaces an induction over the
sequence. `AtomicTable` states its operators on bags as functions to counts for the
same reason.

### `Databases_proofs`

For any names, files, spellings and tables that satisfy `DatabasesAssumption`, and
any number of crashes and failing files: `TypeCorrect`, and every property the run
`databases` checks, which are `NeverMixed` (`OneDatabase`), `NeverRemovedWhileOpen`
(`OpenFilesStay`), `TablesOwnTheirPages` (`PagesHaveTables`) and `StaysDroppable`
(`Droppable`).

`OneDatabase` is not inductive, because its managers are built one by one, and
`PagesHaveTables` compares pages with one catalog where statements change two. The
invariant adds `Progress` (which managers there are at each step of a start or a
USE), `Halfway` (which files CREATE and DROP DATABASE have left at each step) and
`Contents` (pages, catalog file and catalog in memory agree where no fault has
parted them). That a DROP never takes an open file (`DroppedIsNotOpen`) is where
the assumption on spellings is used: two names of one file differ in their case
only. `Droppable` is a property of steps; `StrandsOnly` derives it from the
invariant, `Halfway` for DROP and `OpenFilesStay` for all that adds a file.

### `Tables_proofs`

For any number of threads, with or without `engineMutex`: `TypesKept` (`TypeOK`) and
`IdsStayDistinct` (`DistinctIds`), also through crashes that lose the catalog file;
and `RemovedByDrop` (`OnlyDropRemoves`), if no crash does (`TornSave` is `FALSE`).
The invariant adds that the file has distinct ids too, and is the catalog in
memory whenever no thread is in `Catalog::save` (`FileIsCatalog`): a restart makes
the one out of the other.

As long as every statement holds `engineMutex` (`Serialized`, the antecedent of the
properties themselves): `FreePagesStayKnown` (`FreePagesKnown`) and `OnlyOwnPages`
(`SerializedOwnPages`), through torn catalogs too; and where no crash tears the
catalog, `NoPageOrphaned` (`NoOrphanPage`) and `FreshTablesEmpty`
(`FreshTableEmpty`). None of them is inductive: what a statement does to a page was
decided steps earlier, when it listed its pages. `SerializedPages` says of the one
thread in a statement that each page it has listed is once in its list, carries the
id it looked up and is cached with that tag, and that what is beyond the end of the
file is blank. `SerializedCatalog` adds that the id it looked up is still the id of
its table, and that a DROP has every page that it has still to free in its list.

`LargestOf` has the lemma on the largest id of a catalog, `StorageFile_proofs` those on
`AllocatePage`, `FreePage`, `WritePage` and `Reopen`.

### `PageManager_proofs`

For any number of threads, pages, calls and any capacity of the cache: `TypesKept`
(`TypeOK`), however calls overlap. For callers that let only inserts overlap
(`Joined`, see section 2), every other property of the run `pages`:
`RowsStayPut` (`AckedStays`), `CacheMatchesFile` (`CacheIsFile`), `NoRowMissed`
(`ReadsAcked`) and the action property `LocationsNew` (`NewLocation`). There is no
theorem on `NoDataRaces`: callers that overlap reads break it (`pages_readers`), and
for callers that do not it says nothing.

That an acknowledged row is not overwritten rests on what the insert has in hand,
which was read steps before it is written. With `insert_mutex` one thread at most
is in a call (`OneCall`), and the invariant follows its copy: it is what the file
has, or that and its row (`PageInHand`); the cache has what the file has but for the
page being written (`CacheInv`); a row owed to a read is among those it has seen, on
the page in hand, or on a page still to visit (`ReadInv`). That no other insert takes the page
needs the list and the free list apart (`InUseList`), and that a new location has no
row needs the pages the allocator may return to have none (`FileInv`). The
assumption `MaxPages > 0` is the file's: a page id is a natural number.

### `NetworkServer_proofs`

For any threads, clients, addresses, requests and stops, with clients that pipeline,
leave and come back, handlers that throw and accepts left over from before a stop:

* `TypesKept` (`TypeOK`). The part that is not about types, a handler executes for
  each connection that waits for an answer and for no other, needs `Places`: a
  connection is with one handler, in the queue of ready accepts or in the backlog,
  and in no two of them.
* `AnswersKeepOrder` (`AnswersInOrder`). `OrderInv` puts three things in one order:
  the requests answered, the one a thread executes and the lines that wait.
* `AnswersOwn` (`OwnAnswer`), with a GUI that executes statements or none. `OwnInv`
  says that one thread at most is between `query` and `getLastColumns`, and that
  `lastColumns` and `pendingSwitch` are then of the connection it serves, or of the
  GUI.
* `FailuresBounded` (`AtMostMaxFailures`). The check of the ban and the count of the
  failure are apart, so the limit alone is not inductive. `LimitInv` counts the
  failures of an address together with the challenges open to it; how many there can be is
  `ChainsInv`, a bound on accepts outstanding, accepts ready and handshakes in
  progress by the number of stops, since a handler starts the accept again only at its
  end.

### `BPlusTree_proofs`

For every order from 2 on (`Table` uses 4), any integers as keys and any number of
rows: all six properties of the run `index`, which are `TreeTyped` (`TypeOK`),
`ParentsKnowTheirChildren` (`ParentsAgree`), `TreeIsBalanced` (`Balanced`),
`LeavesAreSorted` (`LeavesSorted`), `NoRowLostOrDoubled` (`EachRowOnce`) and
`SearchFindsARow` (`SearchFinds`). An order of 1 would leave the left half of an
inner node without keys, hence the assumption on the order.

All but `TypeOK` speak of a tree that no insert is changing, and so none of them is
inductive: a node that is too long, and the splits that go up from it, are steps of
their own. `TreeAlwaysHolds` is the invariant of every step, in three groups:

* The shape. `Linked` is `ParentsAgree` without its antecedent, and adds that no
  child is named twice; `Sized` says that only the node to be split is too long, by
  one key. Neither excludes a cycle. `Ranked` gives each node a height, one less
  than its parent's and zero in leaves: this is why findLeaf ends and why `depth`,
  which recurses over parents, is the same for all leaves.
* The rows. `Paired` has a record for each key of a leaf; `Once` has each row in one
  place of one node; `Counted` bounds what is counted.
* The keys. That each node is sorted (`Ascending`) does not say that search finds
  anything. Equal keys may end up on both sides of a separator, so `Bounded` gives
  each node the separators on its left and right, with its keys between them, both
  ends included; but a key leads findLeaf to the right of a separator it equals.
  Hence no key leads to two leaves (`Apart`), and a key that any leaf has is also
  in the leaf it leads to (`Led`), which is what search needs.

Height and separators are existentially quantified, since the code keeps neither.
The four kinds of split, of a leaf or an inner node, under a parent or a new root, are
all instances of one formula (`Split`), and the lemmas on splits are about that.
`StopsAt` takes the positions where a loop stops as a set, and `rows` counts the
inserts, so that no fold and no operator parameter stands in the way of a proof.

### What is only model-checked

* The liveness property `UpWhenCalm`, which needs `ENABLED`; so does `Attended`, which
  `server_silent` refutes.
* The properties of texts (`SqlText`). `UnderstoodAsWritten`, `NothingIgnored`,
  `KeptAsSent` and `RecoveredWhenPlain` compare what recursive functions make of a text
  (the lexer, the parser, `split`, the encoding of values) with what was put into it;
  `SelectShowsWhatDeleteRemoves` needs that two numerals without leading zeros that
  `stoi` reads as one int are one text, and `RewrittenRowsFit` what a fold over the
  assignments leaves of a row. All are inductions over data.

## 5. What is not modelled

* Text beyond what the lexer tells apart: exponents, hexadecimal and infinities
  that `stod` accepts, the wording of errors, and the JSON of the answers. Of the
  AST, the setters that nothing calls.
* `allowDatabaseAdmin`, the guard of `query` for remote clients; it is one
  early return and refuses the statement whole.
* Drawing, keyboard input and the log panel; the configuration file; the token
  and its file; the hash function; the search for a free port.
* Growth of the log and of `rateLimitMap`, and the overflow of file offsets
  beyond 2 GiB.
* Races inside asio when the GUI's thread closes the acceptor.

## 6. Plan

Done, in this order: storage and tables; the log and recovery, its refinement
and its first theorems; the page cache; the index; the server; databases; the
text of SQL and of the log, SELECT, and their connection with recovery.

The theorems cover the log and its refinement, databases, tables and their pages, the
page cache, the index and the server: every safety property that a run checks and finds
to hold (`AtomicWhenCalm` as `Atomic` under its hypotheses) but those of
`SqlText`, for which the provers would need an induction over sequences.

-------------------------------- MODULE Databases ------------------------------
(***************************************************************************)
(* The databases of the directory databases/: the files of each, and the   *)
(* engine that has one of them open.  CREATE, DROP and USE DATABASE, the   *)
(* start of the process, and what statements leave behind in the files.    *)
(*                                                                         *)
(* A database has three files: .db (the pages), .cat (the catalog) and     *)
(* .wal (the log).  A step is one file created, removed or opened.  What   *)
(* happens inside one database is the subject of Tables and WalEngine: a   *)
(* statement on a table is one step here, a page is the id of its table,   *)
(* and of the log only this is kept: does opening it throw?                *)
(***************************************************************************)
EXTENDS Integers, FiniteSetsExt

CONSTANTS
    Name,       \* database names as they are written in statements
    File,       \* what the file system calls them
    FileOf,     \* the file a name leads to
    Lower,      \* std::tolower of a name, as a function
    Table,      \* table names
    None,       \* nullptr, and the currentDatabase of no engine
    MaxTableId, \* bound: ids handed out between two loads of a catalog
    MaxFaults   \* bound: files that cannot be opened, written or removed

\* On Windows "mydb" and "MyDB" are one file; nowhere are two names one file
\* that differ in more than their case.
ASSUME DatabasesAssumption ==
    /\ FileOf \in [Name -> File]
    /\ DOMAIN Lower = Name
    /\ \A m, n \in Name : FileOf[m] = FileOf[n] => Lower[m] = Lower[n]
    /\ None \notin Name \cup File
    /\ MaxTableId \in Nat /\ MaxFaults \in Nat

VARIABLES
    files,    \* which of its three files each database has
    pages,    \* the tables its .db has pages of, by id
    saved,    \* the table ids Catalog::load would read from its .cat
    poisoned, \* the databases whose .wal ends with a line recover throws on
    catalog,  \* Engine::catalog, by the file it was loaded from, or None
    storage,  \* Engine::storage
    wal,      \* Engine::wal
    walGood,  \* does what is written to the log reach it?
    current,  \* Engine::currentDatabase
    tableIds, \* what the catalog has in memory; 0 for no table
    nextId,   \* Catalog::nextTableId
    pc,       \* the step of the start or the statement in progress
    target,   \* the database it names
    starting, \* is it the start of the process?
    spoiled,  \* history: databases with pages their catalog may know nothing of
    faults    \* bound

fileVars == <<files, pages, saved, poisoned>>
managerVars == <<catalog, storage, wal, walGood, current>>
memoryVars == <<tableIds, nextId>>
stepVars == <<pc, target, starting>>
boundVars == <<spoiled, faults>>
vars == <<fileVars, managerVars, memoryVars, stepVars, boundVars>>

Ids == 0 .. MaxTableId
NoTables == [t \in Table |-> 0]
IdsOf(tables) == {tables[t] : t \in Table} \ {0}

Labels == {"down", "idle", "loadCatalog", "openStorage", "openWal", "recover",
           "createCat", "dropWal", "dropCat", "dropDb"}

TypeOK ==
    /\ files \in [File -> SUBSET {"db", "cat", "wal"}]
    /\ pages \in [File -> SUBSET (Ids \ {0})]
    /\ saved \in [File -> [Table -> Ids]]
    /\ poisoned \subseteq File
    /\ {catalog, storage, wal} \subseteq File \cup {None}
    /\ walGood \in BOOLEAN /\ starting \in BOOLEAN
    /\ current \in Name \cup {None}
    /\ tableIds \in [Table -> Ids]
    /\ nextId \in 1 .. MaxTableId + 1
    /\ pc \in Labels
    /\ target \in Name
    /\ spoiled \subseteq File
    /\ faults \in 0 .. MaxFaults

Init ==
    /\ files = [f \in File |-> {}]
    /\ pages = [f \in File |-> {}]
    /\ saved = [f \in File |-> NoTables]
    /\ poisoned = {}
    /\ catalog = None /\ storage = None /\ wal = None
    /\ walGood = FALSE
    /\ current = None
    /\ tableIds = NoTables
    /\ nextId = 1
    /\ pc = "down"
    /\ target \in Name
    /\ starting = FALSE
    /\ spoiled = {}
    /\ faults = 0

--------------------------------------------------------------------------------
(* The process and its managers *)

Has(f, ext) == ext \in files[f]

Fault == faults < MaxFaults /\ faults' = faults + 1

\* The managers are gone: reset by switchDatabase, or not there yet.
NoManagers ==
    /\ catalog' = None /\ storage' = None /\ wal' = None
    /\ walGood' = FALSE
    /\ tableIds' = NoTables
    /\ nextId' = 1

\* The process ends, by a crash, a null pointer or an exception of main.
Gone ==
    /\ NoManagers
    /\ current' = None
    /\ pc' = "down"
    /\ starting' = FALSE

Crash ==
    /\ pc # "down"
    /\ Gone
    /\ UNCHANGED <<fileVars, target, boundVars>>

\* main, on the database config.json names.
Start(n) ==
    /\ pc = "down"
    /\ pc' = "loadCatalog"
    /\ target' = n
    /\ starting' = TRUE
    /\ UNCHANGED <<fileVars, managerVars, memoryVars, boundVars>>

\* Mutant: the managers stay until their successors are there.
Use_KeepManagers(n) ==
    /\ pc = "idle"
    /\ Has(FileOf[n], "db")
    /\ pc' = "loadCatalog"
    /\ target' = n
    /\ UNCHANGED <<fileVars, managerVars, memoryVars, starting, boundVars>>

\* executeUseDatabase: the file must exist; then switchDatabase drops all three
\* managers.  currentDatabase and pendingSwitch still name the old database.
Use(n) ==
    /\ pc = "idle"
    /\ Has(FileOf[n], "db")
    /\ NoManagers
    /\ pc' = "loadCatalog"
    /\ target' = n
    /\ UNCHANGED <<fileVars, current, starting, boundVars>>

\* Mutant: the highest id in the file is given again.
NextAfter_Highest(tables) == Max({0} \cup IdsOf(tables))

NextAfter(tables) == 1 + Max({0} \cup IdsOf(tables))

\* A catalog file that is not there is an empty catalog.
LoadCatalog ==
    /\ pc = "loadCatalog"
    /\ LET f == FileOf[target]
       IN  /\ catalog' = f
           /\ tableIds' = IF Has(f, "cat") THEN saved[f] ELSE NoTables
           /\ nextId' = NextAfter(tableIds')
    /\ pc' = "openStorage"
    /\ UNCHANGED <<fileVars, storage, wal, walGood, current, target, starting, boundVars>>

\* StorageFile's constructor makes the file if there is none ...
OpenStorage ==
    /\ pc = "openStorage"
    /\ storage' = FileOf[target]
    /\ files' = [files EXCEPT ![FileOf[target]] = @ \cup {"db"}]
    /\ pc' = "openWal"
    /\ UNCHANGED <<pages, saved, poisoned, catalog, wal, walGood, current, memoryVars,
                   target, starting, boundVars>>

\* ... or throws.  A USE is answered with an error and leaves the engine with
\* the new catalog, no storage and no log; a start ends the process.
OpenStorageFails ==
    /\ pc = "openStorage"
    /\ Fault
    /\ IF starting
       THEN Gone
       ELSE pc' = "idle" /\ UNCHANGED <<managerVars, memoryVars, starting>>
    /\ UNCHANGED <<fileVars, target, spoiled>>

OpenWal ==
    /\ pc = "openWal"
    /\ wal' = FileOf[target]
    /\ files' = [files EXCEPT ![FileOf[target]] = @ \cup {"wal"}]
    /\ current' = target
    /\ pc' = "recover"
    /\ UNCHANGED <<pages, saved, poisoned, catalog, storage, walGood, memoryVars,
                   target, starting, boundVars>>

\* readLog leaves the stream at end of file.  A line that recover throws on ends
\* the process when it starts; a USE has switched by then, and reports an error.
Recover ==
    /\ pc = "recover"
    /\ IF starting /\ wal \in poisoned
       THEN Gone
       ELSE /\ pc' = "idle"
            /\ starting' = FALSE
            /\ UNCHANGED <<managerVars, memoryVars>>
    /\ UNCHANGED <<fileVars, target, boundVars>>

--------------------------------------------------------------------------------
(* Statements on a table.  Without a storage they follow a null pointer. *)

\* Catalog::save writes the whole file, or returns when it cannot open it.
Save ==
    \/ /\ saved' = [saved EXCEPT ![catalog] = tableIds']
       /\ files' = [files EXCEPT ![catalog] = @ \cup {"cat"}]
       /\ UNCHANGED <<spoiled, faults>>
    \/ /\ Fault
       /\ spoiled' = spoiled \cup {catalog}
       /\ UNCHANGED <<saved, files>>

CreateTable(t) ==
    /\ pc = "idle"
    /\ tableIds[t] = 0
    /\ nextId <= MaxTableId
    /\ tableIds' = [tableIds EXCEPT ![t] = nextId]
    /\ nextId' = nextId + 1
    /\ Save
    /\ UNCHANGED <<pages, poisoned, managerVars, stepVars>>

\* A statement on a table that exists gets as far as its pages.
OnTable(t) ==
    /\ pc = "idle"
    /\ tableIds[t] # 0
    /\ storage # None
    /\ UNCHANGED <<catalog, storage, wal, current, nextId, stepVars>>

\* Mutant: only the entry goes, as Catalog::dropTable alone would have it.
DropTable_KeepPages(t) ==
    /\ OnTable(t)
    /\ tableIds' = [tableIds EXCEPT ![t] = 0]
    /\ Save
    /\ UNCHANGED <<pages, poisoned, walGood>>

DropTable(t) ==
    /\ OnTable(t)
    /\ pages' = [pages EXCEPT ![storage] = @ \ {tableIds[t]}]
    /\ tableIds' = [tableIds EXCEPT ![t] = 0]
    /\ Save
    /\ UNCHANGED <<poisoned, walGood>>

\* INSERT, or a DELETE of every row.  Its COMMIT covers every line before it,
\* if it gets into the log; the stream is opened again in any case.
Write(t, left) ==
    /\ OnTable(t)
    /\ pages' = [pages EXCEPT ![storage] = (@ \ {tableIds[t]}) \cup left]
    /\ poisoned' = IF walGood THEN poisoned \ {wal} ELSE poisoned
    /\ walGood' = TRUE
    /\ UNCHANGED <<files, saved, tableIds, boundVars>>

\* An INSERT of a row of the wrong type is refused after its line was logged.
RefusedInsert(t) ==
    /\ OnTable(t)
    /\ poisoned' = IF walGood THEN poisoned \cup {wal} ELSE poisoned
    /\ UNCHANGED <<files, pages, saved, walGood, tableIds, boundVars>>

NullPointer(t) ==
    /\ pc = "idle"
    /\ tableIds[t] # 0
    /\ storage = None
    /\ Gone
    /\ UNCHANGED <<fileVars, target, boundVars>>

--------------------------------------------------------------------------------
(* CREATE DATABASE and DROP DATABASE *)

CreateDb(n) ==
    /\ pc = "idle"
    /\ files' = [files EXCEPT ![FileOf[n]] = @ \cup {"db"}]
    /\ pc' = "createCat"
    /\ target' = n
    /\ UNCHANGED <<pages, saved, poisoned, managerVars, memoryVars, starting, boundVars>>

CreateCat ==
    /\ pc = "createCat"
    /\ files' = [files EXCEPT ![FileOf[target]] = @ \cup {"cat"}]
    /\ pc' = "idle"
    /\ UNCHANGED <<pages, saved, poisoned, managerVars, memoryVars, target, starting, boundVars>>

\* Mutant: the names are compared as they are.
IsCurrent_Exact(n) == n = current

\* equalsIgnoreCase with currentDatabase.
IsCurrent(n) == Lower[n] = Lower[current]

Drop(n) ==
    /\ pc = "idle"
    /\ ~ IsCurrent(n)
    /\ Has(FileOf[n], "db")
    /\ pc' = "dropWal"
    /\ target' = n
    /\ UNCHANGED <<fileVars, managerVars, memoryVars, starting, boundVars>>

\* Mutant: the pages go first.
Removal_DbFirst == <<"dropWal", "dropDb", "dropCat">>

\* The order of the loop of executeDropDatabase.
Removal == <<"dropWal", "dropCat", "dropDb">>

Removing(label) ==
    /\ pc = label
    /\ pc' = LET i == CHOOSE i \in 1 .. 3 : Removal[i] = label
             IN  IF i = 3 THEN "idle" ELSE Removal[i + 1]
    /\ UNCHANGED <<managerVars, memoryVars, target, starting, faults>>

RemoveWal ==
    /\ Removing("dropWal")
    /\ files' = [files EXCEPT ![FileOf[target]] = @ \ {"wal"}]
    /\ poisoned' = poisoned \ {FileOf[target]}
    /\ UNCHANGED <<pages, saved, spoiled>>

\* From here until the .db is gone its pages belong to no table.
RemoveCat ==
    /\ Removing("dropCat")
    /\ files' = [files EXCEPT ![FileOf[target]] = @ \ {"cat"}]
    /\ saved' = [saved EXCEPT ![FileOf[target]] = NoTables]
    /\ spoiled' = spoiled \cup {FileOf[target]}
    /\ UNCHANGED <<pages, poisoned>>

RemoveDb ==
    /\ Removing("dropDb")
    /\ files' = [files EXCEPT ![FileOf[target]] = @ \ {"db"}]
    /\ pages' = [pages EXCEPT ![FileOf[target]] = {}]
    /\ spoiled' = spoiled \ {FileOf[target]}
    /\ UNCHANGED <<saved, poisoned>>

\* The file is in use: the statement throws and the rest stays.
RemoveFails ==
    /\ pc \in {"dropWal", "dropCat", "dropDb"}
    /\ Fault
    /\ pc' = "idle"
    /\ UNCHANGED <<fileVars, managerVars, memoryVars, target, starting, spoiled>>

--------------------------------------------------------------------------------

Next ==
    \/ Crash
    \/ \E n \in Name : Start(n) \/ Use(n) \/ CreateDb(n) \/ Drop(n)
    \/ LoadCatalog \/ OpenStorage \/ OpenStorageFails \/ OpenWal \/ Recover
    \/ \E t \in Table : CreateTable(t) \/ DropTable(t) \/ RefusedInsert(t) \/ NullPointer(t)
    \/ \E t \in Table : \E left \in SUBSET {tableIds[t]} : Write(t, left)
    \/ CreateCat \/ RemoveWal \/ RemoveCat \/ RemoveDb \/ RemoveFails

Spec == Init /\ [][Next]_vars

--------------------------------------------------------------------------------
(* Safety *)

\* The managers an engine has are of one database, also after a USE that failed
\* between two of them, and the name that guards DROP DATABASE is its name as
\* soon as it has a log.  (switchDatabase resets all three before it builds the
\* first; otherwise statements would find tables of one database and write pages
\* of another.)
OneDatabase ==
    /\ storage # None => storage = catalog
    /\ wal # None => wal = storage /\ FileOf[current] = wal

\* The files an engine has open are there: no DROP DATABASE takes them away,
\* however it spells the name.
OpenFilesStay ==
    /\ storage # None => Has(storage, "db")
    /\ wal # None => Has(wal, "wal")

\* Files without the .db can neither be dropped nor used.
Stranded(f) == files[f] # {} /\ ~ Has(f, "db")

\* "A partial failure leaves the database still droppable" (executeDropDatabase):
\* no failure or crash at any step of any statement leaves files of a database
\* without its .db.  There is one exception: after a USE that found no storage
\* the engine has the catalog of a database it does not protect from DROP, and
\* CREATE TABLE writes that catalog file again.
Droppable ==
    [][\A f \in File : Stranded(f)' /\ ~ Stranded(f) => storage = None /\ catalog = f]_vars

\* Every page belongs to a table of the catalog, the one in memory of the open
\* database and the one in the file of the others, so no table is ever born with
\* rows.  Where a DROP DATABASE stopped after the .cat, or a catalog could not be
\* written, it may be otherwise: CREATE DATABASE then keeps the .db, and the next
\* table gets rows of a dropped one.
PagesHaveTables ==
    \A f \in File \ spoiled :
        pages[f] \subseteq IdsOf(IF storage = f THEN tableIds ELSE saved[f])

================================================================================

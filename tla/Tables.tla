--------------------------------- MODULE Tables --------------------------------
(***************************************************************************)
(* Catalog + StorageFile under the statements of the Engine that create,   *)
(* drop, fill and rewrite tables: which page belongs to which table.       *)
(*                                                                         *)
(* A thread runs one statement at a time.  Threads of the network pool     *)
(* hold NetworkServer's engineMutex for the whole statement; the GUI       *)
(* thread calls Engine::query without it, so it interleaves with them at   *)
(* every call of Catalog and StorageFile, which have mutexes of their own. *)
(*                                                                         *)
(* Each statement builds a Table, hence a PageManager: a private list of   *)
(* page ids and a private cache, filled by rebuildIndex from the file and  *)
(* thrown away with the statement.  pages and view are these two.  That a  *)
(* write-through cache used by one thread equals the file is checked in    *)
(* module PageManager.                                                     *)
(***************************************************************************)
EXTENDS StorageFile

CONSTANTS
    Name,       \* table names
    Thread,     \* threads that call Engine::query
    Outsiders,  \* sets of threads that may do so without engineMutex
    TornSave    \* may the process die between the truncation of the catalog
                \* file and the write of its new contents?

ASSUME TablesAssumption ==
    /\ Outsiders \subseteq SUBSET Thread
    /\ TornSave \in BOOLEAN

VARIABLES
    tableIds,    \* Catalog::tableIds: id of each table, -1 for no table
    nextTableId, \* Catalog::nextTableId
    catFile,     \* what Catalog::load would find in the .cat file
    pc,          \* where each thread is in its statement
    name,        \* the table its statement names
    tid,         \* the id getTableId returned to it
    pages,       \* PageManager::pageIds of its Table (toFree of a DROP)
    view,        \* the pages as the cache of that PageManager holds them
    todo,        \* the rows its statement still has to insert
    outside      \* the threads that do not hold engineMutex: the GUI's

catalogVars == <<tableIds, nextTableId, catFile>>
threadVars == <<pc, name, tid, pages, view, todo>>
vars == <<storageVars, catalogVars, threadVars, outside>>

NoTable == -1
Ids == {NoTable} \cup 1 .. MaxTableId

Labels == {"idle", "create", "save", "lookup", "open", "clear", "append", "fill",
           "giveBack", "dropLookup", "dropScan", "dropFree", "dropEntry"}

NoView == [p \in PageIds |-> Blank]

TypeOK ==
    /\ StorageTypeOK
    /\ tableIds \in [Name -> Ids]
    /\ catFile \in [Name -> Ids]
    /\ nextTableId \in 1 .. MaxTableId + 1
    /\ pc \in [Thread -> Labels]
    /\ name \in [Thread -> Name]
    /\ tid \in [Thread -> Ids]
    /\ pages \in [Thread -> Seq(PageIds)]
    /\ view \in [Thread -> [PageIds -> Page]]
    /\ todo \in [Thread -> Seq(Row)]
    /\ outside \in SUBSET Thread

Init ==
    /\ StorageInit
    /\ tableIds = [n \in Name |-> NoTable]
    /\ catFile = tableIds
    /\ nextTableId = 1
    /\ pc = [th \in Thread |-> "idle"]
    /\ name \in [Thread -> Name]
    /\ tid = [th \in Thread |-> NoTable]
    /\ pages = [th \in Thread |-> <<>>]
    /\ view = [th \in Thread |-> NoView]
    /\ todo = [th \in Thread |-> <<>>]
    /\ outside \in Outsiders

--------------------------------------------------------------------------------
(* Locks and program counters *)

Exists(n) == tableIds[n] # NoTable

\* Catalog::mutex: createTable and dropTable keep it until save() returns.
CatalogFree == \A th \in Thread : pc[th] # "save"

\* Mutant: the lock_guard of executeQuery is missing.
EngineFree_NoLock(th) == TRUE

\* NetworkServer::engineMutex.
EngineFree(th) == th \notin outside => \A o \in Thread \ outside : pc[o] = "idle"

Goto(th, label) == pc' = [pc EXCEPT ![th] = label]

Begin(th, n, label) ==
    /\ pc[th] = "idle"
    /\ EngineFree(th)
    /\ CatalogFree
    /\ Goto(th, label)
    /\ name' = [name EXCEPT ![th] = n]
    /\ UNCHANGED <<storageVars, catalogVars, tid, pages, view>>

\* The statement returns or throws; its Table goes out of scope.
Finish(th) ==
    /\ Goto(th, "idle")
    /\ tid' = [tid EXCEPT ![th] = NoTable]
    /\ pages' = [pages EXCEPT ![th] = <<>>]
    /\ view' = [view EXCEPT ![th] = NoView]
    /\ todo' = [todo EXCEPT ![th] = <<>>]
    /\ UNCHANGED name

--------------------------------------------------------------------------------
(* CREATE TABLE *)

BeginCreate(th, n) == Begin(th, n, "create") /\ UNCHANGED todo

\* Creating a table that exists is silently nothing.
CreateNothing(th) ==
    /\ pc[th] = "create"
    /\ CatalogFree
    /\ Exists(name[th])
    /\ Finish(th)
    /\ UNCHANGED <<storageVars, catalogVars>>

\* Mutant: nextTableId is not incremented.
CreateEntry_SameId(th) ==
    /\ pc[th] = "create"
    /\ CatalogFree
    /\ ~ Exists(name[th])
    /\ nextTableId <= MaxTableId
    /\ tableIds' = [tableIds EXCEPT ![name[th]] = nextTableId]
    /\ nextTableId' = nextTableId
    /\ catFile' = [n \in Name |-> NoTable]
    /\ Goto(th, "save")
    /\ UNCHANGED <<storageVars, name, tid, pages, view, todo>>

\* The new entry in memory, then std::ofstream truncates the catalog file.
CreateEntry(th) ==
    /\ pc[th] = "create"
    /\ CatalogFree
    /\ ~ Exists(name[th])
    /\ nextTableId <= MaxTableId
    /\ tableIds' = [tableIds EXCEPT ![name[th]] = nextTableId]
    /\ nextTableId' = nextTableId + 1
    /\ catFile' = [n \in Name |-> NoTable]
    /\ Goto(th, "save")
    /\ UNCHANGED <<storageVars, name, tid, pages, view, todo>>

\* Mutant: only the table of the statement is written out.
Save_OneTable(th) ==
    /\ pc[th] = "save"
    /\ catFile' = [n \in Name |-> IF n = name[th] THEN tableIds[n] ELSE NoTable]
    /\ Finish(th)
    /\ UNCHANGED <<storageVars, tableIds, nextTableId>>

\* The stream writes the whole catalog out and the statement returns.
Save(th) ==
    /\ pc[th] = "save"
    /\ catFile' = tableIds
    /\ Finish(th)
    /\ UNCHANGED <<storageVars, tableIds, nextTableId>>

--------------------------------------------------------------------------------
(* DROP TABLE *)

BeginDrop(th, n) ==
    /\ Exists(n)
    /\ Begin(th, n, "dropLookup")
    /\ UNCHANGED todo

\* executeDrop checks again and throws ...
DropMissing(th) ==
    /\ pc[th] = "dropLookup"
    /\ CatalogFree
    /\ ~ Exists(name[th])
    /\ Finish(th)
    /\ UNCHANGED <<storageVars, catalogVars>>

\* ... but asks for the id in a call of its own: the table may be gone by then.
DropLookup(th) ==
    /\ pc[th] = "dropLookup"
    /\ CatalogFree
    /\ tid' = [tid EXCEPT ![th] = tableIds[name[th]]]
    /\ Goto(th, "dropScan")
    /\ UNCHANGED <<storageVars, catalogVars, name, pages, view, todo>>

DropScan(th) ==
    /\ pc[th] = "dropScan"
    /\ \E s \in Listing(TaggedPages(tid[th])) : pages' = [pages EXCEPT ![th] = s]
    /\ Goto(th, "dropFree")
    /\ UNCHANGED <<storageVars, catalogVars, name, tid, view, todo>>

DropFree(th) ==
    /\ pc[th] = "dropFree"
    /\ pages[th] # <<>>
    /\ FreePage(Head(pages[th]))
    /\ pages' = [pages EXCEPT ![th] = Tail(@)]
    /\ UNCHANGED <<catalogVars, pc, name, tid, view, todo>>

\* Mutant: the loop over the pages ends early.
DropFreed_Early(th) ==
    /\ pc[th] = "dropFree"
    /\ Goto(th, "dropEntry")
    /\ UNCHANGED <<storageVars, catalogVars, name, tid, pages, view, todo>>

DropFreed(th) ==
    /\ pc[th] = "dropFree"
    /\ pages[th] = <<>>
    /\ Goto(th, "dropEntry")
    /\ UNCHANGED <<storageVars, catalogVars, name, tid, pages, view, todo>>

DropNothing(th) ==
    /\ pc[th] = "dropEntry"
    /\ CatalogFree
    /\ ~ Exists(name[th])
    /\ Finish(th)
    /\ UNCHANGED <<storageVars, catalogVars>>

DropEntry(th) ==
    /\ pc[th] = "dropEntry"
    /\ CatalogFree
    /\ Exists(name[th])
    /\ tableIds' = [tableIds EXCEPT ![name[th]] = NoTable]
    /\ catFile' = [n \in Name |-> NoTable]
    /\ Goto(th, "save")
    /\ UNCHANGED <<storageVars, nextTableId, name, tid, pages, view, todo>>

--------------------------------------------------------------------------------
(* INSERT, and the rewrite that DELETE and UPDATE are *)

\* query() checks the name and the statement reads the schema ...
BeginInsert(th, n, row) ==
    /\ Exists(n)
    /\ Begin(th, n, "lookup")
    /\ todo' = [todo EXCEPT ![th] = <<row>>]

BeginRewrite(th, n) ==
    /\ Exists(n)
    /\ Begin(th, n, "lookup")
    /\ UNCHANGED todo

\* ... then asks for the id: -1 if the table was dropped in between.
Lookup(th) ==
    /\ pc[th] = "lookup"
    /\ CatalogFree
    /\ tid' = [tid EXCEPT ![th] = tableIds[name[th]]]
    /\ Goto(th, "open")
    /\ UNCHANGED <<storageVars, catalogVars, name, pages, view, todo>>

\* The PageManager lists the pages and rebuildIndex reads each of them.
OpenTable(th, s) ==
    /\ pc[th] = "open"
    /\ s \in Listing(TaggedPages(tid[th]))
    /\ pages' = [pages EXCEPT ![th] = s]
    /\ view' = [view EXCEPT ![th] = [p \in PageIds |-> IF p \in ToSet(s) THEN disk[p] ELSE Blank]]
    /\ UNCHANGED <<storageVars, catalogVars, name, tid>>

OpenInsert(th) ==
    /\ todo[th] # <<>>
    /\ \E s \in Listing(TaggedPages(tid[th])) : OpenTable(th, s)
    /\ Goto(th, "append")
    /\ UNCHANGED todo

\* What a DELETE can leave of some rows: those outside its condition.
Kept(rows) == {SelectSeq(rows, LAMBDA r : r \notin C) : C \in SUBSET Row} \cap Seq(Row)

OpenRewrite(th) ==
    /\ todo[th] = <<>>
    /\ \E s \in Listing(TaggedPages(tid[th])) :
        /\ OpenTable(th, s)
        /\ \E rows \in Kept(FlattenSeq([i \in 1 .. Len(s) |-> disk[s[i]].rows])) :
            todo' = [todo EXCEPT ![th] = rows]
    /\ Goto(th, "clear")

\* PageManager::clearAll: one freePage per page.
Clear(th) ==
    /\ pc[th] = "clear"
    /\ pages[th] # <<>>
    /\ FreePage(Head(pages[th]))
    /\ pages' = [pages EXCEPT ![th] = Tail(@)]
    /\ UNCHANGED <<catalogVars, pc, name, tid, view, todo>>

Cleared(th) ==
    /\ pc[th] = "clear"
    /\ pages[th] = <<>>
    /\ Goto(th, "append")
    /\ UNCHANGED <<storageVars, catalogVars, name, tid, pages, view, todo>>

LastHasSpace(th) ==
    /\ pages[th] # <<>>
    /\ HasSpace(view[th][Last(pages[th])], Head(todo[th]))

\* PageManager::insertRowWithLocation, first case.
AppendToLast(th) ==
    /\ pc[th] = "append"
    /\ todo[th] # <<>>
    /\ LastHasSpace(th)
    /\ LET p == Last(pages[th])
           page == AddRow(view[th][p], Head(todo[th]))
       IN  /\ WritePage(p, page)
           /\ view' = [view EXCEPT ![th][p] = page]
    /\ todo' = [todo EXCEPT ![th] = Tail(@)]
    /\ UNCHANGED <<catalogVars, pc, name, tid, pages>>

\* Second case: a new page, the last one of pages from here on.  A row that
\* does not fit in it either sends it back.
Allocate(th, p) ==
    /\ pc[th] = "append"
    /\ todo[th] # <<>>
    /\ ~ LastHasSpace(th)
    /\ AllocatePage(p, tid[th])
    /\ pages' = [pages EXCEPT ![th] = Append(@, p)]
    /\ Goto(th, IF Head(todo[th]) \in Oversize THEN "giveBack" ELSE "fill")
    /\ UNCHANGED <<catalogVars, name, tid, view, todo>>

Fill(th) ==
    /\ pc[th] = "fill"
    /\ LET p == Last(pages[th])
           page == AddRow(NewPage(tid[th]), Head(todo[th]))
       IN  /\ WritePage(p, page)
           /\ view' = [view EXCEPT ![th][p] = page]
    /\ todo' = [todo EXCEPT ![th] = Tail(@)]
    /\ Goto(th, "append")
    /\ UNCHANGED <<catalogVars, name, tid, pages>>

\* The rewrite goes on with the next row; an INSERT has no other.
GiveBack(th) ==
    /\ pc[th] = "giveBack"
    /\ FreePage(Last(pages[th]))
    /\ pages' = [pages EXCEPT ![th] = Front(@)]
    /\ todo' = [todo EXCEPT ![th] = Tail(@)]
    /\ Goto(th, "append")
    /\ UNCHANGED <<catalogVars, name, tid, view>>

Return(th) ==
    /\ pc[th] = "append"
    /\ todo[th] = <<>>
    /\ Finish(th)
    /\ UNCHANGED <<storageVars, catalogVars>>

--------------------------------------------------------------------------------
(* The process dies, and starts again on the files it left *)

\* Mutants: the counter restarts at the highest id, or at 1.
NextId_Highest == Max({0} \cup {catFile[n] : n \in Name})
NextId_First == 1

\* What Catalog::load leaves in nextTableId.
NextId == 1 + Max({0} \cup {catFile[n] : n \in Name})

Restart ==
    /\ ~ CatalogFree => TornSave
    /\ Reopen
    /\ tableIds' = catFile
    /\ nextTableId' = NextId
    /\ pc' = [th \in Thread |-> "idle"]
    /\ tid' = [th \in Thread |-> NoTable]
    /\ pages' = [th \in Thread |-> <<>>]
    /\ view' = [th \in Thread |-> NoView]
    /\ todo' = [th \in Thread |-> <<>>]
    /\ UNCHANGED <<catFile, name>>

--------------------------------------------------------------------------------

Statement(th) ==
    \/ \E n \in Name : BeginCreate(th, n) \/ BeginDrop(th, n) \/ BeginRewrite(th, n)
    \/ \E n \in Name, row \in Row : BeginInsert(th, n, row)
    \/ CreateNothing(th) \/ CreateEntry(th) \/ Save(th)
    \/ DropMissing(th) \/ DropLookup(th) \/ DropScan(th) \/ DropFree(th)
    \/ DropFreed(th) \/ DropNothing(th) \/ DropEntry(th)
    \/ Lookup(th) \/ OpenInsert(th) \/ OpenRewrite(th)
    \/ Clear(th) \/ Cleared(th) \/ AppendToLast(th)
    \/ \E p \in PageIds : Allocate(th, p)
    \/ Fill(th) \/ GiveBack(th) \/ Return(th)

Next ==
    /\ Restart \/ \E th \in Thread : Statement(th)
    /\ UNCHANGED outside

Spec == Init /\ [][Next]_vars

--------------------------------------------------------------------------------
(* Safety *)

\* With or without engineMutex, the mutex of Catalog being enough:
\* two tables never share an id, and an id not handed out yet is nobody's.
\* (Catalog::createTable numbers from a counter that load() recomputes as the
\* highest id in the file plus one, so ids are handed out again after a DROP
\* and a restart.)
DistinctIds ==
    /\ \A m, n \in Name : Exists(m) /\ tableIds[m] = tableIds[n] => m = n
    /\ \A n \in Name : tableIds[n] < nextTableId

\* The rest holds as long as every statement is under engineMutex.
Serialized == outside = {}

\* The free list is the list of the free pages, each of them once.
FreePagesKnown == Serialized => FreeListExact

\* Every page that is not free carries the id of a table of the catalog: DROP
\* frees the pages before it removes the entry, and no statement allocates a
\* page for a table that is gone.  Otherwise the page is lost, until its id is
\* handed out again and its rows turn up in a new table.
NoOrphanPage ==
    Serialized => \A p \in PageIds :
        InFile(p) /\ disk[p].table # 0 => \E n \in Name : tableIds[n] = disk[p].table

\* A table starts out without rows, whatever was dropped or lost before it
\* (Catalog::createTable never looks at the pages).
FreshTableEmpty ==
    [][Serialized => \A n \in Name :
        ~ Exists(n) /\ Exists(n)' => TaggedPages(tableIds'[n]) = {}]_vars

\* A page changes only under a statement on the table that owns it, or when it
\* was free: no statement writes or frees a page of another table.
OwnPages ==
    \A p \in PageIds :
        disk'[p] # disk[p] /\ disk[p].table # 0
            => \E th \in Thread : tid[th] = disk[p].table

SerializedOwnPages == [][Serialized => OwnPages]_vars

\* The same of any statements, the GUI's among them.
TouchesOwnPages == [][OwnPages]_vars

\* Again with or without engineMutex: a table disappears only in a DROP TABLE that
\* names it, or in a crash while its own CREATE TABLE has not returned: no other
\* statement, crash or restart removes it from the catalog.
OnlyDropRemoves ==
    [][\A n \in Name : Exists(n) /\ ~ Exists(n)'
        => \E th \in Thread : name[th] = n /\ pc[th] \in {"dropEntry", "save"}]_vars

================================================================================

---------------------------- MODULE Databases_proofs ----------------------------
(***************************************************************************)
(* The type invariant and all safety properties of Databases, for any      *)
(* databases, tables and spellings, and any number of failing files.       *)
(*                                                                         *)
(* Droppable is a property of steps, and PagesHaveTables of files that     *)
(* several statements leave behind.  What they rest on is how far the      *)
(* statement in progress has come: which managers there are (Progress),    *)
(* which files (Halfway), and how the catalog in memory, the one in the    *)
(* file and the pages differ meanwhile (Contents).                         *)
(***************************************************************************)
EXTENDS Databases, LargestOf

\* At work on a statement, or waiting for one.
Started == {"idle", "createCat", "dropWal", "dropCat", "dropDb"}

\* The managers come one after the other, and go together.
Progress ==
    /\ pc \in {"down", "loadCatalog"} => catalog = None /\ storage = None /\ wal = None
    /\ pc = "openStorage" => /\ catalog = FileOf[target] /\ tableIds = saved[catalog]
                             /\ storage = None /\ wal = None
    /\ pc = "openWal" => storage = FileOf[target] /\ wal = None
    /\ pc = "recover" => wal # None /\ current # None
    /\ pc \in Started => catalog # None /\ current # None /\ ~ starting
    /\ storage # None /\ wal = None => pc = "openWal"
    /\ pc # "down" /\ ~ starting => current # None

\* What CREATE and DROP DATABASE rely on between two files.
Halfway ==
    /\ pc = "createCat" => Has(FileOf[target], "db")
    /\ pc \in {"dropWal", "dropCat", "dropDb"} => ~ IsCurrent(target)
    /\ pc \in {"dropCat", "dropDb"} => ~ Has(FileOf[target], "wal")
    /\ pc = "dropDb" => ~ Has(FileOf[target], "cat")

\* Where no fault has parted them: the pages are of tables of the catalog file,
\* and of the catalog in memory, which are the same while there is a storage.
Contents ==
    /\ \A f \in File : ~ Has(f, "cat") => saved[f] = NoTables
    /\ \A f \in File \ spoiled :
        /\ pages[f] \subseteq IdsOf(saved[f])
        /\ catalog = f => pages[f] \subseteq IdsOf(tableIds)
        /\ storage = f => saved[f] = tableIds

IInv == TypeOK /\ Progress /\ Halfway /\ OneDatabase /\ OpenFilesStay /\ Contents

--------------------------------------------------------------------------------
(* Lemmas on the operators *)

\* The counter of a catalog stays in its bound, whatever the catalog.
LEMMA NextAfterType ==
    ASSUME NEW tables \in [Table -> Ids]
    PROVE  NextAfter(tables) \in 1 .. MaxTableId + 1
<1> DEFINE S == {0} \cup IdsOf(tables)
<1>1. MaxTableId \in Nat
    BY DatabasesAssumption DEF DatabasesAssumption
<1>2. S \subseteq 0 .. MaxTableId /\ S \in SUBSET (-1 .. MaxTableId) /\ S # {}
    BY <1>1 DEF IdsOf, Ids
<1>3. Max(S) \in S
    <2> HIDE DEF S
    <2> QED
        BY <1>1, <1>2, MaxOfBounded
<1>4. Max(S) \in 0 .. MaxTableId
    BY <1>2, <1>3
<1> QED
    BY <1>1, <1>4 DEF NextAfter

\* What follows each removal.
LEMMA RemovalOrder ==
    /\ Removing("dropWal") => pc = "dropWal" /\ pc' = "dropCat"
    /\ Removing("dropCat") => pc = "dropCat" /\ pc' = "dropDb"
    /\ Removing("dropDb") => pc = "dropDb" /\ pc' = "idle"
<1>1. (CHOOSE i \in 1 .. 3 : Removal[i] = "dropWal") = 1
    BY DEF Removal
<1>2. (CHOOSE i \in 1 .. 3 : Removal[i] = "dropCat") = 2
    BY DEF Removal
<1>3. (CHOOSE i \in 1 .. 3 : Removal[i] = "dropDb") = 3
    BY DEF Removal
<1> QED
    BY <1>1, <1>2, <1>3 DEF Removing, Removal

\* An engine without managers has an empty catalog and starts to count at 1.
LEMMA NoManagersEffect ==
    ASSUME NoManagers
    PROVE  /\ {catalog, storage, wal}' \subseteq File \cup {None}
           /\ walGood' \in BOOLEAN
           /\ tableIds' \in [Table -> Ids]
           /\ nextId' \in 1 .. MaxTableId + 1
<1>1. MaxTableId \in Nat
    BY DatabasesAssumption DEF DatabasesAssumption
<1>2. 0 \in Ids /\ 1 \in 1 .. MaxTableId + 1
    BY <1>1 DEF Ids
<1> QED
    BY <1>2 DEF NoManagers, NoTables

\* A table added or taken away: the others keep their ids.
LEMMA IdsOfExcept ==
    ASSUME NEW tables \in [Table -> Ids], NEW t \in Table, NEW id \in Ids
    PROVE  /\ [tables EXCEPT ![t] = id] \in [Table -> Ids]
           /\ IdsOf(tables) \ {tables[t]} \subseteq IdsOf([tables EXCEPT ![t] = id])
BY DEF IdsOf

\* A catalog is written out, or the fault that prevents it is noted.
LEMMA SaveEffect ==
    ASSUME TypeOK, catalog \in File, tableIds' \in [Table -> Ids], Save
    PROVE  /\ files' \in [File -> SUBSET {"db", "cat", "wal"}]
           /\ saved' \in [File -> [Table -> Ids]]
           /\ spoiled' \subseteq File
           /\ faults' \in 0 .. MaxFaults
           /\ \A f \in File : files[f] \subseteq files'[f] /\ files'[f] \subseteq files[f] \cup {"cat"}
           /\ \A f \in File \ {catalog} : files'[f] = files[f] /\ saved'[f] = saved[f] /\ (f \in spoiled' <=> f \in spoiled)
           /\ catalog \notin spoiled' => saved'[catalog] = tableIds' /\ catalog \notin spoiled
           /\ "cat" \notin files'[catalog] => saved'[catalog] = saved[catalog]
<1>1. CASE /\ saved' = [saved EXCEPT ![catalog] = tableIds']
           /\ files' = [files EXCEPT ![catalog] = @ \cup {"cat"}]
           /\ UNCHANGED <<spoiled, faults>>
    BY <1>1 DEF TypeOK
<1>2. CASE Fault /\ spoiled' = spoiled \cup {catalog} /\ UNCHANGED <<saved, files>>
    BY <1>2, DatabasesAssumption DEF TypeOK, Fault, DatabasesAssumption
<1> QED
    BY <1>1, <1>2 DEF Save

--------------------------------------------------------------------------------
(* Every step keeps the invariant *)

\* The process ends, and the files stay as they are.
LEMMA GoneStep ==
    ASSUME IInv, Gone, UNCHANGED <<fileVars, target, spoiled>>, faults' \in 0 .. MaxFaults
    PROVE  IInv'
<1>1. TypeOK'
    <2>1. (current \in Name \cup {None} /\ pc \in Labels /\ starting \in BOOLEAN)'
        BY DEF Gone, Labels
    <2> QED
        BY <2>1, NoManagersEffect DEF Gone, IInv, TypeOK, fileVars
<1>2. Progress' /\ Halfway' /\ OneDatabase' /\ OpenFilesStay'
    BY DEF Gone, NoManagers, Progress, Halfway, OneDatabase, OpenFilesStay, Started
<1>3. Contents'
    BY DatabasesAssumption
       DEF Gone, NoManagers, IInv, Contents, Has, fileVars, DatabasesAssumption
<1> QED
    BY <1>1, <1>2, <1>3 DEF IInv

LEMMA CrashStep ==
    ASSUME IInv, Crash
    PROVE  IInv'
BY GoneStep DEF Crash, boundVars, IInv, TypeOK

LEMMA NullPointerStep ==
    ASSUME IInv, NEW t \in Table, NullPointer(t)
    PROVE  IInv'
BY GoneStep DEF NullPointer, boundVars, IInv, TypeOK

LEMMA StartStep ==
    ASSUME IInv, NEW n \in Name, Start(n)
    PROVE  IInv'
<1>1. TypeOK'
    BY DEF Start, IInv, TypeOK, Labels, fileVars, managerVars, memoryVars, boundVars
<1>2. Progress' /\ Halfway'
    BY DEF Start, IInv, Progress, Halfway, Started, managerVars
<1>3. OneDatabase' /\ OpenFilesStay' /\ Contents'
    BY DEF Start, IInv, OneDatabase, OpenFilesStay, Contents, Has, fileVars, managerVars,
           memoryVars, boundVars
<1> QED
    BY <1>1, <1>2, <1>3 DEF IInv

LEMMA UseStep ==
    ASSUME IInv, NEW n \in Name, Use(n)
    PROVE  IInv'
<1>1. TypeOK'
    BY NoManagersEffect DEF Use, IInv, TypeOK, Labels, fileVars, boundVars
<1>2. Progress' /\ Halfway' /\ OneDatabase' /\ OpenFilesStay'
    BY DEF Use, NoManagers, IInv, Progress, Halfway, OneDatabase, OpenFilesStay, Started
<1>3. Contents'
    BY DatabasesAssumption
       DEF Use, NoManagers, IInv, Contents, Has, fileVars, boundVars, DatabasesAssumption
<1> QED
    BY <1>1, <1>2, <1>3 DEF IInv

\* The catalog has what its file has, and without one that is nothing.
LEMMA LoadCatalogStep ==
    ASSUME IInv, LoadCatalog
    PROVE  IInv'
<1>1. FileOf[target] \in File
    BY DatabasesAssumption DEF IInv, TypeOK, DatabasesAssumption
<1>2. /\ catalog' = FileOf[target]
      /\ tableIds' = saved[FileOf[target]]
      /\ nextId' = NextAfter(tableIds')
    BY <1>1 DEF LoadCatalog, IInv, Contents
<1>3. TypeOK'
    <2>1. tableIds' \in [Table -> Ids]
        BY <1>1, <1>2 DEF IInv, TypeOK
    <2> QED
        BY <1>1, <1>2, <2>1, NextAfterType
           DEF LoadCatalog, IInv, TypeOK, Labels, fileVars, boundVars
<1>4. Progress' /\ Halfway' /\ OneDatabase' /\ OpenFilesStay'
    BY <1>2 DEF LoadCatalog, IInv, Progress, Halfway, OneDatabase, OpenFilesStay, Started, fileVars
<1>5. Contents'
    BY <1>2, DatabasesAssumption
       DEF LoadCatalog, IInv, Progress, Contents, Has, fileVars, boundVars, DatabasesAssumption
<1> QED
    BY <1>3, <1>4, <1>5 DEF IInv

LEMMA OpenStorageStep ==
    ASSUME IInv, OpenStorage
    PROVE  IInv'
<1>1. FileOf[target] \in File
    BY DatabasesAssumption DEF IInv, TypeOK, DatabasesAssumption
<1>2. TypeOK'
    BY <1>1 DEF OpenStorage, IInv, TypeOK, Labels, memoryVars, boundVars
<1>3. Progress' /\ Halfway'
    BY DEF OpenStorage, IInv, Progress, Halfway, Started, memoryVars
<1>4. OneDatabase' /\ OpenFilesStay'
    BY <1>1 DEF OpenStorage, IInv, TypeOK, Progress, OneDatabase, OpenFilesStay, Has
<1>5. Contents'
    BY <1>1 DEF OpenStorage, IInv, TypeOK, Progress, Contents, Has, memoryVars, boundVars
<1> QED
    BY <1>2, <1>3, <1>4, <1>5 DEF IInv

LEMMA OpenStorageFailsStep ==
    ASSUME IInv, OpenStorageFails
    PROVE  IInv'
<1>1. faults' \in 0 .. MaxFaults
    BY DatabasesAssumption DEF OpenStorageFails, Fault, IInv, TypeOK, DatabasesAssumption
<1>2. CASE starting
    BY <1>1, <1>2, GoneStep DEF OpenStorageFails
<1>3. CASE ~ starting
    <2>1. TypeOK'
        BY <1>1, <1>3 DEF OpenStorageFails, IInv, TypeOK, Labels, fileVars, managerVars, memoryVars
    <2>2. Progress' /\ Halfway'
        BY <1>3, DatabasesAssumption
           DEF OpenStorageFails, IInv, TypeOK, Progress, Halfway, Started, managerVars, DatabasesAssumption
    <2>3. OneDatabase' /\ OpenFilesStay' /\ Contents'
        BY <1>3 DEF OpenStorageFails, IInv, OneDatabase, OpenFilesStay, Contents, Has,
                    fileVars, managerVars, memoryVars
    <2> QED
        BY <2>1, <2>2, <2>3 DEF IInv
<1> QED
    BY <1>2, <1>3

LEMMA OpenWalStep ==
    ASSUME IInv, OpenWal
    PROVE  IInv'
<1>1. FileOf[target] \in File /\ FileOf[target] # None /\ target # None
    BY DatabasesAssumption DEF IInv, TypeOK, DatabasesAssumption
<1>2. TypeOK'
    BY <1>1 DEF OpenWal, IInv, TypeOK, Labels, memoryVars, boundVars
<1>3. Progress' /\ Halfway'
    BY <1>1 DEF OpenWal, IInv, Progress, Halfway, Started
<1>4. OneDatabase' /\ OpenFilesStay'
    BY <1>1 DEF OpenWal, IInv, TypeOK, Progress, OneDatabase, OpenFilesStay, Has
<1>5. Contents'
    BY <1>1 DEF OpenWal, IInv, TypeOK, Contents, Has, memoryVars, boundVars
<1> QED
    BY <1>2, <1>3, <1>4, <1>5 DEF IInv

LEMMA RecoverStep ==
    ASSUME IInv, Recover
    PROVE  IInv'
<1>1. CASE starting /\ wal \in poisoned
    BY <1>1, GoneStep DEF Recover, boundVars, IInv, TypeOK
<1>2. CASE ~ (starting /\ wal \in poisoned)
    <2>1. TypeOK'
        BY <1>2 DEF Recover, IInv, TypeOK, Labels, fileVars, managerVars, memoryVars, boundVars
    <2>2. Progress' /\ Halfway'
        BY <1>2, DatabasesAssumption
           DEF Recover, IInv, TypeOK, Progress, Halfway, OneDatabase, Started, managerVars, DatabasesAssumption
    <2>3. OneDatabase' /\ OpenFilesStay' /\ Contents'
        BY <1>2 DEF Recover, IInv, OneDatabase, OpenFilesStay, Contents, Has, fileVars,
                    managerVars, memoryVars, boundVars
    <2> QED
        BY <2>1, <2>2, <2>3 DEF IInv
<1> QED
    BY <1>1, <1>2

LEMMA CreateTableStep ==
    ASSUME IInv, NEW t \in Table, CreateTable(t)
    PROVE  IInv'
<1>1. catalog \in File
    BY DEF CreateTable, IInv, TypeOK, Progress, Started
<1>2. tableIds' \in [Table -> Ids] /\ nextId' \in 1 .. MaxTableId + 1
    <2>1. nextId \in Ids
        BY DatabasesAssumption DEF CreateTable, IInv, TypeOK, Ids, DatabasesAssumption
    <2> QED
        BY <2>1, IdsOfExcept, DatabasesAssumption
           DEF CreateTable, IInv, TypeOK, Ids, DatabasesAssumption
<1>3. IdsOf(tableIds) \subseteq IdsOf(tableIds')
    <2>1. tableIds[t] \notin IdsOf(tableIds) /\ tableIds \in [Table -> Ids] /\ nextId \in Ids
        BY DatabasesAssumption DEF CreateTable, IdsOf, IInv, TypeOK, Ids, DatabasesAssumption
    <2> QED
        BY <2>1, IdsOfExcept DEF CreateTable
<1>4. TypeOK'
    BY <1>1, <1>2, SaveEffect DEF CreateTable, IInv, TypeOK, managerVars, stepVars
<1>5. Progress' /\ Halfway' /\ OneDatabase' /\ OpenFilesStay'
    BY <1>1, <1>2, SaveEffect
       DEF CreateTable, IInv, TypeOK, Progress, Halfway, OneDatabase, OpenFilesStay, Started, Has,
           managerVars, stepVars
<1>6. Contents'
    <2>1. \A f \in File : storage = f => f = catalog
        BY DatabasesAssumption DEF IInv, OneDatabase, DatabasesAssumption
    <2> QED
        BY <1>1, <1>2, <1>3, <2>1, SaveEffect
           DEF CreateTable, IInv, TypeOK, Contents, Has, managerVars
<1> QED
    BY <1>4, <1>5, <1>6 DEF IInv

\* What a statement on a table finds: one database, and a table of it.
LEMMA OnTableEffect ==
    ASSUME IInv, NEW t \in Table, OnTable(t)
    PROVE  /\ storage \in File /\ catalog = storage /\ wal = storage
           /\ tableIds \in [Table -> Ids]
           /\ tableIds[t] \in IdsOf(tableIds) /\ tableIds[t] \in Ids \ {0}
           /\ pc = "idle"
           /\ UNCHANGED <<catalog, storage, wal, current, nextId, pc, target, starting>>
BY DEF OnTable, IInv, TypeOK, Progress, OneDatabase, IdsOf, stepVars

LEMMA DropTableStep ==
    ASSUME IInv, NEW t \in Table, DropTable(t)
    PROVE  IInv'
<1>1. /\ storage \in File /\ catalog = storage /\ wal = storage
      /\ tableIds \in [Table -> Ids]
      /\ pc = "idle"
      /\ UNCHANGED <<catalog, storage, wal, current, nextId, pc, target, starting, poisoned, walGood>>
    BY OnTableEffect DEF DropTable
<1>2. tableIds' \in [Table -> Ids] /\ IdsOf(tableIds) \ {tableIds[t]} \subseteq IdsOf(tableIds')
    <2>1. 0 \in Ids
        BY DatabasesAssumption DEF Ids, DatabasesAssumption
    <2> QED
        BY <1>1, <2>1, IdsOfExcept DEF DropTable
<1>3. pages' = [pages EXCEPT ![storage] = @ \ {tableIds[t]}]
    BY DEF DropTable
<1>4. TypeOK /\ Save
    BY DEF IInv, DropTable
<1>5. TypeOK'
    BY <1>1, <1>2, <1>3, <1>4, SaveEffect DEF TypeOK
<1>6. Progress' /\ Halfway' /\ OneDatabase' /\ OpenFilesStay'
    BY <1>1, <1>2, <1>4, SaveEffect
       DEF IInv, Progress, Halfway, OneDatabase, OpenFilesStay, Started, Has
<1>7. Contents'
    <2>1. ASSUME NEW f \in File, ~ Has(f, "cat")'
          PROVE  saved'[f] = NoTables
        BY <1>1, <1>2, <1>4, <2>1, SaveEffect DEF IInv, Contents, Has
    <2>2. ASSUME NEW f \in File \ spoiled', f # storage
          PROVE  pages'[f] \subseteq IdsOf(saved'[f])
        BY <1>1, <1>2, <1>3, <1>4, <2>2, SaveEffect DEF IInv, TypeOK, Contents
    <2>3. ASSUME storage \notin spoiled'
          PROVE  saved'[storage] = tableIds' /\ pages'[storage] \subseteq IdsOf(tableIds')
        <3>1. saved'[storage] = tableIds' /\ storage \notin spoiled
            BY <1>1, <1>2, <1>4, <2>3, SaveEffect
        <3>2. pages[storage] \subseteq IdsOf(tableIds)
            BY <1>1, <3>1 DEF IInv, Contents
        <3> QED
            BY <1>1, <1>2, <1>3, <1>4, <3>1, <3>2 DEF TypeOK
    <2> QED
        BY <1>1, <2>1, <2>2, <2>3 DEF Contents
<1> QED
    BY <1>5, <1>6, <1>7 DEF IInv

LEMMA WriteStep ==
    ASSUME IInv, NEW t \in Table, NEW left \in SUBSET {tableIds[t]}, Write(t, left)
    PROVE  IInv'
<1>1. OnTable(t)
    BY DEF Write
<1>2. TypeOK'
    BY <1>1, OnTableEffect DEF Write, IInv, TypeOK, boundVars
<1>3. Progress' /\ Halfway' /\ OneDatabase' /\ OpenFilesStay'
    BY <1>1, OnTableEffect
       DEF Write, IInv, Progress, Halfway, OneDatabase, OpenFilesStay, Started, Has
<1>4. Contents'
    BY <1>1, OnTableEffect DEF Write, IInv, TypeOK, Contents, Has, boundVars
<1> QED
    BY <1>2, <1>3, <1>4 DEF IInv

LEMMA RefusedInsertStep ==
    ASSUME IInv, NEW t \in Table, RefusedInsert(t)
    PROVE  IInv'
<1>1. OnTable(t)
    BY DEF RefusedInsert
<1>2. TypeOK'
    BY <1>1, OnTableEffect DEF RefusedInsert, IInv, TypeOK, boundVars
<1>3. Progress' /\ Halfway' /\ OneDatabase' /\ OpenFilesStay' /\ Contents'
    BY <1>1, OnTableEffect
       DEF RefusedInsert, IInv, Progress, Halfway, OneDatabase, OpenFilesStay, Contents, Started,
           Has, boundVars
<1> QED
    BY <1>2, <1>3 DEF IInv

LEMMA CreateDbStep ==
    ASSUME IInv, NEW n \in Name, CreateDb(n)
    PROVE  IInv'
<1>1. FileOf[n] \in File
    BY DatabasesAssumption DEF DatabasesAssumption
<1>2. TypeOK'
    BY <1>1 DEF CreateDb, IInv, TypeOK, Labels, managerVars, memoryVars, boundVars
<1>3. Progress' /\ Halfway'
    BY <1>1 DEF CreateDb, IInv, TypeOK, Progress, Halfway, Started, Has, managerVars
<1>4. OneDatabase' /\ OpenFilesStay' /\ Contents'
    BY <1>1 DEF CreateDb, IInv, TypeOK, OneDatabase, OpenFilesStay, Contents, Has, managerVars,
                memoryVars, boundVars
<1> QED
    BY <1>2, <1>3, <1>4 DEF IInv

LEMMA CreateCatStep ==
    ASSUME IInv, CreateCat
    PROVE  IInv'
<1>1. FileOf[target] \in File
    BY DatabasesAssumption DEF IInv, TypeOK, DatabasesAssumption
<1>2. TypeOK'
    BY <1>1 DEF CreateCat, IInv, TypeOK, Labels, managerVars, memoryVars, boundVars
<1>3. Progress' /\ Halfway'
    BY DEF CreateCat, IInv, Progress, Halfway, Started, managerVars
<1>4. OneDatabase' /\ OpenFilesStay' /\ Contents'
    BY <1>1 DEF CreateCat, IInv, TypeOK, OneDatabase, OpenFilesStay, Contents, Has, managerVars,
                memoryVars, boundVars
<1> QED
    BY <1>2, <1>3, <1>4 DEF IInv

LEMMA DropStep ==
    ASSUME IInv, NEW n \in Name, Drop(n)
    PROVE  IInv'
<1>1. TypeOK'
    BY DEF Drop, IInv, TypeOK, Labels, fileVars, managerVars, memoryVars, boundVars
<1>2. Progress' /\ Halfway'
    BY DEF Drop, IInv, Progress, Halfway, IsCurrent, Started, managerVars
<1>3. OneDatabase' /\ OpenFilesStay' /\ Contents'
    BY DEF Drop, IInv, OneDatabase, OpenFilesStay, Contents, Has, fileVars, managerVars,
           memoryVars, boundVars
<1> QED
    BY <1>1, <1>2, <1>3 DEF IInv

\* What DROP DATABASE removes is not what the engine has open, however it is
\* spelled: the name differs from the current one in more than its case.
LEMMA DroppedIsNotOpen ==
    ASSUME IInv, pc \in {"dropWal", "dropCat", "dropDb"}
    PROVE  FileOf[target] \in File /\ FileOf[target] # storage /\ FileOf[target] # wal
BY DatabasesAssumption
   DEF IInv, TypeOK, Progress, Halfway, OneDatabase, IsCurrent, Started, DatabasesAssumption

LEMMA RemoveWalStep ==
    ASSUME IInv, RemoveWal
    PROVE  IInv'
<1>1. pc = "dropWal" /\ pc' = "dropCat"
    BY RemovalOrder DEF RemoveWal
<1>2. UNCHANGED <<managerVars, memoryVars, target, starting, faults>>
    BY DEF RemoveWal, Removing
<1>3. FileOf[target] \in File /\ FileOf[target] # storage /\ FileOf[target] # wal
    BY <1>1, DroppedIsNotOpen
<1>4. TypeOK'
    BY <1>1, <1>2, <1>3 DEF RemoveWal, IInv, TypeOK, Labels, managerVars, memoryVars
<1>5. Progress' /\ Halfway'
    BY <1>1, <1>2, <1>3 DEF RemoveWal, IInv, TypeOK, Progress, Halfway, IsCurrent, Started, Has, managerVars
<1>6. OneDatabase' /\ OpenFilesStay' /\ Contents'
    BY <1>2, <1>3 DEF RemoveWal, IInv, TypeOK, OneDatabase, OpenFilesStay, Contents, Has, managerVars, memoryVars
<1> QED
    BY <1>4, <1>5, <1>6 DEF IInv

LEMMA RemoveCatStep ==
    ASSUME IInv, RemoveCat
    PROVE  IInv'
<1>1. pc = "dropCat" /\ pc' = "dropDb"
    BY RemovalOrder DEF RemoveCat
<1>2. UNCHANGED <<managerVars, memoryVars, target, starting, faults>>
    BY DEF RemoveCat, Removing
<1>3. FileOf[target] \in File /\ FileOf[target] # storage /\ FileOf[target] # wal
    BY <1>1, DroppedIsNotOpen
<1>4. TypeOK'
    <2>1. NoTables \in [Table -> Ids]
        BY DatabasesAssumption DEF NoTables, Ids, DatabasesAssumption
    <2> QED
        BY <1>1, <1>2, <1>3, <2>1 DEF RemoveCat, IInv, TypeOK, Labels, managerVars, memoryVars
<1>5. Progress' /\ Halfway'
    BY <1>1, <1>2, <1>3 DEF RemoveCat, IInv, TypeOK, Progress, Halfway, IsCurrent, Started, Has, managerVars
<1>6. OneDatabase' /\ OpenFilesStay' /\ Contents'
    BY <1>2, <1>3 DEF RemoveCat, IInv, TypeOK, OneDatabase, OpenFilesStay, Contents, Has, managerVars, memoryVars
<1> QED
    BY <1>4, <1>5, <1>6 DEF IInv

LEMMA RemoveDbStep ==
    ASSUME IInv, RemoveDb
    PROVE  IInv'
<1>1. pc = "dropDb" /\ pc' = "idle"
    BY RemovalOrder DEF RemoveDb
<1>2. UNCHANGED <<managerVars, memoryVars, target, starting, faults>>
    BY DEF RemoveDb, Removing
<1>3. FileOf[target] \in File /\ FileOf[target] # storage /\ FileOf[target] # wal
    BY <1>1, DroppedIsNotOpen
<1>4. TypeOK'
    BY <1>1, <1>2, <1>3 DEF RemoveDb, IInv, TypeOK, Labels, managerVars, memoryVars
<1>5. Progress' /\ Halfway'
    BY <1>1, <1>2 DEF RemoveDb, IInv, Progress, Halfway, Started, managerVars
<1>6. OneDatabase' /\ OpenFilesStay' /\ Contents'
    BY <1>2, <1>3 DEF RemoveDb, IInv, TypeOK, OneDatabase, OpenFilesStay, Contents, Has, managerVars, memoryVars
<1> QED
    BY <1>4, <1>5, <1>6 DEF IInv

LEMMA RemoveFailsStep ==
    ASSUME IInv, RemoveFails
    PROVE  IInv'
<1>1. TypeOK'
    BY DatabasesAssumption
       DEF RemoveFails, Fault, IInv, TypeOK, Labels, fileVars, managerVars, memoryVars, DatabasesAssumption
<1>2. Progress' /\ Halfway'
    BY DEF RemoveFails, IInv, Progress, Halfway, Started, managerVars
<1>3. OneDatabase' /\ OpenFilesStay' /\ Contents'
    BY DEF RemoveFails, IInv, OneDatabase, OpenFilesStay, Contents, Has, fileVars, managerVars, memoryVars
<1> QED
    BY <1>1, <1>2, <1>3 DEF IInv

--------------------------------------------------------------------------------
(* Theorems *)

\* The invariant holds of a machine without databases.
THEOREM InitInvariant == Init => IInv
<1> SUFFICES ASSUME Init PROVE IInv
    OBVIOUS
<1>1. TypeOK
    <2>1. 0 \in Ids /\ 1 \in 1 .. MaxTableId + 1 /\ 0 \in 0 .. MaxFaults
        BY DatabasesAssumption DEF Ids, DatabasesAssumption
    <2> QED
        BY <2>1 DEF Init, TypeOK, NoTables, Labels
<1>2. Progress /\ Halfway /\ OneDatabase /\ OpenFilesStay
    BY DEF Init, Progress, Halfway, OneDatabase, OpenFilesStay, Started
<1>3. Contents
    BY DatabasesAssumption DEF Init, Contents, Has, DatabasesAssumption
<1> QED
    BY <1>1, <1>2, <1>3 DEF IInv

\* Every step of every statement, crash and failing file keeps it.
THEOREM StepInvariant == IInv /\ [Next]_vars => IInv'
<1> SUFFICES ASSUME IInv, [Next]_vars PROVE IInv'
    OBVIOUS
<1>1. CASE Next
    BY <1>1, CrashStep, NullPointerStep, StartStep, UseStep, LoadCatalogStep, OpenStorageStep,
       OpenStorageFailsStep, OpenWalStep, RecoverStep, CreateTableStep, DropTableStep, WriteStep,
       RefusedInsertStep, CreateDbStep, CreateCatStep, DropStep, RemoveWalStep, RemoveCatStep,
       RemoveDbStep, RemoveFailsStep
       DEF Next
<1>2. CASE UNCHANGED vars
    BY <1>2 DEF vars, fileVars, managerVars, memoryVars, stepVars, boundVars, IInv, TypeOK, Progress,
                Halfway, OneDatabase, OpenFilesStay, Contents, Has, IsCurrent
<1> QED
    BY <1>1, <1>2

\* The invariant holds in every state.
LEMMA Invariant == Spec => []IInv
BY InitInvariant, StepInvariant, PTL DEF Spec

\* Every variable has its type: among other things the counter of a catalog stays
\* in its bound however often catalogs are written and read again.
THEOREM TypeCorrect == Spec => []TypeOK
<1>1. IInv => TypeOK
    BY DEF IInv
<1> QED
    BY <1>1, Invariant, PTL

\* The engine never mixes the managers of two databases (switchDatabase).
THEOREM NeverMixed == Spec => []OneDatabase
<1>1. IInv => OneDatabase
    BY DEF IInv
<1> QED
    BY <1>1, Invariant, PTL

\* No DROP DATABASE removes a file the engine has open, however it spells the name
\* (executeDropDatabase).
THEOREM NeverRemovedWhileOpen == Spec => []OpenFilesStay
<1>1. IInv => OpenFilesStay
    BY DEF IInv
<1> QED
    BY <1>1, Invariant, PTL

\* Pages belong to tables of the catalog, so no table is born with rows, as long
\* as no fault came between a catalog and its pages.
THEOREM TablesOwnTheirPages == Spec => []PagesHaveTables
<1>1. IInv => PagesHaveTables
    BY DEF IInv, Contents, PagesHaveTables, IdsOf
<1> QED
    BY <1>1, Invariant, PTL

\* A step strands the files of a database only as Droppable says.
LEMMA StrandsOnly ==
    ASSUME IInv, [Next]_vars, NEW f \in File, Stranded(f)', ~ Stranded(f)
    PROVE  storage = None /\ catalog = f
<1>1. files'[f] # files[f]
    BY DEF Stranded, Has
<1>2. CASE OpenStorage
    BY <1>1, <1>2 DEF OpenStorage, IInv, TypeOK, Stranded, Has
<1>3. CASE OpenWal
    <2>1. FileOf[target] \in File /\ storage = FileOf[target]
        BY <1>3, DatabasesAssumption DEF OpenWal, IInv, TypeOK, Progress, DatabasesAssumption
    <2>2. Has(storage, "db")
        BY <2>1, DatabasesAssumption DEF IInv, OpenFilesStay, DatabasesAssumption
    <2> QED
        BY <1>1, <1>3, <2>1, <2>2 DEF OpenWal, IInv, TypeOK, Stranded, Has
<1>4. ASSUME NEW t \in Table, CreateTable(t) \/ DropTable(t)
      PROVE  storage = None /\ catalog = f
    <2>1. pc = "idle" /\ Save
        BY <1>4 DEF CreateTable, DropTable, OnTable
    <2>2. f = catalog /\ files'[f] = files[f] \cup {"cat"}
        BY <1>1, <2>1 DEF Save, IInv, TypeOK
    <2>3. storage # None => Has(f, "db")
        BY <2>2 DEF IInv, OneDatabase, OpenFilesStay
    <2> QED
        BY <2>2, <2>3 DEF Stranded, Has
<1>5. CASE \E n \in Name : CreateDb(n)
    BY <1>1, <1>5 DEF CreateDb, IInv, TypeOK, Stranded, Has
<1>6. CASE CreateCat
    BY <1>1, <1>6 DEF CreateCat, IInv, TypeOK, Halfway, Stranded, Has
<1>7. CASE RemoveWal \/ RemoveCat
    BY <1>1, <1>7 DEF RemoveWal, RemoveCat, IInv, TypeOK, Stranded, Has
<1>8. CASE RemoveDb
    <2>1. pc = "dropDb"
        BY <1>8, RemovalOrder DEF RemoveDb
    <2>2. f = FileOf[target] /\ files'[f] = files[f] \ {"db"}
        BY <1>1, <1>8 DEF RemoveDb, IInv, TypeOK
    <2>3. files[f] \subseteq {"db"}
        BY <2>1, <2>2 DEF IInv, TypeOK, Halfway, Has
    <2> QED
        BY <2>2, <2>3 DEF Stranded
<1>9. CASE UNCHANGED files
    BY <1>1, <1>9
<1> QED
    BY <1>2, <1>3, <1>4, <1>5, <1>6, <1>7, <1>8, <1>9
       DEF Next, Crash, NullPointer, Start, Use, LoadCatalog, OpenStorageFails, Recover, Write,
           RefusedInsert, Drop, RemoveFails, fileVars, vars

\* "A partial failure leaves the database still droppable": no failure and no crash
\* at any step of any statement strands files of a database without its .db, but
\* for the one case Droppable names.
THEOREM StaysDroppable == Spec => Droppable
<1>1. IInv /\ [Next]_vars
        => [\A f \in File : Stranded(f)' /\ ~ Stranded(f) => storage = None /\ catalog = f]_vars
    BY StrandsOnly
<1> QED
    BY <1>1, Invariant, PTL DEF Spec, Droppable

================================================================================

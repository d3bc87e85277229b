------------------------------ MODULE Tables_proofs ------------------------------
(***************************************************************************)
(* The catalog and the pages under any number of threads.                  *)
(*                                                                         *)
(* With or without engineMutex, and also when a crash loses the catalog    *)
(* file: types are kept, ids stay distinct, and where no crash loses the   *)
(* file, only DROP removes a table.  After a restart the catalog is what   *)
(* its file was, so the file must have distinct ids too, and it must be    *)
(* the catalog whenever no thread is between the truncation and the write  *)
(* (FileIsCatalog).                                                        *)
(*                                                                         *)
(* When every statement holds engineMutex: the free list is exact, a       *)
(* statement changes only pages of its own table, no page is orphaned and  *)
(* a new table is empty.  At most one thread is in a statement then, and   *)
(* the argument is about that one: each page it has listed is once in its  *)
(* list, carries the id it looked up and is cached with that tag           *)
(* (PagesOwned, ViewOwned), that id is still the id of its table           *)
(* (IdInHand), and a DROP has all the pages it has still to free in its    *)
(* list (DropListed).                                                      *)
(***************************************************************************)
EXTENDS Tables, LargestOf, StorageFile_proofs

CatalogTypeOK ==
    /\ tableIds \in [Name -> Ids]
    /\ catFile \in [Name -> Ids]
    /\ nextTableId \in Nat \ {0}
    /\ pc \in [Thread -> Labels]

\* No two tables of the file have one id.
FileDistinctIds ==
    \A m, n \in Name : catFile[m] # NoTable /\ catFile[m] = catFile[n] => m = n

\* Unless Catalog::save is in progress.
FileIsCatalog == CatalogFree => catFile = tableIds

IInv == CatalogTypeOK /\ DistinctIds /\ FileDistinctIds /\ FileIsCatalog

--------------------------------------------------------------------------------
(* Lemmas about the catalog *)

\* What load leaves in the counter is beyond every id of the file.
LEMMA NextIdBeyond ==
    ASSUME catFile \in [Name -> Ids]
    PROVE  NextId \in Nat \ {0} /\ \A n \in Name : catFile[n] < NextId
<1> DEFINE S == {0} \cup {catFile[n] : n \in Name}
<1>1. MaxTableId \in Nat
    BY StorageAssumption DEF StorageAssumption
<1>2. S \in SUBSET (-1 .. MaxTableId) /\ S # {} /\ 0 \in S
    BY <1>1 DEF Ids, NoTable
<1>3. Max(S) \in S /\ \A y \in S : y <= Max(S)
    <2> HIDE DEF S
    <2> QED
        BY <1>1, <1>2, MaxOfBounded
<1>4. Max(S) \in Nat /\ \A n \in Name : catFile[n] \in Int /\ catFile[n] <= Max(S)
    BY <1>1, <1>2, <1>3 DEF Ids, NoTable
<1>5. NextId = 1 + Max(S)
    BY DEF NextId
<1> QED
    <2> HIDE DEF S
    <2> QED
        BY <1>4, <1>5

\* The steps of a statement that are not about the catalog.
Elsewhere(th) ==
    /\ UNCHANGED catalogVars
    /\ pc[th] # "save"
    /\ \E label \in Labels \ {"save"} : pc' = [pc EXCEPT ![th] = label]

LEMMA ElsewhereStep ==
    ASSUME IInv, NEW th \in Thread, Elsewhere(th)
    PROVE  IInv'
<1>1. CatalogTypeOK' /\ DistinctIds' /\ FileDistinctIds'
    BY DEF Elsewhere, IInv, CatalogTypeOK, DistinctIds, FileDistinctIds, Exists, catalogVars
<1>2. FileIsCatalog'
    BY DEF Elsewhere, IInv, CatalogTypeOK, FileIsCatalog, CatalogFree, catalogVars
<1> QED
    BY <1>1, <1>2 DEF IInv

LEMMA CreateEntryStep ==
    ASSUME IInv, NEW th \in Thread, CreateEntry(th)
    PROVE  IInv'
<1>1. nextTableId \in Nat \ {0} /\ MaxTableId \in Nat /\ nextTableId <= MaxTableId
    BY StorageAssumption DEF CreateEntry, IInv, CatalogTypeOK, StorageAssumption
<1>2. CatalogTypeOK'
    <2>1. nextTableId \in Ids /\ NoTable \in Ids
        BY <1>1 DEF Ids
    <2>2. nextTableId + 1 \in Nat \ {0}
        BY <1>1
    <2> QED
        BY <2>1, <2>2 DEF CreateEntry, Goto, Labels, IInv, CatalogTypeOK
<1>3. DistinctIds'
    <2>1. \A n \in Name : tableIds[n] \in Int /\ tableIds[n] < nextTableId
        BY <1>1 DEF IInv, CatalogTypeOK, DistinctIds, Ids, NoTable
    <2>2. \A n \in Name : tableIds'[n] = tableIds[n] \/ (n = name[th] /\ tableIds'[n] = nextTableId)
        BY DEF CreateEntry, IInv, CatalogTypeOK
    <2>3. nextTableId \in Nat /\ nextTableId' = nextTableId + 1
        BY DEF CreateEntry, IInv, CatalogTypeOK
    <2> QED
        BY <2>1, <2>2, <2>3 DEF IInv, DistinctIds, Exists, NoTable
<1>4. FileDistinctIds' /\ FileIsCatalog'
    BY DEF CreateEntry, Goto, IInv, CatalogTypeOK, FileDistinctIds, FileIsCatalog, CatalogFree
<1> QED
    BY <1>2, <1>3, <1>4 DEF IInv

LEMMA DropEntryStep ==
    ASSUME IInv, NEW th \in Thread, DropEntry(th)
    PROVE  IInv'
<1>1. NoTable \in Ids
    BY StorageAssumption DEF Ids, NoTable, StorageAssumption
<1>2. CatalogTypeOK'
    BY <1>1 DEF DropEntry, Goto, Labels, IInv, CatalogTypeOK
<1>3. DistinctIds'
    <2>1. \A n \in Name : tableIds'[n] = tableIds[n] \/ tableIds'[n] = NoTable
        BY DEF DropEntry, IInv, CatalogTypeOK
    <2>2. nextTableId \in Nat /\ nextTableId' = nextTableId
        BY DEF DropEntry, IInv, CatalogTypeOK
    <2> QED
        BY <2>1, <2>2 DEF IInv, DistinctIds, Exists, NoTable
<1>4. FileDistinctIds' /\ FileIsCatalog'
    BY DEF DropEntry, Goto, IInv, CatalogTypeOK, FileDistinctIds, FileIsCatalog, CatalogFree
<1> QED
    BY <1>2, <1>3, <1>4 DEF IInv

LEMMA SaveStep ==
    ASSUME IInv, NEW th \in Thread, Save(th)
    PROVE  IInv'
<1>1. CatalogTypeOK' /\ DistinctIds'
    BY DEF Save, Finish, Goto, Labels, IInv, CatalogTypeOK, DistinctIds, Exists
<1>2. FileDistinctIds' /\ FileIsCatalog'
    BY DEF Save, IInv, DistinctIds, FileDistinctIds, FileIsCatalog, Exists
<1> QED
    BY <1>1, <1>2 DEF IInv

LEMMA RestartStep ==
    ASSUME IInv, Restart
    PROVE  IInv'
<1>1. tableIds' = catFile /\ catFile' = catFile /\ nextTableId' = NextId
    BY DEF Restart
<1>2. catFile \in [Name -> Ids] /\ FileDistinctIds
    BY DEF IInv, CatalogTypeOK
<1>3. CatalogTypeOK'
    BY <1>1, <1>2, NextIdBeyond DEF Restart, Labels, CatalogTypeOK
<1>4. DistinctIds' /\ FileDistinctIds' /\ FileIsCatalog'
    BY <1>1, <1>2, NextIdBeyond DEF DistinctIds, FileDistinctIds, FileIsCatalog, Exists
<1> QED
    BY <1>3, <1>4 DEF IInv

\* Which steps are which.
LEMMA StatementSteps ==
    ASSUME IInv, NEW th \in Thread, Statement(th)
    PROVE  Elsewhere(th) \/ CreateEntry(th) \/ DropEntry(th) \/ Save(th)
<1> USE DEF Elsewhere, Labels
<1>1. CASE \E n \in Name : BeginCreate(th, n) \/ BeginDrop(th, n) \/ BeginRewrite(th, n)
    BY <1>1 DEF BeginCreate, BeginDrop, BeginRewrite, Begin, Goto
<1>2. CASE \E n \in Name, row \in Row : BeginInsert(th, n, row)
    BY <1>2 DEF BeginInsert, Begin, Goto
<1>3. CASE CreateNothing(th) \/ DropMissing(th) \/ DropNothing(th) \/ Return(th)
    BY <1>3 DEF CreateNothing, DropMissing, DropNothing, Return, Finish, Goto
<1>4. CASE DropLookup(th) \/ DropScan(th) \/ DropFreed(th) \/ Lookup(th) \/ Cleared(th)
    BY <1>4 DEF DropLookup, DropScan, DropFreed, Lookup, Cleared, Goto, catalogVars
<1>5. CASE DropFree(th) \/ Clear(th) \/ AppendToLast(th)
    BY <1>5 DEF DropFree, Clear, AppendToLast, IInv, CatalogTypeOK
<1>6. CASE OpenInsert(th) \/ OpenRewrite(th)
    BY <1>6 DEF OpenInsert, OpenRewrite, OpenTable, Goto, catalogVars
<1>7. CASE Fill(th) \/ GiveBack(th) \/ \E p \in PageIds : Allocate(th, p)
    BY <1>7 DEF Fill, GiveBack, Allocate, Goto
<1> QED
    BY <1>1, <1>2, <1>3, <1>4, <1>5, <1>6, <1>7 DEF Statement

--------------------------------------------------------------------------------
(* Theorems about the catalog *)

\* The invariant holds of an empty file.
THEOREM InitInvariant == Init => IInv
<1> SUFFICES ASSUME Init PROVE IInv
    OBVIOUS
<1>1. CatalogTypeOK
    BY StorageAssumption DEF Init, CatalogTypeOK, Ids, NoTable, Labels, StorageAssumption
<1>2. DistinctIds /\ FileDistinctIds /\ FileIsCatalog
    BY DEF Init, DistinctIds, FileDistinctIds, FileIsCatalog, Exists, NoTable
<1> QED
    BY <1>1, <1>2 DEF IInv

\* Every step of every thread, and every crash, keeps it.
THEOREM StepInvariant == IInv /\ [Next]_vars => IInv'
<1> SUFFICES ASSUME IInv, [Next]_vars PROVE IInv'
    OBVIOUS
<1>1. CASE Restart
    BY <1>1, RestartStep
<1>2. CASE \E th \in Thread : Statement(th)
    BY <1>2, StatementSteps, ElsewhereStep, CreateEntryStep, DropEntryStep, SaveStep
<1>3. CASE UNCHANGED vars
    BY <1>3 DEF vars, catalogVars, threadVars, IInv, CatalogTypeOK, DistinctIds, FileDistinctIds,
                FileIsCatalog, CatalogFree, Exists
<1> QED
    BY <1>1, <1>2, <1>3 DEF Next

\* The invariant holds in every state.
LEMMA Invariant == Spec => []IInv
BY InitInvariant, StepInvariant, PTL DEF Spec

\* Two tables never have one id, and an id not handed out yet is nobody's: with or
\* without engineMutex, and whatever a crash leaves of the catalog file.
THEOREM IdsStayDistinct == Spec => []DistinctIds
<1>1. IInv => DistinctIds
    BY DEF IInv
<1> QED
    BY <1>1, Invariant, PTL

\* A step that removes a table is a step of its DROP.
LEMMA RemovesOnlyByDrop ==
    ASSUME ~ TornSave, IInv, [Next]_vars, NEW n \in Name, Exists(n), ~ Exists(n)'
    PROVE  \E th \in Thread : name[th] = n /\ pc[th] \in {"dropEntry", "save"}
<1>1. tableIds'[n] # tableIds[n]
    BY DEF Exists
<1>2. CASE Restart
    BY <1>1, <1>2 DEF Restart, IInv, FileIsCatalog
<1>3. ASSUME NEW th \in Thread, Statement(th)
      PROVE  name[th] = n /\ pc[th] = "dropEntry"
    <2>1. ~ Elsewhere(th) /\ ~ Save(th)
        BY <1>1 DEF Elsewhere, Save, catalogVars
    <2>2. CASE CreateEntry(th)
        BY <1>1, <2>2 DEF CreateEntry, Exists, IInv, CatalogTypeOK, NoTable
    <2>3. CASE DropEntry(th)
        BY <1>1, <2>3 DEF DropEntry, IInv, CatalogTypeOK
    <2> QED
        BY <1>3, <2>1, <2>2, <2>3, StatementSteps
<1>4. CASE UNCHANGED vars
    BY <1>1, <1>4 DEF vars, catalogVars
<1> QED
    BY <1>2, <1>3, <1>4 DEF Next

\* As long as no crash falls between the truncation of the catalog file and its
\* write, a table disappears only in a DROP TABLE that names it.
THEOREM RemovedByDrop == ~ TornSave => (Spec => OnlyDropRemoves)
<1> SUFFICES ASSUME ~ TornSave PROVE Spec => OnlyDropRemoves
    OBVIOUS
<1>1. IInv /\ [Next]_vars
        => [\A n \in Name : Exists(n) /\ ~ Exists(n)'
                => \E th \in Thread : name[th] = n /\ pc[th] \in {"dropEntry", "save"}]_vars
    BY RemovesOnlyByDrop
<1> QED
    BY <1>1, Invariant, PTL DEF Spec, OnlyDropRemoves

--------------------------------------------------------------------------------
(* Types *)

\* A statement that adds a row has that row, and the page for it.
RowInHand(th) == pc[th] \in {"fill", "giveBack"} => pages[th] # <<>> /\ todo[th] # <<>>

TypeInv == TypeOK /\ \A th \in Thread : RowInHand(th)

LEMMA Constants ==
    /\ MaxPages \in Nat /\ MaxTableId \in Nat
    /\ Ids \subseteq Tags \ {0} /\ NoTable \in Ids /\ 0 \in Tags
    /\ NoView \in [PageIds -> Page]
<1>1. MaxPages \in Nat /\ MaxTableId \in Nat
    BY StorageAssumption DEF StorageAssumption
<1>2. Ids \subseteq Tags \ {0} /\ NoTable \in Ids /\ 0 \in Tags
    BY <1>1 DEF Ids, Tags, NoTable
<1> QED
    BY <1>1, <1>2, BlankIsPage DEF NoView

\* ... and load finds no more ids than there are.
LEMMA NextIdBounded ==
    ASSUME catFile \in [Name -> Ids]
    PROVE  NextId \in 1 .. MaxTableId + 1
<1> DEFINE S == {0} \cup {catFile[n] : n \in Name}
<1>1. S \in SUBSET (-1 .. MaxTableId) /\ S # {} /\ 0 \in S
    BY Constants DEF Ids, NoTable
<1>2. Max(S) \in S /\ \A y \in S : y <= Max(S)
    <2> HIDE DEF S
    <2> QED
        BY <1>1, Constants, MaxOfBounded
<1>3. NextId = 1 + Max(S)
    BY DEF NextId
<1>4. Max(S) \in 0 .. MaxTableId
    <2> HIDE DEF S
    <2>1. Max(S) \in -1 .. MaxTableId /\ 0 <= Max(S)
        BY <1>1, <1>2
    <2> QED
        BY <2>1, Constants
<1> QED
    <2> HIDE DEF S
    <2> QED
        BY <1>3, <1>4, Constants

\* The parts of TypeOK: what all threads share, and what each has.
SharedTypeOK ==
    /\ StorageTypeOK
    /\ tableIds \in [Name -> Ids]
    /\ catFile \in [Name -> Ids]
    /\ nextTableId \in 1 .. MaxTableId + 1

ThreadTypeOK ==
    /\ pc \in [Thread -> Labels]
    /\ name \in [Thread -> Name]
    /\ tid \in [Thread -> Ids]
    /\ pages \in [Thread -> Seq(PageIds)]
    /\ view \in [Thread -> [PageIds -> Page]]
    /\ todo \in [Thread -> Seq(Row)]

LEMMA TypeParts == TypeOK <=> SharedTypeOK /\ ThreadTypeOK /\ outside \in SUBSET Thread
BY DEF TypeOK, SharedTypeOK, ThreadTypeOK

LEMMA TypePartsNext == TypeOK' <=> SharedTypeOK' /\ ThreadTypeOK' /\ outside' \in SUBSET Thread
BY DEF TypeOK, SharedTypeOK, ThreadTypeOK

LEMMA FinishType ==
    ASSUME TypeInv, NEW th \in Thread, Finish(th)
    PROVE  ThreadTypeOK' /\ \A o \in Thread : RowInHand(o)'
<1>1. ThreadTypeOK
    BY TypeParts DEF TypeInv
<1>2. ThreadTypeOK'
    BY <1>1, Constants DEF Finish, Goto, ThreadTypeOK, Labels
<1>3. \A o \in Thread : RowInHand(o)'
    BY <1>1 DEF Finish, Goto, ThreadTypeOK, TypeInv, RowInHand
<1> QED
    BY <1>2, <1>3

\* Steps that only move on, and may look an id up.
LEMMA MoveType ==
    ASSUME TypeInv, NEW th \in Thread,
           \E label \in Labels \ {"fill", "giveBack"} : pc' = [pc EXCEPT ![th] = label],
           name' \in [Thread -> Name], tid' \in [Thread -> Ids],
           UNCHANGED <<pages, view, todo>>
    PROVE  ThreadTypeOK' /\ \A o \in Thread : RowInHand(o)'
<1>1. ThreadTypeOK
    BY TypeParts DEF TypeInv
<1>2. ThreadTypeOK'
    BY <1>1 DEF ThreadTypeOK
<1>3. \A o \in Thread : RowInHand(o)'
    BY <1>1 DEF ThreadTypeOK, TypeInv, RowInHand
<1> QED
    BY <1>2, <1>3

LEMMA BeginType ==
    ASSUME TypeInv, NEW th \in Thread, NEW n \in Name,
           \/ BeginCreate(th, n) \/ BeginDrop(th, n) \/ BeginRewrite(th, n)
           \/ \E row \in Row : BeginInsert(th, n, row)
    PROVE  ThreadTypeOK' /\ \A o \in Thread : RowInHand(o)'
<1>1. ThreadTypeOK
    BY TypeParts DEF TypeInv
<1>2. CASE BeginCreate(th, n) \/ BeginDrop(th, n) \/ BeginRewrite(th, n)
    <2>1. \E label \in Labels \ {"fill", "giveBack"} : pc' = [pc EXCEPT ![th] = label]
        BY <1>2 DEF BeginCreate, BeginDrop, BeginRewrite, Begin, Goto, Labels
    <2>2. name' \in [Thread -> Name] /\ tid' \in [Thread -> Ids] /\ UNCHANGED <<pages, view, todo>>
        BY <1>1, <1>2 DEF BeginCreate, BeginDrop, BeginRewrite, Begin, ThreadTypeOK
    <2> QED
        BY <2>1, <2>2, MoveType
<1>3. ASSUME NEW row \in Row, BeginInsert(th, n, row)
      PROVE  ThreadTypeOK' /\ \A o \in Thread : RowInHand(o)'
    <2>1. <<row>> \in Seq(Row)
        OBVIOUS
    <2>2. ThreadTypeOK'
        BY <1>1, <1>3, <2>1 DEF BeginInsert, Begin, Goto, ThreadTypeOK, Labels
    <2>3. \A o \in Thread : RowInHand(o)'
        BY <1>1, <1>3 DEF BeginInsert, Begin, Goto, ThreadTypeOK, TypeInv, RowInHand
    <2> QED
        BY <2>2, <2>3
<1> QED
    BY <1>2, <1>3

\* Looking up, opening and dropping.
LEMMA LookupType ==
    ASSUME TypeInv, NEW th \in Thread,
           DropLookup(th) \/ Lookup(th) \/ DropFreed(th) \/ Cleared(th) \/ CreateEntry(th) \/ DropEntry(th)
    PROVE  ThreadTypeOK' /\ \A o \in Thread : RowInHand(o)'
<1>1. ThreadTypeOK /\ SharedTypeOK
    BY TypeParts DEF TypeInv
<1>2. \E label \in Labels \ {"fill", "giveBack"} : pc' = [pc EXCEPT ![th] = label]
    BY DEF DropLookup, Lookup, DropFreed, Cleared, CreateEntry, DropEntry, Goto, Labels
<1>3. tableIds[name[th]] \in Ids
    BY <1>1 DEF ThreadTypeOK, SharedTypeOK
<1>4. name' \in [Thread -> Name] /\ tid' \in [Thread -> Ids] /\ UNCHANGED <<pages, view, todo>>
    BY <1>1, <1>3 DEF DropLookup, Lookup, DropFreed, Cleared, CreateEntry, DropEntry, ThreadTypeOK
<1> QED
    BY <1>2, <1>4, MoveType

LEMMA ScanType ==
    ASSUME TypeInv, NEW th \in Thread, DropScan(th) \/ OpenInsert(th) \/ OpenRewrite(th)
    PROVE  ThreadTypeOK' /\ \A o \in Thread : RowInHand(o)'
<1>1. ThreadTypeOK /\ SharedTypeOK
    BY TypeParts DEF TypeInv
<1>2. \A s \in Listing(TaggedPages(tid[th])) : s \in Seq(PageIds)
    BY ListingOnceEach DEF TaggedPages
<1>3. CASE DropScan(th)
    <2>1. ThreadTypeOK'
        BY <1>1, <1>2, <1>3 DEF DropScan, Goto, ThreadTypeOK, Labels
    <2> QED
        BY <1>1, <1>3, <2>1 DEF DropScan, Goto, ThreadTypeOK, TypeInv, RowInHand
<1>4. ASSUME NEW s \in Listing(TaggedPages(tid[th])), OpenTable(th, s)
      PROVE  pages' \in [Thread -> Seq(PageIds)] /\ view' \in [Thread -> [PageIds -> Page]]
    <2>1. [p \in PageIds |-> IF p \in ToSet(s) THEN disk[p] ELSE Blank] \in [PageIds -> Page]
        BY <1>1, BlankIsPage DEF SharedTypeOK, StorageTypeOK
    <2> QED
        BY <1>1, <1>2, <1>4, <2>1 DEF OpenTable, ThreadTypeOK
<1>5. CASE OpenInsert(th)
    <2>1. PICK s \in Listing(TaggedPages(tid[th])) : OpenTable(th, s)
        BY <1>5 DEF OpenInsert
    <2>2. pages' \in [Thread -> Seq(PageIds)] /\ view' \in [Thread -> [PageIds -> Page]]
        BY <1>4, <2>1
    <2>3. ThreadTypeOK'
        BY <1>1, <1>5, <2>1, <2>2 DEF OpenInsert, OpenTable, Goto, ThreadTypeOK, Labels
    <2> QED
        BY <1>1, <1>5, <2>1, <2>3 DEF OpenInsert, OpenTable, Goto, ThreadTypeOK, TypeInv, RowInHand
<1>6. CASE OpenRewrite(th)
    <2>1. PICK s \in Listing(TaggedPages(tid[th])) :
            /\ OpenTable(th, s)
            /\ \E rows \in Kept(FlattenSeq([i \in 1 .. Len(s) |-> disk[s[i]].rows])) :
                 todo' = [todo EXCEPT ![th] = rows]
        BY <1>6 DEF OpenRewrite
    <2>2. PICK rows \in Seq(Row) : todo' = [todo EXCEPT ![th] = rows]
        BY <2>1 DEF Kept
    <2>3. pages' \in [Thread -> Seq(PageIds)] /\ view' \in [Thread -> [PageIds -> Page]]
        BY <1>4, <2>1
    <2>4. ThreadTypeOK'
        BY <1>1, <1>6, <2>1, <2>2, <2>3 DEF OpenRewrite, OpenTable, Goto, ThreadTypeOK, Labels
    <2>5. pc' = [pc EXCEPT ![th] = "clear"] /\ pages' = [pages EXCEPT ![th] = s]
        BY <1>6, <2>1 DEF OpenRewrite, OpenTable, Goto
    <2> QED
        BY <1>1, <2>2, <2>4, <2>5 DEF ThreadTypeOK, TypeInv, RowInHand
<1> QED
    BY <1>3, <1>5, <1>6

\* Pages freed.
LEMMA FreeType ==
    ASSUME TypeInv, NEW th \in Thread, DropFree(th) \/ Clear(th)
    PROVE  SharedTypeOK' /\ ThreadTypeOK' /\ \A o \in Thread : RowInHand(o)'
<1>1. ThreadTypeOK /\ SharedTypeOK
    BY TypeParts DEF TypeInv
<1>2. /\ pages[th] # <<>> /\ FreePage(Head(pages[th]))
      /\ pages' = [pages EXCEPT ![th] = Tail(@)]
      /\ UNCHANGED <<catalogVars, pc, name, tid, view, todo>>
      /\ pc[th] \notin {"fill", "giveBack"}
    BY DEF DropFree, Clear
<1>3. Head(pages[th]) \in PageIds /\ Tail(pages[th]) \in Seq(PageIds)
    BY <1>1, <1>2, TailOnceEach DEF ThreadTypeOK
<1>4. StorageTypeOK'
    BY <1>1, <1>2, <1>3, FreePageType DEF SharedTypeOK
<1>5. ThreadTypeOK'
    BY <1>1, <1>2, <1>3 DEF ThreadTypeOK
<1>6. \A o \in Thread : RowInHand(o)'
    BY <1>1, <1>2 DEF ThreadTypeOK, TypeInv, RowInHand
<1> QED
    BY <1>1, <1>2, <1>4, <1>5, <1>6 DEF SharedTypeOK, catalogVars

\* Pages written.
LEMMA WriteType ==
    ASSUME TypeInv, NEW th \in Thread, AppendToLast(th) \/ Fill(th)
    PROVE  SharedTypeOK' /\ ThreadTypeOK' /\ \A o \in Thread : RowInHand(o)'
<1> DEFINE last == Last(pages[th])
<1> DEFINE row == Head(todo[th])
<1>1. ThreadTypeOK /\ SharedTypeOK
    BY TypeParts DEF TypeInv
<1>2. pages[th] # <<>> /\ todo[th] # <<>>
    BY DEF AppendToLast, LastHasSpace, Fill, TypeInv, RowInHand
<1>3. last \in PageIds /\ row \in Row /\ Tail(todo[th]) \in Seq(Row)
    BY <1>1, <1>2, FrontOnceEach, TailOnceEach DEF ThreadTypeOK
<1>4. \E page \in Page :
        /\ WritePage(last, page)
        /\ view' = [view EXCEPT ![th][last] = page]
    <2>1. \A page \in Page : AddRow(page, row) \in Page
        <3>1. \A rows \in Seq(Row) : Append(rows, row) \in Seq(Row)
            BY <1>3
        <3> HIDE DEF row
        <3> QED
            BY <3>1 DEF AddRow, Page
    <2>2. view[th][last] \in Page /\ NewPage(tid[th]) \in Page
        <3> HIDE DEF last
        <3> QED
            BY <1>1, <1>3, Constants, BlankIsPage DEF ThreadTypeOK
    <2>3. CASE AppendToLast(th)
        BY <2>1, <2>2, <2>3 DEF AppendToLast
    <2>4. CASE Fill(th)
        BY <2>1, <2>2, <2>4 DEF Fill
    <2> QED
        BY <2>3, <2>4
<1>5. PICK page \in Page : WritePage(last, page) /\ view' = [view EXCEPT ![th][last] = page]
    BY <1>4
<1>6. /\ todo' = [todo EXCEPT ![th] = Tail(@)]
      /\ UNCHANGED <<catalogVars, name, tid, pages>>
      /\ pc' = pc \/ pc' = [pc EXCEPT ![th] = "append"]
    BY DEF AppendToLast, Fill, Goto
<1>7. StorageTypeOK'
    <2> HIDE DEF last
    <2> QED
        BY <1>1, <1>3, <1>5, WritePageKeeps DEF SharedTypeOK
<1>8. ThreadTypeOK'
    <2>1. view' \in [Thread -> [PageIds -> Page]]
        <3> HIDE DEF last
        <3> QED
            BY <1>1, <1>5 DEF ThreadTypeOK
    <2> QED
        BY <1>1, <1>3, <1>6, <2>1 DEF ThreadTypeOK, Labels
<1>9. \A o \in Thread : RowInHand(o)'
    <2>1. pc'[th] = "append"
        BY <1>1 DEF AppendToLast, Fill, Goto, ThreadTypeOK
    <2>2. \A o \in Thread \ {th} : pc'[o] = pc[o] /\ pages'[o] = pages[o] /\ todo'[o] = todo[o]
        BY <1>1, <1>6 DEF ThreadTypeOK
    <2> QED
        BY <2>1, <2>2 DEF TypeInv, RowInHand
<1> QED
    BY <1>1, <1>6, <1>7, <1>8, <1>9 DEF SharedTypeOK, catalogVars

LEMMA AllocateType ==
    ASSUME TypeInv, NEW th \in Thread, NEW p \in PageIds, Allocate(th, p)
    PROVE  SharedTypeOK' /\ ThreadTypeOK' /\ \A o \in Thread : RowInHand(o)'
<1>1. ThreadTypeOK /\ SharedTypeOK
    BY TypeParts DEF TypeInv
<1>2. tid[th] \in Tags
    BY <1>1, Constants DEF ThreadTypeOK
<1>3. StorageTypeOK'
    BY <1>1, <1>2, AllocatePageType DEF Allocate, SharedTypeOK
<1>4. Append(pages[th], p) \in Seq(PageIds) /\ Append(pages[th], p) # <<>>
    <2>1. pages[th] \in Seq(PageIds)
        BY <1>1 DEF ThreadTypeOK
    <2> QED
        BY <2>1, AppendProperties
<1>5. ThreadTypeOK'
    BY <1>1, <1>4 DEF Allocate, Goto, ThreadTypeOK, Labels
<1>6. \A o \in Thread : RowInHand(o)'
    BY <1>1, <1>4 DEF Allocate, Goto, ThreadTypeOK, TypeInv, RowInHand
<1> QED
    BY <1>1, <1>3, <1>5, <1>6 DEF Allocate, SharedTypeOK, catalogVars

LEMMA GiveBackType ==
    ASSUME TypeInv, NEW th \in Thread, GiveBack(th)
    PROVE  SharedTypeOK' /\ ThreadTypeOK' /\ \A o \in Thread : RowInHand(o)'
<1>1. ThreadTypeOK /\ SharedTypeOK
    BY TypeParts DEF TypeInv
<1>2. pages[th] # <<>> /\ todo[th] # <<>>
    BY DEF GiveBack, TypeInv, RowInHand
<1>3. /\ Last(pages[th]) \in PageIds /\ Front(pages[th]) \in Seq(PageIds)
      /\ Tail(todo[th]) \in Seq(Row)
    BY <1>1, <1>2, FrontOnceEach, TailOnceEach DEF ThreadTypeOK
<1>4. StorageTypeOK'
    BY <1>1, <1>3, FreePageType DEF GiveBack, SharedTypeOK
<1>5. ThreadTypeOK'
    BY <1>1, <1>3 DEF GiveBack, Goto, ThreadTypeOK, Labels
<1>6. \A o \in Thread : RowInHand(o)'
    BY <1>1 DEF GiveBack, Goto, ThreadTypeOK, TypeInv, RowInHand
<1> QED
    BY <1>1, <1>4, <1>5, <1>6 DEF GiveBack, SharedTypeOK, catalogVars

LEMMA RestartType ==
    ASSUME TypeInv, Restart
    PROVE  SharedTypeOK' /\ ThreadTypeOK' /\ \A o \in Thread : RowInHand(o)'
<1>1. ThreadTypeOK /\ SharedTypeOK
    BY TypeParts DEF TypeInv
<1>2. StorageTypeOK'
    BY <1>1, ReopenKeeps DEF Restart, SharedTypeOK
<1>3. NextId \in 1 .. MaxTableId + 1
    BY <1>1, NextIdBounded DEF SharedTypeOK
<1>4. SharedTypeOK'
    BY <1>1, <1>2, <1>3 DEF Restart, SharedTypeOK
<1>5. ThreadTypeOK'
    BY <1>1, Constants DEF Restart, ThreadTypeOK, Labels
<1>6. \A o \in Thread : RowInHand(o)'
    BY DEF Restart, RowInHand
<1> QED
    BY <1>4, <1>5, <1>6

\* The steps that leave the file alone keep the types of what threads share.
LEMMA CatalogSteps ==
    ASSUME TypeInv, NEW th \in Thread, UNCHANGED storageVars,
           UNCHANGED catalogVars \/ CreateEntry(th) \/ DropEntry(th) \/ Save(th)
    PROVE  SharedTypeOK'
<1>1. SharedTypeOK /\ name[th] \in Name
    BY TypeParts DEF TypeInv, ThreadTypeOK
<1>2. StorageTypeOK'
    BY <1>1 DEF SharedTypeOK, StorageTypeOK, storageVars
<1>3. CASE CreateEntry(th)
    <2>1. nextTableId \in 1 .. MaxTableId
        BY <1>1, <1>3, Constants DEF CreateEntry, SharedTypeOK
    <2>2. nextTableId \in Ids /\ nextTableId + 1 \in 1 .. MaxTableId + 1
        BY <2>1, Constants DEF Ids
    <2> QED
        BY <1>1, <1>2, <1>3, <2>2, Constants DEF CreateEntry, SharedTypeOK
<1>4. CASE DropEntry(th) \/ Save(th)
    BY <1>1, <1>2, <1>4, Constants DEF DropEntry, Save, SharedTypeOK
<1> QED
    BY <1>1, <1>2, <1>3, <1>4 DEF SharedTypeOK, catalogVars

LEMMA StatementType ==
    ASSUME TypeInv, NEW th \in Thread, Statement(th)
    PROVE  SharedTypeOK' /\ ThreadTypeOK' /\ \A o \in Thread : RowInHand(o)'
<1>1. CASE \E n \in Name : BeginCreate(th, n) \/ BeginDrop(th, n) \/ BeginRewrite(th, n)
    <2>1. PICK n \in Name : BeginCreate(th, n) \/ BeginDrop(th, n) \/ BeginRewrite(th, n)
        BY <1>1
    <2>2. UNCHANGED storageVars /\ UNCHANGED catalogVars
        BY <2>1 DEF BeginCreate, BeginDrop, BeginRewrite, Begin
    <2> QED
        BY <2>1, <2>2, BeginType, CatalogSteps
<1>2. CASE \E n \in Name, row \in Row : BeginInsert(th, n, row)
    <2>1. PICK n \in Name, row \in Row : BeginInsert(th, n, row)
        BY <1>2
    <2>2. UNCHANGED storageVars /\ UNCHANGED catalogVars
        BY <2>1 DEF BeginInsert, Begin
    <2> QED
        BY <2>1, <2>2, BeginType, CatalogSteps
<1>3. CASE CreateNothing(th) \/ DropMissing(th) \/ DropNothing(th) \/ Return(th)
    <2>1. Finish(th) /\ UNCHANGED storageVars /\ UNCHANGED catalogVars
        BY <1>3 DEF CreateNothing, DropMissing, DropNothing, Return
    <2> QED
        BY <2>1, FinishType, CatalogSteps
<1>4. CASE Save(th)
    BY <1>4, FinishType, CatalogSteps DEF Save
<1>5. CASE DropLookup(th) \/ Lookup(th) \/ DropFreed(th) \/ Cleared(th) \/ CreateEntry(th) \/ DropEntry(th)
    <2>1. UNCHANGED storageVars
        BY <1>5 DEF DropLookup, Lookup, DropFreed, Cleared, CreateEntry, DropEntry
    <2>2. UNCHANGED catalogVars \/ CreateEntry(th) \/ DropEntry(th)
        BY <1>5 DEF DropLookup, Lookup, DropFreed, Cleared
    <2> QED
        BY <1>5, <2>1, <2>2, LookupType, CatalogSteps
<1>6. CASE DropScan(th) \/ OpenInsert(th) \/ OpenRewrite(th)
    <2>1. UNCHANGED storageVars /\ UNCHANGED catalogVars
        BY <1>6 DEF DropScan, OpenInsert, OpenRewrite, OpenTable
    <2> QED
        BY <1>6, <2>1, ScanType, CatalogSteps
<1>7. CASE \E p \in PageIds : Allocate(th, p)
    BY <1>7, AllocateType
<1> QED
    BY <1>1, <1>2, <1>3, <1>4, <1>5, <1>6, <1>7, FreeType, WriteType, GiveBackType DEF Statement

LEMMA InitType == Init => TypeInv
<1> SUFFICES ASSUME Init PROVE TypeInv
    OBVIOUS
<1>1. StorageTypeOK
    BY Constants, BlankIsPage DEF Init, StorageInit, StorageTypeOK
<1>2. nextTableId \in 1 .. MaxTableId + 1
    BY Constants DEF Init
<1>3. outside \in SUBSET Thread
    BY TablesAssumption DEF Init, TablesAssumption
<1>4. TypeOK
    BY <1>1, <1>2, <1>3, Constants DEF Init, TypeOK, Labels
<1> QED
    BY <1>4 DEF Init, TypeInv, RowInHand

LEMMA StepType == TypeInv /\ [Next]_vars => TypeInv'
<1> SUFFICES ASSUME TypeInv, [Next]_vars PROVE TypeInv'
    OBVIOUS
<1>1. CASE Next
    <2>1. SharedTypeOK' /\ ThreadTypeOK' /\ \A o \in Thread : RowInHand(o)'
        BY <1>1, RestartType, StatementType DEF Next
    <2>2. outside' \in SUBSET Thread
        BY <1>1 DEF Next, TypeInv, TypeOK
    <2> QED
        BY <2>1, <2>2, TypePartsNext DEF TypeInv
<1>2. CASE UNCHANGED vars
    BY <1>2 DEF vars, storageVars, catalogVars, threadVars, TypeInv, TypeOK, StorageTypeOK,
                RowInHand
<1> QED
    BY <1>1, <1>2

\* Every variable keeps its type, whoever takes engineMutex.
THEOREM TypesKept == Spec => []TypeOK
<1>1. TypeInv => TypeOK
    BY DEF TypeInv
<1> QED
    BY <1>1, InitType, StepType, PTL DEF Spec

--------------------------------------------------------------------------------
(* The pages, when every statement holds engineMutex *)

\* One statement at a time.
OneAtATime == \A th, o \in Thread : pc[th] # "idle" /\ pc[o] # "idle" => th = o

\* Where the Table of a statement, or the list of a DROP, may have pages.
Opened == {"clear", "append", "fill", "giveBack", "dropFree"}

\* They are pages of the table, each of them once.
PagesOwned(th) ==
    /\ pc[th] \notin Opened => pages[th] = <<>>
    /\ OnceEach(pages[th])
    /\ \A p \in PageIds : Holds(pages[th], p) => InFile(p) /\ disk[p].table = tid[th]

\* The cached copy of a page that rows are appended to has the page's tag.
ViewOwned(th) ==
    /\ pc[th] = "append"
        => \A p \in PageIds : Holds(pages[th], p) => view[th][p].table = tid[th]
    /\ pc[th] \in {"fill", "giveBack"}
        => \A p \in PageIds : Holds(Front(pages[th]), p) => view[th][p].table = tid[th]

BeyondBlank == \A p \in PageIds : ~ InFile(p) => disk[p].table = 0

PagesInv ==
    /\ OneAtATime
    /\ FreeListExact
    /\ BeyondBlank
    /\ \A th \in Thread : PagesOwned(th) /\ ViewOwned(th)

SerializedPages == Serialized => PagesInv

LEMMA EmptyHolds ==
    /\ OnceEach(<<>>)
    /\ \A p : ~ Holds(<<>>, p) /\ ~ Holds(Front(<<>>), p)
BY DEF OnceEach, Holds, Front

\* A statement changes nothing of another thread's.
LEMMA OthersUntouched ==
    ASSUME TypeInv, NEW th \in Thread, Statement(th)
    PROVE  /\ \A o \in Thread \ {th} : pc'[o] = pc[o] /\ pages'[o] = pages[o]
           /\ pc[th] = "idle" => \E n \in Name, label \in {"create", "lookup", "dropLookup"} : Begin(th, n, label)
<1>1. pc \in [Thread -> Labels] /\ pages \in [Thread -> Seq(PageIds)]
    BY DEF TypeInv, TypeOK
<1>2. CASE \E n \in Name : BeginCreate(th, n) \/ BeginDrop(th, n) \/ BeginRewrite(th, n)
    BY <1>1, <1>2 DEF BeginCreate, BeginDrop, BeginRewrite, Begin, Goto
<1>3. CASE \E n \in Name, row \in Row : BeginInsert(th, n, row)
    BY <1>1, <1>3 DEF BeginInsert, Begin, Goto
<1>4. CASE CreateNothing(th) \/ DropMissing(th) \/ DropNothing(th) \/ Return(th) \/ Save(th)
    BY <1>1, <1>4 DEF CreateNothing, DropMissing, DropNothing, Return, Save, Finish, Goto
<1>5. CASE DropLookup(th) \/ DropScan(th) \/ DropFreed(th) \/ Lookup(th) \/ Cleared(th)
    BY <1>1, <1>5 DEF DropLookup, DropScan, DropFreed, Lookup, Cleared, Goto
<1>6. CASE DropFree(th) \/ Clear(th) \/ AppendToLast(th) \/ CreateEntry(th) \/ DropEntry(th)
    BY <1>1, <1>6 DEF DropFree, Clear, AppendToLast, CreateEntry, DropEntry, Goto
<1>7. CASE OpenInsert(th) \/ OpenRewrite(th)
    BY <1>1, <1>7 DEF OpenInsert, OpenRewrite, OpenTable, Goto
<1>8. CASE Fill(th) \/ GiveBack(th) \/ \E p \in PageIds : Allocate(th, p)
    BY <1>1, <1>8 DEF Fill, GiveBack, Allocate, Goto
<1> QED
    BY <1>2, <1>3, <1>4, <1>5, <1>6, <1>7, <1>8 DEF Statement

LEMMA OthersRest ==
    ASSUME TypeInv, Serialized, PagesInv, NEW th \in Thread, Statement(th)
    PROVE  /\ OneAtATime'
           /\ \A o \in Thread \ {th} : /\ pc[o] = "idle" /\ pc'[o] = "idle"
                                       /\ PagesOwned(o)' /\ ViewOwned(o)'
<1>1. \A o \in Thread \ {th} : pc[o] = "idle"
    <2>1. CASE pc[th] = "idle"
        BY <2>1, OthersUntouched DEF Begin, EngineFree, Serialized
    <2>2. CASE pc[th] # "idle"
        BY <2>2 DEF PagesInv, OneAtATime
    <2> QED
        BY <2>1, <2>2
<1>2. \A o \in Thread \ {th} : pc'[o] = "idle" /\ pages'[o] = <<>>
    BY <1>1, OthersUntouched DEF PagesInv, PagesOwned, Opened
<1>3. OneAtATime'
    BY <1>2 DEF OneAtATime
<1> QED
    BY <1>1, <1>2, <1>3, EmptyHolds DEF PagesOwned, ViewOwned, Opened

LEMMA OwnerIsEnough ==
    ASSUME TypeInv, Serialized, PagesInv, NEW th \in Thread, Statement(th),
           FreeListExact', BeyondBlank', PagesOwned(th)', ViewOwned(th)'
    PROVE  PagesInv'
BY OthersRest DEF PagesInv

\* Steps without a page.
LEMMA QuietPages ==
    ASSUME TypeInv, Serialized, PagesInv, NEW th \in Thread, Statement(th),
           UNCHANGED storageVars, pages'[th] = <<>>, pc'[th] \notin {"fill", "giveBack"}
    PROVE  PagesInv'
<1>1. FreeListExact' /\ BeyondBlank'
    BY DEF PagesInv, FreeListExact, FreeListInjective, FreeListBlank, FreeListComplete,
           TaggedPages, BeyondBlank, InFile, storageVars
<1>2. PagesOwned(th)' /\ ViewOwned(th)'
    BY EmptyHolds DEF PagesOwned, ViewOwned
<1> QED
    BY <1>1, <1>2, OwnerIsEnough

\* The pages are listed, and read.
LEMMA ScanPages ==
    ASSUME TypeInv, Serialized, PagesInv, NEW th \in Thread, Statement(th),
           DropScan(th) \/ OpenInsert(th) \/ OpenRewrite(th)
    PROVE  PagesInv'
<1>1. FreeListExact' /\ BeyondBlank'
    <2>1. UNCHANGED storageVars
        BY DEF DropScan, OpenInsert, OpenRewrite, OpenTable
    <2> QED
        BY <2>1 DEF PagesInv, FreeListExact, FreeListInjective, FreeListBlank, FreeListComplete,
           TaggedPages, BeyondBlank, InFile, storageVars
<1>2. PICK s \in Listing(TaggedPages(tid[th])) :
        /\ pages' = [pages EXCEPT ![th] = s]
        /\ DropScan(th) \/ OpenTable(th, s)
    BY DEF DropScan, OpenInsert, OpenRewrite, OpenTable
<1>3. OnceEach(s) /\ \A p : Holds(s, p) <=> p \in TaggedPages(tid[th])
    BY ListingOnceEach DEF TaggedPages
<1>4. pages'[th] = s /\ disk' = disk /\ totalPages' = totalPages /\ tid' = tid
    BY <1>2 DEF DropScan, OpenTable, storageVars, TypeInv, TypeOK
<1>5. pc'[th] \in {"dropFree", "append", "clear"} /\ (DropScan(th) => pc'[th] = "dropFree")
    BY DEF DropScan, OpenInsert, OpenRewrite, OpenTable, Goto, TypeInv, TypeOK
<1>6. PagesOwned(th)'
    BY <1>3, <1>4, <1>5 DEF PagesOwned, Opened, TaggedPages, InFile
<1>7. ViewOwned(th)'
    <2>1. CASE DropScan(th)
        BY <1>5, <2>1 DEF ViewOwned
    <2>2. CASE OpenTable(th, s)
        <3>1. \A p \in PageIds : Holds(s, p) => p \in ToSet(s)
            <4>1. s \in Seq(PageIds)
                BY ListingOnceEach DEF TaggedPages
            <4> QED
                BY <4>1 DEF Holds, ToSet
        <3>2. \A p \in PageIds : Holds(s, p) => view'[th][p] = disk[p]
            BY <2>2, <3>1 DEF OpenTable, TypeInv, TypeOK
        <3> QED
            BY <1>3, <1>4, <1>5, <3>2 DEF ViewOwned, TaggedPages
    <2> QED
        BY <1>2, <2>1, <2>2
<1> QED
    BY <1>1, <1>6, <1>7, OwnerIsEnough

\* A page is freed, and leaves the list of its statement.
LEMMA FreePages ==
    ASSUME TypeInv, Serialized, PagesInv, NEW th \in Thread, Statement(th),
           NEW p \in PageIds, FreePage(p), Holds(pages[th], p),
           OnceEach(pages'[th]), ~ Holds(pages'[th], p),
           \A q \in PageIds : Holds(pages'[th], q) => Holds(pages[th], q),
           tid' = tid, pc'[th] \in Opened,
           ViewOwned(th)'
    PROVE  PagesInv' /\ disk[p].table = tid[th]
<1>1. InUse(p) /\ disk[p].table = tid[th] /\ StorageTypeOK
    <2>1. tid[th] # 0
        BY Constants DEF TypeInv, TypeOK
    <2> QED
        BY <2>1 DEF PagesInv, PagesOwned, InUse, TypeInv, TypeOK
<1>2. FreeListExact'
    BY <1>1, FreePageKeeps DEF PagesInv
<1>3. /\ \A q \in PageIds : disk'[q] = IF q = p THEN Blank ELSE disk[q]
      /\ \A q : InFile(q)' <=> InFile(q)
      /\ Blank.table = 0
    BY <1>1 DEF FreePage, StorageTypeOK, InFile, Blank
<1>4. BeyondBlank'
    BY <1>3 DEF PagesInv, BeyondBlank
<1>5. PagesOwned(th)'
    BY <1>3 DEF PagesInv, PagesOwned
<1> QED
    BY <1>1, <1>2, <1>4, <1>5, OwnerIsEnough

LEMMA FreeHead ==
    ASSUME TypeInv, Serialized, PagesInv, NEW th \in Thread, Statement(th),
           DropFree(th) \/ Clear(th)
    PROVE  PagesInv' /\ disk[Head(pages[th])].table = tid[th]
<1>1. /\ pages[th] # <<>> /\ FreePage(Head(pages[th])) /\ tid' = tid
      /\ pages' = [pages EXCEPT ![th] = Tail(@)]
      /\ pc' = pc /\ pc[th] \in {"dropFree", "clear"}
    BY DEF DropFree, Clear
<1>2. pages \in [Thread -> Seq(PageIds)] /\ pages[th] \in Seq(PageIds)
    BY DEF TypeInv, TypeOK
<1>3. pages'[th] = Tail(pages[th])
    BY <1>1, <1>2
<1>4. OnceEach(pages[th])
    BY DEF PagesInv, PagesOwned
<1>5. /\ Head(pages[th]) \in PageIds /\ Holds(pages[th], Head(pages[th]))
      /\ OnceEach(pages'[th]) /\ ~ Holds(pages'[th], Head(pages[th]))
      /\ \A q \in PageIds : Holds(pages'[th], q) => Holds(pages[th], q)
    BY <1>1, <1>2, <1>3, <1>4, TailOnceEach
<1>6. ViewOwned(th)' /\ pc'[th] \in Opened
    BY <1>1 DEF ViewOwned, Opened
<1> QED
    BY <1>1, <1>5, <1>6, FreePages

LEMMA FreeLast ==
    ASSUME TypeInv, Serialized, PagesInv, NEW th \in Thread, Statement(th), GiveBack(th)
    PROVE  PagesInv' /\ disk[Last(pages[th])].table = tid[th]
<1>1. /\ FreePage(Last(pages[th])) /\ tid' = tid /\ view' = view
      /\ pages' = [pages EXCEPT ![th] = Front(@)]
      /\ pc' = [pc EXCEPT ![th] = "append"] /\ pc[th] = "giveBack"
    BY DEF GiveBack, Goto
<1>2. /\ pages \in [Thread -> Seq(PageIds)] /\ pages[th] \in Seq(PageIds) /\ pages[th] # <<>>
      /\ pc \in [Thread -> Labels]
    BY <1>1 DEF TypeInv, TypeOK, RowInHand
<1>3. pages'[th] = Front(pages[th]) /\ pc'[th] = "append"
    BY <1>1, <1>2
<1>4. OnceEach(pages[th]) /\ ViewOwned(th)
    BY DEF PagesInv, PagesOwned
<1>5. /\ Last(pages[th]) \in PageIds /\ Holds(pages[th], Last(pages[th]))
      /\ OnceEach(pages'[th]) /\ ~ Holds(pages'[th], Last(pages[th]))
      /\ \A q \in PageIds : Holds(pages'[th], q) => Holds(pages[th], q)
    BY <1>2, <1>3, <1>4, FrontOnceEach
<1>6. ViewOwned(th)' /\ pc'[th] \in Opened
    BY <1>1, <1>3, <1>4 DEF ViewOwned, Opened
<1> QED
    BY <1>1, <1>5, <1>6, FreePages

\* A page of the statement is written: to the file and to its cache alike.
LEMMA WritePages ==
    ASSUME TypeInv, Serialized, PagesInv, NEW th \in Thread, Statement(th),
           AppendToLast(th) \/ Fill(th)
    PROVE  /\ PagesInv'
           /\ \E p \in PageIds : /\ disk[p].table = tid[th]
                                 /\ \A q \in PageIds : q # p => disk'[q] = disk[q]
                                 /\ disk'[p].table = tid[th]
<1> DEFINE last == Last(pages[th])
<1>1. /\ pages[th] \in Seq(PageIds) /\ pages[th] # <<>> /\ todo[th] # <<>>
      /\ todo[th] \in Seq(Row)
      /\ pc \in [Thread -> Labels] /\ view \in [Thread -> [PageIds -> Page]]
      /\ StorageTypeOK
    BY DEF AppendToLast, LastHasSpace, Fill, TypeInv, TypeOK, RowInHand
<1>2. last \in PageIds /\ Holds(pages[th], last) /\ Head(todo[th]) \in Row
    BY <1>1, FrontOnceEach, TailOnceEach
<1>3. tid[th] \in Tags \ {0} /\ InFile(last) /\ disk[last].table = tid[th]
    <2> HIDE DEF last
    <2> QED
        BY <1>2, Constants DEF PagesInv, PagesOwned, TypeInv, TypeOK
<1>4. /\ pages' = pages /\ tid' = tid
      /\ pc[th] = "append" \/ pc[th] = "fill"
      /\ pc'[th] = "append"
    BY <1>1 DEF AppendToLast, Fill, Goto
<1>5. \A page \in Page : /\ AddRow(page, Head(todo[th])) \in Page
                         /\ AddRow(page, Head(todo[th])).table = page.table
    <2>1. \A rows \in Seq(Row) : Append(rows, Head(todo[th])) \in Seq(Row)
        BY <1>2
    <2> QED
        BY <2>1 DEF AddRow, Page
<1>6. PICK page \in Page : /\ WritePage(last, page)
                           /\ view' = [view EXCEPT ![th][last] = page]
                           /\ page.table = tid[th]
    <2>1. CASE AppendToLast(th)
        <3>1. view[th][last] \in Page
            <4> HIDE DEF last
            <4> QED
                BY <1>1, <1>2
        <3>2. view[th][last].table = tid[th]
            <4>1. pc[th] = "append" /\ ViewOwned(th)
                BY <2>1 DEF AppendToLast, PagesInv
            <4> HIDE DEF last
            <4> QED
                BY <1>2, <4>1 DEF ViewOwned
        <3> QED
            BY <1>5, <2>1, <3>1, <3>2 DEF AppendToLast
    <2>2. CASE Fill(th)
        <3>1. NewPage(tid[th]) \in Page /\ NewPage(tid[th]).table = tid[th]
            BY <1>3, BlankIsPage DEF NewPage
        <3> QED
            BY <1>5, <2>2, <3>1 DEF Fill
    <2> QED
        BY <2>1, <2>2
<1>7. /\ \A q \in PageIds : Holds(pages[th], q) => Holds(Front(pages[th]), q) \/ q = last
    BY <1>1, FrontOnceEach
<1> HIDE DEF last
<1>8. FreeListExact'
    BY <1>1, <1>2, <1>3, <1>6, WritePageKeeps DEF PagesInv, InUse
<1>9. /\ \A q \in PageIds : disk'[q] = IF q = last THEN page ELSE disk[q]
      /\ \A q : InFile(q)' <=> InFile(q)
    BY <1>1, <1>6 DEF WritePage, StorageTypeOK, InFile
<1>10. BeyondBlank'
    BY <1>3, <1>9 DEF PagesInv, BeyondBlank
<1>11. PagesOwned(th)'
    BY <1>4, <1>6, <1>9 DEF PagesInv, PagesOwned, Opened
<1>12. ViewOwned(th)'
    <2>1. \A q \in PageIds : view'[th][q] = IF q = last THEN page ELSE view[th][q]
        BY <1>1, <1>2, <1>6
    <2>2. \A q \in PageIds : Holds(pages[th], q) /\ q # last => view[th][q].table = tid[th]
        <3>1. ViewOwned(th)
            BY DEF PagesInv
        <3> QED
            BY <1>4, <1>7, <3>1 DEF ViewOwned
    <2> QED
        BY <1>4, <1>6, <2>1, <2>2 DEF ViewOwned
<1>13. PagesInv'
    BY <1>8, <1>10, <1>11, <1>12, OwnerIsEnough
<1> QED
    BY <1>2, <1>3, <1>6, <1>9, <1>13

\* A page nobody had is added to the pages of the statement.
LEMMA AllocatePages ==
    ASSUME TypeInv, Serialized, PagesInv, NEW th \in Thread, Statement(th),
           NEW p \in PageIds, Allocate(th, p)
    PROVE  /\ PagesInv' /\ ~ InUse(p)
           /\ \A q \in PageIds : disk'[q] = IF q = p THEN NewPage(tid[th]) ELSE disk[q]
<1>1. /\ pages \in [Thread -> Seq(PageIds)] /\ pages[th] \in Seq(PageIds)
      /\ pc \in [Thread -> Labels] /\ StorageTypeOK
    BY DEF TypeInv, TypeOK
<1>2. tid[th] \in Tags \ {0}
    BY Constants DEF TypeInv, TypeOK
<1>3. AllocatePage(p, tid[th])
    BY DEF Allocate
<1>4. FreeListExact' /\ ~ InUse(p) /\ \A q \in PageIds : InFile(q)' <=> InFile(q) \/ q = p
    BY <1>1, <1>2, <1>3, AllocatePageKeeps DEF PagesInv
<1>5. \A q \in PageIds : disk'[q] = IF q = p THEN NewPage(tid[th]) ELSE disk[q]
    BY <1>1, <1>2, <1>3, AllocatePageType DEF StorageTypeOK
<1>6. NewPage(tid[th]).table = tid[th]
    BY DEF NewPage
<1>7. BeyondBlank'
    BY <1>4, <1>5 DEF PagesInv, BeyondBlank
<1>8. /\ pages'[th] = Append(pages[th], p) /\ tid' = tid /\ view' = view
      /\ pc[th] = "append" /\ pc'[th] \in {"fill", "giveBack"}
    BY <1>1 DEF Allocate, Goto
<1>9. ~ Holds(pages[th], p)
    BY <1>2, <1>4 DEF PagesInv, PagesOwned, InUse
<1>10. /\ OnceEach(pages'[th])
       /\ \A q : Holds(pages'[th], q) <=> Holds(pages[th], q) \/ q = p
    <2>1. OnceEach(pages[th])
        BY DEF PagesInv, PagesOwned
    <2> QED
        BY <1>1, <1>8, <1>9, <2>1, AppendOnceEach
<1>11. PagesOwned(th)'
    BY <1>4, <1>5, <1>6, <1>8, <1>10 DEF PagesInv, PagesOwned, Opened
<1>12. ViewOwned(th)'
    <2>1. Front(pages'[th]) = pages[th]
        <3>1. /\ Len(pages'[th]) - 1 = Len(pages[th])
              /\ \A i \in 1 .. Len(pages[th]) : pages'[th][i] = pages[th][i]
              /\ pages'[th] \in Seq(PageIds)
            BY <1>1, <1>8
        <3> QED
            BY <1>1, <3>1 DEF Front
    <2>2. ViewOwned(th)
        BY DEF PagesInv
    <2> QED
        BY <1>8, <2>1, <2>2 DEF ViewOwned
<1> QED
    BY <1>4, <1>5, <1>7, <1>11, <1>12, OwnerIsEnough

LEMMA RestartPages ==
    ASSUME TypeInv, Serialized, PagesInv, Restart
    PROVE  PagesInv'
<1>1. FreeListExact' /\ UNCHANGED <<disk, totalPages>>
    BY ReopenKeeps DEF Restart, Reopen, TypeInv, TypeOK
<1>2. BeyondBlank'
    BY <1>1 DEF PagesInv, BeyondBlank, InFile
<1>3. OneAtATime' /\ \A th \in Thread : PagesOwned(th)' /\ ViewOwned(th)'
    BY EmptyHolds DEF Restart, OneAtATime, PagesOwned, ViewOwned
<1> QED
    BY <1>1, <1>2, <1>3 DEF PagesInv

\* The steps of a statement that do not touch a page, nor have one.
Pageless(th) ==
    UNCHANGED storageVars /\ pages'[th] = <<>> /\ pc'[th] \notin {"fill", "giveBack"}

LEMMA PagelessSteps ==
    ASSUME TypeInv, PagesInv, NEW th \in Thread, Statement(th)
    PROVE  \/ Pageless(th)
           \/ DropScan(th) \/ OpenInsert(th) \/ OpenRewrite(th)
           \/ DropFree(th) \/ Clear(th) \/ GiveBack(th)
           \/ AppendToLast(th) \/ Fill(th)
           \/ \E p \in PageIds : Allocate(th, p)
<1>1. pc \in [Thread -> Labels] /\ pages \in [Thread -> Seq(PageIds)]
    BY DEF TypeInv, TypeOK
<1>2. pc[th] \notin Opened => pages[th] = <<>>
    BY DEF PagesInv, PagesOwned
<1> USE DEF Pageless
<1>3. CASE \E n \in Name : BeginCreate(th, n) \/ BeginDrop(th, n) \/ BeginRewrite(th, n)
    BY <1>1, <1>2, <1>3 DEF BeginCreate, BeginDrop, BeginRewrite, Begin, Goto, Opened
<1>4. CASE \E n \in Name, row \in Row : BeginInsert(th, n, row)
    BY <1>1, <1>2, <1>4 DEF BeginInsert, Begin, Goto, Opened
<1>5. CASE CreateNothing(th) \/ DropMissing(th) \/ DropNothing(th) \/ Return(th) \/ Save(th)
    BY <1>1, <1>5 DEF CreateNothing, DropMissing, DropNothing, Return, Save, Finish, Goto
<1>6. CASE DropLookup(th) \/ DropFreed(th) \/ Lookup(th) \/ Cleared(th)
    BY <1>1, <1>2, <1>6 DEF DropLookup, DropFreed, Lookup, Cleared, Goto, Opened
<1>7. CASE CreateEntry(th) \/ DropEntry(th)
    BY <1>1, <1>2, <1>7 DEF CreateEntry, DropEntry, Goto, Opened
<1> QED
    BY <1>3, <1>4, <1>5, <1>6, <1>7 DEF Statement

LEMMA PagesStep ==
    ASSUME TypeInv, SerializedPages, [Next]_vars
    PROVE  SerializedPages'
<1> SUFFICES ASSUME Serialized' PROVE PagesInv'
    BY DEF SerializedPages
<1>1. Serialized /\ PagesInv
    BY DEF Serialized, SerializedPages, Next, vars
<1>2. CASE Restart
    BY <1>1, <1>2, RestartPages
<1>3. ASSUME NEW th \in Thread, Statement(th)
      PROVE  PagesInv'
    <2>1. CASE Pageless(th)
        BY <1>1, <1>3, <2>1, QuietPages DEF Pageless
    <2> QED
        BY <1>1, <1>3, <2>1, PagelessSteps, ScanPages, FreeHead, FreeLast, WritePages, AllocatePages
<1>4. CASE UNCHANGED vars
    BY <1>1, <1>4 DEF vars, storageVars, threadVars, PagesInv, OneAtATime, FreeListExact,
          FreeListInjective, FreeListBlank, FreeListComplete, TaggedPages, BeyondBlank, InFile,
          PagesOwned, ViewOwned
<1> QED
    BY <1>2, <1>3, <1>4 DEF Next

\* What the runs see holds in every state: of types, and of pages.
LEMMA PagesInvariant == Spec => [](TypeInv /\ SerializedPages)
<1>1. Init => TypeInv /\ SerializedPages
    <2> SUFFICES ASSUME Init PROVE PagesInv
        BY InitType DEF SerializedPages
    <2>1. totalPages = 0 /\ freeList = <<>> /\ \A p \in PageIds : ~ InFile(p)
        BY Constants DEF Init, StorageInit, InFile, PageIds
    <2>2. FreeListExact
        BY <2>1 DEF FreeListExact, FreeListInjective, FreeListBlank, FreeListComplete, TaggedPages
    <2>3. BeyondBlank
        BY DEF Init, StorageInit, BeyondBlank, Blank
    <2>4. OneAtATime /\ \A th \in Thread : PagesOwned(th) /\ ViewOwned(th)
        BY EmptyHolds DEF Init, OneAtATime, PagesOwned, ViewOwned
    <2> QED
        BY <2>2, <2>3, <2>4 DEF PagesInv
<1>2. TypeInv /\ SerializedPages /\ [Next]_vars => (TypeInv /\ SerializedPages)'
    BY StepType, PagesStep
<1> QED
    BY <1>1, <1>2, PTL DEF Spec

\* As long as every statement holds engineMutex, the free list is the list of the
\* free pages, each of them once; also when crashes lose the catalog file.
THEOREM FreePagesStayKnown == Spec => []FreePagesKnown
<1>1. SerializedPages => FreePagesKnown
    BY DEF SerializedPages, PagesInv, FreePagesKnown
<1> QED
    BY <1>1, PagesInvariant, PTL

LEMMA OwnPagesStep ==
    ASSUME TypeInv, SerializedPages, [Next]_vars, Serialized
    PROVE  OwnPages
<1> SUFFICES ASSUME NEW q \in PageIds, disk'[q] # disk[q], disk[q].table # 0
             PROVE  \E th \in Thread : tid[th] = disk[q].table
    BY DEF OwnPages
<1>1. PagesInv
    BY DEF SerializedPages
<1>2. disk \in [PageIds -> Page]
    BY DEF TypeInv, TypeOK, StorageTypeOK
<1>3. PICK th \in Thread : Statement(th)
    BY DEF Next, vars, storageVars, Restart, Reopen
<1>4. CASE DropFree(th) \/ Clear(th)
    <2>1. q = Head(pages[th])
        BY <1>2, <1>4 DEF DropFree, Clear, FreePage
    <2> QED
        BY <1>1, <1>3, <1>4, <2>1, FreeHead
<1>5. CASE GiveBack(th)
    <2>1. q = Last(pages[th])
        BY <1>2, <1>5 DEF GiveBack, FreePage
    <2> QED
        BY <1>1, <1>3, <1>5, <2>1, FreeLast
<1>6. CASE AppendToLast(th) \/ Fill(th)
    BY <1>1, <1>3, <1>6, WritePages
<1>7. ASSUME NEW p \in PageIds, Allocate(th, p)
      PROVE  FALSE
    <2>1. q = p /\ ~ InUse(p)
        BY <1>1, <1>3, <1>7, AllocatePages
    <2> QED
        BY <1>1, <2>1 DEF InUse, PagesInv, BeyondBlank
<1>8. ~ Pageless(th) /\ ~ DropScan(th) /\ ~ OpenInsert(th) /\ ~ OpenRewrite(th)
    BY DEF Pageless, DropScan, OpenInsert, OpenRewrite, OpenTable, storageVars
<1> QED
    BY <1>1, <1>3, <1>4, <1>5, <1>6, <1>7, <1>8, PagelessSteps

\* And no statement writes or frees a page of a table it does not work on.
THEOREM OnlyOwnPages == Spec => SerializedOwnPages
<1>1. TypeInv /\ SerializedPages /\ [Next]_vars => [Serialized => OwnPages]_vars
    BY OwnPagesStep
<1> QED
    BY <1>1, PagesInvariant, PTL DEF Spec, SerializedOwnPages

--------------------------------------------------------------------------------
(* The pages and the catalog, when no crash loses the catalog file *)

\* Where a statement works with the id of its table.
Working == Opened \cup {"open", "dropScan", "dropEntry"}

\* It is still the id of the table.
IdInHand(th) ==
    /\ pc[th] \in {"lookup", "dropLookup"} => Exists(name[th])
    /\ pc[th] \in Working => Exists(name[th]) /\ tid[th] = tableIds[name[th]]

\* What a DROP has not freed yet is in its list.
DropListed(th) ==
    pc[th] \in {"dropFree", "dropEntry"}
        => \A p \in PageIds : InFile(p) /\ disk[p].table = tid[th] => Holds(pages[th], p)

Known(p) == \E n \in Name : Exists(n) /\ tableIds[n] = disk[p].table

CatalogInv ==
    /\ \A p \in PageIds : InUse(p) => Known(p)
    /\ \A th \in Thread : IdInHand(th) /\ DropListed(th)

SerializedCatalog == Serialized => CatalogInv

\* All that holds of a catalog and its pages.
FullInv == IInv /\ TypeInv /\ SerializedPages /\ SerializedCatalog

LEMMA OwnerOfCatalog ==
    ASSUME TypeInv, Serialized, PagesInv, CatalogInv, NEW th \in Thread, Statement(th),
           \A p \in PageIds : InUse(p)' => Known(p)', IdInHand(th)', DropListed(th)'
    PROVE  CatalogInv'
<1>1. \A o \in Thread \ {th} : pc'[o] = "idle"
    BY OthersRest
<1>2. \A o \in Thread \ {th} : IdInHand(o)' /\ DropListed(o)'
    BY <1>1 DEF IdInHand, DropListed, Working, Opened
<1> QED
    BY <1>2 DEF CatalogInv

LEMMA UsedStaysKnown ==
    ASSUME CatalogInv, UNCHANGED <<disk, totalPages>>, tableIds' = tableIds
    PROVE  \A p \in PageIds : InUse(p)' => Known(p)'
BY DEF CatalogInv, InUse, InFile, Known, Exists

\* A statement begins, ends, or looks the id up.
LEMMA LookupCatalog ==
    ASSUME TypeInv, Serialized, PagesInv, CatalogInv, NEW th \in Thread, Statement(th),
           \/ \E n \in Name : BeginCreate(th, n) \/ BeginDrop(th, n) \/ BeginRewrite(th, n)
           \/ \E n \in Name, row \in Row : BeginInsert(th, n, row)
           \/ CreateNothing(th) \/ DropMissing(th) \/ DropNothing(th) \/ Return(th) \/ Save(th)
           \/ Lookup(th) \/ DropLookup(th)
    PROVE  CatalogInv'
<1>1. /\ pc \in [Thread -> Labels] /\ name \in [Thread -> Name] /\ tid \in [Thread -> Ids]
    BY DEF TypeInv, TypeOK
<1>2. UNCHANGED <<disk, totalPages>> /\ tableIds' = tableIds
    BY DEF BeginCreate, BeginDrop, BeginRewrite, BeginInsert, Begin, CreateNothing, DropMissing,
           DropNothing, Return, Save, Lookup, DropLookup, storageVars, catalogVars
<1>3. DropListed(th)'
    <2>1. pc'[th] \notin {"dropFree", "dropEntry"}
        BY <1>1 DEF BeginCreate, BeginDrop, BeginRewrite, BeginInsert, Begin, CreateNothing,
           DropMissing, DropNothing, Return, Save, Lookup, DropLookup, Finish, Goto
    <2> QED
        BY <2>1 DEF DropListed
<1>4. IdInHand(th)'
    <2>1. CASE \/ \E n \in Name : BeginCreate(th, n) \/ BeginDrop(th, n) \/ BeginRewrite(th, n)
               \/ \E n \in Name, row \in Row : BeginInsert(th, n, row)
        BY <1>1, <1>2, <2>1 DEF BeginCreate, BeginDrop, BeginRewrite, BeginInsert, Begin, Goto,
           IdInHand, Exists, Working, Opened
    <2>2. CASE CreateNothing(th) \/ DropMissing(th) \/ DropNothing(th) \/ Return(th) \/ Save(th)
        BY <1>1, <2>2 DEF CreateNothing, DropMissing, DropNothing, Return, Save, Finish, Goto,
           IdInHand, Working, Opened
    <2>3. CASE Lookup(th) \/ DropLookup(th)
        <3>1. Exists(name[th])
            BY <2>3 DEF Lookup, DropLookup, CatalogInv, IdInHand
        <3> QED
            BY <1>1, <1>2, <2>3, <3>1 DEF Lookup, DropLookup, Goto, IdInHand, Exists
    <2> QED
        BY <2>1, <2>2, <2>3
<1> QED
    BY <1>2, <1>3, <1>4, UsedStaysKnown, OwnerOfCatalog

\* The entry is made, or goes.
LEMMA EntryCatalog ==
    ASSUME TypeInv, IInv, Serialized, PagesInv, CatalogInv, NEW th \in Thread, Statement(th),
           CreateEntry(th) \/ DropEntry(th)
    PROVE  CatalogInv'
<1>1. /\ pc \in [Thread -> Labels] /\ tableIds \in [Name -> Ids]
      /\ UNCHANGED <<disk, totalPages>> /\ pc'[th] = "save"
    BY DEF TypeInv, TypeOK, CreateEntry, DropEntry, Goto, storageVars
<1>2. IdInHand(th)' /\ DropListed(th)'
    BY <1>1 DEF IdInHand, DropListed, Working, Opened
<1>3. \A p \in PageIds : InUse(p)' => Known(p)'
    <2> SUFFICES ASSUME NEW p \in PageIds, InUse(p) PROVE Known(p)'
        BY <1>1 DEF InUse, InFile
    <2>1. PICK n \in Name : Exists(n) /\ tableIds[n] = disk[p].table
        BY DEF CatalogInv, Known
    <2>2. n # name[th]
        <3>1. CASE CreateEntry(th)
            BY <2>1, <3>1 DEF CreateEntry
        <3>2. CASE DropEntry(th)
            <4>1. pc[th] = "dropEntry" /\ pages[th] = <<>> /\ tid[th] = tableIds[name[th]]
                BY <3>2 DEF DropEntry, PagesInv, PagesOwned, Opened, CatalogInv, IdInHand, Working
            <4>2. ~ Holds(pages[th], p)
                BY <4>1, EmptyHolds
            <4> QED
                BY <2>1, <4>1, <4>2 DEF CatalogInv, DropListed, InUse
        <3> QED
            BY <3>1, <3>2
    <2>3. tableIds'[n] = tableIds[n]
        BY <1>1, <2>2 DEF CreateEntry, DropEntry
    <2> QED
        BY <1>1, <2>1, <2>3 DEF Known, Exists
<1> QED
    BY <1>2, <1>3, OwnerOfCatalog

\* The statement works on.
LEMMA WorkingKeepsId ==
    ASSUME TypeInv, CatalogInv, NEW th \in Thread, pc[th] \in Working, pc'[th] \in Working,
           tid' = tid, tableIds' = tableIds, name' = name
    PROVE  IdInHand(th)'
BY DEF CatalogInv, IdInHand, Exists, Working, Opened

LEMMA ScanCatalog ==
    ASSUME TypeInv, Serialized, PagesInv, CatalogInv, NEW th \in Thread, Statement(th),
           DropScan(th) \/ OpenInsert(th) \/ OpenRewrite(th) \/ DropFreed(th) \/ Cleared(th)
    PROVE  CatalogInv'
<1>1. pc \in [Thread -> Labels] /\ pages \in [Thread -> Seq(PageIds)]
    BY DEF TypeInv, TypeOK
<1>2. /\ UNCHANGED <<disk, totalPages>> /\ tableIds' = tableIds /\ tid' = tid /\ name' = name
    BY DEF DropScan, OpenInsert, OpenRewrite, OpenTable, DropFreed, Cleared, storageVars, catalogVars
<1>3. pc[th] \in Working /\ pc'[th] \in Working
    BY <1>1 DEF DropScan, OpenInsert, OpenRewrite, OpenTable, DropFreed, Cleared, Goto, Working, Opened
<1>4. IdInHand(th)'
    BY <1>2, <1>3, WorkingKeepsId
<1>5. DropListed(th)'
    <2>1. CASE DropScan(th)
        <3>1. PICK s \in Listing(TaggedPages(tid[th])) : pages'[th] = s
            BY <1>1, <2>1 DEF DropScan
        <3>2. \A p : Holds(s, p) <=> p \in TaggedPages(tid[th])
            BY ListingOnceEach DEF TaggedPages
        <3> QED
            BY <1>2, <3>1, <3>2 DEF DropListed, TaggedPages, InFile
    <2>2. CASE DropFreed(th)
        <3>1. pc[th] = "dropFree" /\ pages' = pages
            BY <2>2 DEF DropFreed
        <3> QED
            BY <1>2, <3>1 DEF DropListed, CatalogInv, InFile
    <2>3. CASE OpenInsert(th) \/ OpenRewrite(th) \/ Cleared(th)
        BY <1>1, <2>3 DEF OpenInsert, OpenRewrite, OpenTable, Cleared, Goto, DropListed
    <2> QED
        BY <2>1, <2>2, <2>3
<1> QED
    BY <1>2, <1>4, <1>5, UsedStaysKnown, OwnerOfCatalog

LEMMA FreeCatalog ==
    ASSUME TypeInv, Serialized, PagesInv, CatalogInv, NEW th \in Thread, Statement(th),
           DropFree(th) \/ Clear(th) \/ GiveBack(th)
    PROVE  CatalogInv'
<1>1. /\ pc \in [Thread -> Labels] /\ pages \in [Thread -> Seq(PageIds)]
      /\ pages[th] \in Seq(PageIds) /\ disk \in [PageIds -> Page]
    BY DEF TypeInv, TypeOK, StorageTypeOK
<1>2. /\ tableIds' = tableIds /\ tid' = tid /\ name' = name
    BY DEF DropFree, Clear, GiveBack, catalogVars
<1>3. /\ pc[th] \in Working /\ pc'[th] \in Working
      /\ pc'[th] \in {"dropFree", "dropEntry"} => DropFree(th)
    BY <1>1 DEF DropFree, Clear, GiveBack, Goto, Working, Opened
<1>4. IdInHand(th)'
    BY <1>2, <1>3, WorkingKeepsId
<1>5. PICK p \in PageIds : FreePage(p) /\ (DropFree(th) => p = Head(pages[th]))
    <2>1. CASE DropFree(th) \/ Clear(th)
        BY <1>1, <2>1, TailOnceEach DEF DropFree, Clear
    <2>2. CASE GiveBack(th)
        <3>1. pages[th] # <<>> /\ pc[th] = "giveBack"
            BY <2>2 DEF GiveBack, TypeInv, RowInHand
        <3> QED
            BY <1>1, <2>2, <3>1, FrontOnceEach DEF GiveBack, DropFree
    <2> QED
        BY <2>1, <2>2
<1>6. /\ \A q \in PageIds : disk'[q] = IF q = p THEN Blank ELSE disk[q]
      /\ \A q : InFile(q)' <=> InFile(q)
      /\ Blank.table = 0
    BY <1>1, <1>5 DEF FreePage, InFile, Blank
<1>7. \A q \in PageIds : InUse(q)' => Known(q)'
    BY <1>2, <1>6 DEF CatalogInv, InUse, Known, Exists
<1>8. DropListed(th)'
    <2> SUFFICES ASSUME DropFree(th), NEW q \in PageIds, InFile(q), disk'[q].table = tid[th]
                 PROVE  Holds(pages'[th], q)
        BY <1>2, <1>3, <1>6 DEF DropListed
    <2>1. tid[th] # 0
        BY Constants DEF TypeInv, TypeOK
    <2>2. q # p /\ disk[q].table = tid[th]
        BY <1>6, <2>1
    <2>3. Holds(pages[th], q)
        BY <2>2 DEF DropFree, CatalogInv, DropListed
    <2>4. pages[th] # <<>> /\ pages'[th] = Tail(pages[th])
        BY <1>1 DEF DropFree
    <2> QED
        BY <1>1, <1>5, <2>2, <2>3, <2>4, TailOnceEach
<1> QED
    BY <1>4, <1>7, <1>8, OwnerOfCatalog

LEMMA WriteCatalog ==
    ASSUME TypeInv, Serialized, PagesInv, CatalogInv, NEW th \in Thread, Statement(th),
           AppendToLast(th) \/ Fill(th) \/ \E p \in PageIds : Allocate(th, p)
    PROVE  CatalogInv'
<1>1. pc \in [Thread -> Labels]
    BY DEF TypeInv, TypeOK
<1>2. /\ tableIds' = tableIds /\ tid' = tid /\ name' = name
    BY DEF AppendToLast, Fill, Allocate, catalogVars
<1>3. /\ pc[th] \in Working /\ pc'[th] \in Working
      /\ pc'[th] \notin {"dropFree", "dropEntry"}
    BY <1>1 DEF AppendToLast, Fill, Allocate, Goto, Working, Opened
<1>4. IdInHand(th)'
    BY <1>2, <1>3, WorkingKeepsId
<1>5. DropListed(th)'
    BY <1>3 DEF DropListed
<1>6. name[th] \in Name /\ Exists(name[th]) /\ tid[th] = tableIds[name[th]]
    BY <1>3 DEF CatalogInv, IdInHand, TypeInv, TypeOK
<1>7. \A q \in PageIds : InUse(q)' => Known(q)'
    <2>1. CASE AppendToLast(th) \/ Fill(th)
        <3>1. \A q : InFile(q)' <=> InFile(q)
            BY <2>1 DEF AppendToLast, Fill, WritePage, InFile
        <3>2. \A q \in PageIds : disk'[q] = disk[q] \/ disk'[q].table = tid[th]
            BY <2>1, WritePages
        <3> QED
            BY <1>2, <1>6, <3>1, <3>2 DEF CatalogInv, InUse, Known, Exists
    <2>2. ASSUME NEW p \in PageIds, Allocate(th, p)
          PROVE  \A q \in PageIds : InUse(q)' => Known(q)'
        <3>1. \A q \in PageIds : disk'[q] = IF q = p THEN NewPage(tid[th]) ELSE disk[q]
            BY <2>2, AllocatePages
        <3>2. \A q \in PageIds : InFile(q)' <=> InFile(q) \/ q = p
            <4>1. tid[th] \in Tags \ {0} /\ StorageTypeOK /\ FreeListExact /\ AllocatePage(p, tid[th])
                BY <2>2, Constants DEF TypeInv, TypeOK, PagesInv, Allocate
            <4> QED
                BY <4>1, AllocatePageKeeps
        <3>3. NewPage(tid[th]).table = tid[th]
            BY DEF NewPage
        <3> QED
            BY <1>2, <1>6, <3>1, <3>2, <3>3 DEF CatalogInv, InUse, Known, Exists
    <2> QED
        BY <2>1, <2>2
<1> QED
    BY <1>4, <1>5, <1>7, OwnerOfCatalog

LEMMA CatalogStep ==
    ASSUME ~ TornSave, FullInv, [Next]_vars
    PROVE  SerializedCatalog'
<1> SUFFICES ASSUME Serialized' PROVE CatalogInv'
    BY DEF SerializedCatalog
<1>1. /\ IInv /\ TypeInv /\ Serialized /\ PagesInv /\ CatalogInv
    BY DEF FullInv, Serialized, SerializedPages, SerializedCatalog, Next, vars
<1>2. CASE Restart
    <2>1. tableIds' = tableIds /\ UNCHANGED <<disk, totalPages>>
        BY <1>1, <1>2 DEF Restart, Reopen, IInv, FileIsCatalog
    <2>2. \A th \in Thread : IdInHand(th)' /\ DropListed(th)'
        BY <1>2 DEF Restart, IdInHand, DropListed, Working, Opened
    <2> QED
        BY <1>1, <2>1, <2>2, UsedStaysKnown DEF CatalogInv
<1>3. ASSUME NEW th \in Thread, Statement(th)
      PROVE  CatalogInv'
    BY <1>1, <1>3, LookupCatalog, EntryCatalog, ScanCatalog, FreeCatalog, WriteCatalog DEF Statement
<1>4. CASE UNCHANGED vars
    BY <1>1, <1>4 DEF vars, storageVars, catalogVars, threadVars, CatalogInv, InUse, InFile, Known,
          IdInHand, DropListed, Exists
<1> QED
    BY <1>2, <1>3, <1>4 DEF Next

LEMMA FullInvariant == ~ TornSave => (Spec => []FullInv)
<1> SUFFICES ASSUME ~ TornSave PROVE Spec => []FullInv
    OBVIOUS
<1>1. Init => SerializedCatalog
    <2> SUFFICES ASSUME Init PROVE CatalogInv
        BY DEF SerializedCatalog
    <2>1. \A p \in PageIds : ~ InFile(p)
        BY Constants DEF Init, StorageInit, InFile, PageIds
    <2>2. \A th \in Thread : IdInHand(th) /\ DropListed(th)
        BY DEF Init, IdInHand, DropListed, Working, Opened
    <2> QED
        BY <2>1, <2>2 DEF CatalogInv, InUse
<1>2. IInv /\ TypeInv /\ SerializedPages /\ SerializedCatalog /\ [Next]_vars => SerializedCatalog'
    BY CatalogStep DEF FullInv
<1> QED
    BY <1>1, <1>2, Invariant, PagesInvariant, PTL DEF Spec, FullInv

\* As long as every statement holds engineMutex and no crash falls between the
\* truncation of the catalog file and its write, no page is lost: one that is not
\* free carries the id of a table of the catalog.
THEOREM NoPageOrphaned == ~ TornSave => (Spec => []NoOrphanPage)
<1>1. FullInv => NoOrphanPage
    BY DEF FullInv, SerializedCatalog, CatalogInv, NoOrphanPage, InUse, Known
<1> QED
    BY <1>1, FullInvariant, PTL

LEMMA FreshTableStep ==
    ASSUME ~ TornSave, FullInv, [Next]_vars, Serialized, NEW n \in Name, ~ Exists(n), Exists(n)'
    PROVE  TaggedPages(tableIds'[n]) = {}
<1>1. IInv /\ TypeInv /\ CatalogInv
    BY DEF FullInv, SerializedCatalog
<1>2. tableIds'[n] # tableIds[n]
    BY DEF Exists
<1>3. ~ Restart /\ ~ UNCHANGED vars
    BY <1>1, <1>2 DEF Restart, IInv, FileIsCatalog, vars, catalogVars
<1>4. PICK th \in Thread : Statement(th)
    BY <1>3 DEF Next
<1>5. CreateEntry(th)
    <2>1. ~ Elsewhere(th) /\ ~ Save(th)
        BY <1>2 DEF Elsewhere, Save, catalogVars
    <2>2. ~ DropEntry(th)
        BY <1>1, <1>2 DEF DropEntry, Exists, TypeInv, TypeOK
    <2> QED
        BY <1>1, <1>4, <2>1, <2>2, StatementSteps
<1>6. tableIds'[n] = nextTableId /\ nextTableId \in Nat \ {0}
    BY <1>1, <1>2, <1>5 DEF CreateEntry, IInv, CatalogTypeOK
<1>7. SUFFICES ASSUME NEW p \in PageIds, InFile(p), disk[p].table = nextTableId
               PROVE  FALSE
    BY <1>6 DEF TaggedPages
<1>8. InUse(p)
    BY <1>6, <1>7 DEF InUse
<1>9. PICK m \in Name : Exists(m) /\ tableIds[m] = nextTableId
    BY <1>1, <1>7, <1>8 DEF CatalogInv, Known
<1> QED
    BY <1>1, <1>6, <1>9 DEF IInv, DistinctIds

\* Under the same condition a table starts out without rows: no page of the file
\* carries the id it gets.
THEOREM FreshTablesEmpty == ~ TornSave => (Spec => FreshTableEmpty)
<1> SUFFICES ASSUME ~ TornSave PROVE Spec => FreshTableEmpty
    OBVIOUS
<1>1. FullInv /\ [Next]_vars
        => [Serialized => \A n \in Name :
                ~ Exists(n) /\ Exists(n)' => TaggedPages(tableIds'[n]) = {}]_vars
    BY FreshTableStep
<1> QED
    BY <1>1, FullInvariant, PTL DEF Spec, FreshTableEmpty

================================================================================

------------------------------ MODULE StorageFile ------------------------------
(***************************************************************************)
(* Storage/StorageFile and Storage/Page: one file of fixed-size pages      *)
(* shared by every table of a database.  A page is tagged with the id of   *)
(* the table that owns it; id 0 marks a free page.  The free list lives    *)
(* only in memory and is rebuilt from the tags when the file is opened.    *)
(*                                                                         *)
(* Every public member function of StorageFile holds fileMutex from its    *)
(* first line to its last, so each is one step.  The exception is          *)
(* freePagesForTable, which collects the pages under the mutex and then    *)
(* takes it again for each page: its callers model it with TaggedPages     *)
(* followed by one FreePage per page.                                      *)
(***************************************************************************)
EXTENDS Integers, SequencesExt

CONSTANTS
    Row,          \* serialised rows
    Oversize,     \* the rows too long for an empty page
    MaxPages,     \* bound: pages the file may grow to
    RowsPerPage,  \* rows that fit in a page (stands for PAGE_SIZE)
    MaxTableId    \* bound: ids the catalog may hand out

ASSUME StorageAssumption ==
    /\ Oversize \subseteq Row
    /\ MaxPages \in Nat
    /\ RowsPerPage \in Nat \ {0}
    /\ MaxTableId \in Nat

VARIABLES
    disk,         \* the pages of the file; beyond totalPages not yet in it
    totalPages,   \* StorageFile::totalPages
    freeList      \* StorageFile::freeList, used as a stack

storageVars == <<disk, totalPages, freeList>>

PageIds == 0 .. MaxPages - 1

\* -1 is what Catalog::getTableId returns for a name it does not hold.
Tags == -1 .. MaxTableId

Page == [table : Tags, rows : Seq(Row)]

Blank == [table |-> 0, rows |-> <<>>]

NewPage(t) == [table |-> t, rows |-> <<>>]

StorageTypeOK ==
    /\ disk \in [PageIds -> Page]
    /\ totalPages \in 0 .. MaxPages
    /\ freeList \in Seq(PageIds)

StorageInit ==
    /\ disk = [p \in PageIds |-> Blank]
    /\ totalPages = 0
    /\ freeList = <<>>

--------------------------------------------------------------------------------
(* Reading *)

InFile(p) == p < totalPages

\* A blank page has no header: its freeSpace is 0, not PAGE_SIZE.
HasSpace(page, row) ==
    /\ page.table # 0
    /\ row \notin Oversize
    /\ Len(page.rows) < RowsPerPage

AddRow(page, row) == [page EXCEPT !.rows = Append(@, row)]

TaggedPages(t) == {p \in PageIds : InFile(p) /\ disk[p].table = t}

\* The one-element set of the ascending listing of a set of pages, which is
\* what a loop over 0 .. totalPages - 1 pushes.
Listing(S) ==
    {s \in [1 .. Cardinality(S) -> S] :
        \A i, j \in 1 .. Cardinality(S) : i < j => s[i] < s[j]}

--------------------------------------------------------------------------------
(* Writing *)

\* freeList.back() when there is a free page ...
ReusePage(p, t) ==
    /\ freeList # <<>>
    /\ p = Last(freeList)
    /\ freeList' = Front(freeList)
    /\ disk' = [disk EXCEPT ![p] = NewPage(t)]
    /\ UNCHANGED totalPages

\* ... and totalPages++ when there is none.
ExtendFile(p, t) ==
    /\ freeList = <<>>
    /\ totalPages < MaxPages
    /\ p = totalPages
    /\ totalPages' = totalPages + 1
    /\ disk' = [disk EXCEPT ![p] = NewPage(t)]
    /\ UNCHANGED freeList

AllocatePage(p, t) == ReusePage(p, t) \/ ExtendFile(p, t)

\* Mutant: the blank page is not written.
FreePage_KeepTag(p) ==
    /\ freeList' = Append(freeList, p)
    /\ UNCHANGED <<disk, totalPages>>

\* No check that the page is in use: freeing it twice lists it twice.
FreePage(p) ==
    /\ disk' = [disk EXCEPT ![p] = Blank]
    /\ freeList' = Append(freeList, p)
    /\ UNCHANGED totalPages

WritePage(p, page) ==
    /\ disk' = [disk EXCEPT ![p] = page]
    /\ UNCHANGED <<totalPages, freeList>>

\* The constructor on an existing file: totalPages comes from the file size,
\* the free list from the tags.
Reopen ==
    /\ freeList' \in Listing(TaggedPages(0))
    /\ UNCHANGED <<disk, totalPages>>

--------------------------------------------------------------------------------
(* What the allocator relies on *)

\* No page is listed twice: otherwise two allocations return the same page.
FreeListInjective ==
    \A i, j \in 1 .. Len(freeList) : freeList[i] = freeList[j] => i = j

\* A listed page is a page of the file that no table owns.
FreeListBlank ==
    \A i \in 1 .. Len(freeList) :
        InFile(freeList[i]) /\ disk[freeList[i]].table = 0

\* No page is lost: one that no table owns is listed.
FreeListComplete ==
    \A p \in TaggedPages(0) : \E i \in 1 .. Len(freeList) : freeList[i] = p

FreeListExact == FreeListInjective /\ FreeListBlank /\ FreeListComplete

================================================================================

--------------------------- MODULE StorageFile_proofs ---------------------------
(***************************************************************************)
(* What the members of StorageFile preserve, for the proofs about the      *)
(* modules that call them.  Their callers owe the allocator three things:  *)
(* a page is freed once, only a page in use is written, and no table has   *)
(* id 0.  Then the free list stays the list of the free pages.             *)
(***************************************************************************)
EXTENDS StorageFile, FiniteSetTheorems, SequenceTheorems, TLAPS

Holds(s, p) == \E i \in 1 .. Len(s) : s[i] = p

OnceEach(s) == \A i, j \in 1 .. Len(s) : s[i] = s[j] => i = j

\* A page of the file that carries the id of a table.
InUse(p) == InFile(p) /\ disk[p].table # 0

--------------------------------------------------------------------------------
(* Sequences without repetitions *)

LEMMA AppendOnceEach ==
    ASSUME NEW S, NEW s \in Seq(S), NEW e \in S
    PROVE  /\ Append(s, e) \in Seq(S)
           /\ \A p : Holds(Append(s, e), p) <=> Holds(s, p) \/ p = e
           /\ OnceEach(s) /\ ~ Holds(s, e) => OnceEach(Append(s, e))
BY DEF Holds, OnceEach

LEMMA TailOnceEach ==
    ASSUME NEW S, NEW s \in Seq(S), s # <<>>
    PROVE  /\ Head(s) \in S /\ Holds(s, Head(s))
           /\ Tail(s) \in Seq(S)
           /\ \A p : Holds(Tail(s), p) => Holds(s, p)
           /\ \A p : Holds(s, p) => Holds(Tail(s), p) \/ p = Head(s)
           /\ OnceEach(s) => OnceEach(Tail(s)) /\ ~ Holds(Tail(s), Head(s))
<1>1. /\ Len(s) \in Nat \ {0} /\ Head(s) = s[1] /\ Head(s) \in S
      /\ Tail(s) \in Seq(S) /\ Len(Tail(s)) = Len(s) - 1
      /\ \A i \in 1 .. Len(s) - 1 : Tail(s)[i] = s[i + 1]
    OBVIOUS
<1>2. \A i \in 1 .. Len(s) - 1 : i + 1 \in 1 .. Len(s)
    BY <1>1
<1>3. \A i \in 1 .. Len(s) : i = 1 \/ (i - 1 \in 1 .. Len(s) - 1 /\ s[i] = Tail(s)[i - 1])
    BY <1>1
<1>4. \A p : Holds(Tail(s), p) => Holds(s, p)
    BY <1>1, <1>2 DEF Holds
<1>5. \A p : Holds(s, p) => Holds(Tail(s), p) \/ p = Head(s)
    BY <1>1, <1>3 DEF Holds
<1>6. OnceEach(s) => OnceEach(Tail(s)) /\ ~ Holds(Tail(s), Head(s))
    BY <1>1, <1>2 DEF OnceEach, Holds
<1> QED
    BY <1>1, <1>4, <1>5, <1>6 DEF Holds

LEMMA FrontOnceEach ==
    ASSUME NEW S, NEW s \in Seq(S), s # <<>>
    PROVE  /\ Last(s) \in S /\ Holds(s, Last(s))
           /\ Front(s) \in Seq(S)
           /\ \A p : Holds(Front(s), p) => Holds(s, p)
           /\ \A p : Holds(s, p) => Holds(Front(s), p) \/ p = Last(s)
           /\ OnceEach(s) => OnceEach(Front(s)) /\ ~ Holds(Front(s), Last(s))
BY DEF Holds, OnceEach, Front, Last

\* The loop that lists pages finds each of them once.
LEMMA ListingOnceEach ==
    ASSUME NEW S \in SUBSET PageIds, NEW s \in Listing(S)
    PROVE  /\ s \in Seq(PageIds)
           /\ OnceEach(s)
           /\ \A p : Holds(s, p) <=> p \in S
<1> DEFINE n == Cardinality(S)
<1>1. MaxPages \in Nat /\ IsFiniteSet(PageIds)
    BY FS_Interval, StorageAssumption DEF StorageAssumption, PageIds
<1>2. IsFiniteSet(S) /\ n \in Nat
    BY <1>1, FS_Subset, FS_CardinalityType
<1>3. s \in [1 .. n -> S] /\ \A i, j \in 1 .. n : i < j => s[i] < s[j]
    BY DEF Listing
<1>4. s \in Seq(PageIds) /\ Len(s) = n
    BY <1>2, <1>3
<1>5. \A i, j \in 1 .. n : s[i] = s[j] => i = j
    <2>1. \A i \in 1 .. n : s[i] \in PageIds
        BY <1>3
    <2>2. \A p \in PageIds : p \in Int
        BY <1>1 DEF PageIds
    <2> QED
        BY <1>2, <1>3, <2>1, <2>2
<1>6. s \in Injection(1 .. n, S)
    BY <1>3, <1>5 DEF Injection, IsInjective
<1>7. s \in Surjection(1 .. n, S)
    <2>1. Cardinality(1 .. n) = n
        BY <1>2, FS_Interval
    <2> QED
        BY <1>2, <1>6, <2>1, FS_Injection
<1> QED
    BY <1>4, <1>5, <1>7 DEF OnceEach, Holds, Surjection

--------------------------------------------------------------------------------
(* The free list *)

LEMMA FreeListMeaning ==
    FreeListExact <=> /\ OnceEach(freeList)
                      /\ \A p : Holds(freeList, p) => InFile(p) /\ disk[p].table = 0
                      /\ \A p \in PageIds : InFile(p) /\ disk[p].table = 0 => Holds(freeList, p)
BY DEF FreeListExact, FreeListInjective, FreeListBlank, FreeListComplete, OnceEach, Holds,
       TaggedPages

LEMMA FreeListMeaningNext ==
    FreeListExact' <=> /\ OnceEach(freeList')
                       /\ \A p : Holds(freeList', p) => InFile(p)' /\ disk'[p].table = 0
                       /\ \A p \in PageIds : InFile(p)' /\ disk'[p].table = 0 => Holds(freeList', p)
BY DEF FreeListExact, FreeListInjective, FreeListBlank, FreeListComplete, OnceEach, Holds,
       TaggedPages

LEMMA BlankIsPage == Blank \in Page /\ \A t \in Tags : NewPage(t) \in Page
BY StorageAssumption DEF StorageAssumption, Blank, NewPage, Page, Tags

\* StorageFile::freePage.
LEMMA FreePageType ==
    ASSUME StorageTypeOK, NEW p \in PageIds, FreePage(p)
    PROVE  StorageTypeOK'
BY BlankIsPage, AppendOnceEach DEF FreePage, StorageTypeOK

LEMMA FreePageKeeps ==
    ASSUME StorageTypeOK, FreeListExact, NEW p \in PageIds, InUse(p), FreePage(p)
    PROVE  FreeListExact'
<1>1. ~ Holds(freeList, p) /\ OnceEach(freeList)
    BY FreeListMeaning DEF InUse
<1>2. /\ OnceEach(freeList')
      /\ \A q : Holds(freeList', q) <=> Holds(freeList, q) \/ q = p
    BY <1>1, AppendOnceEach DEF FreePage, StorageTypeOK
<1>3. \A q \in PageIds : disk'[q] = IF q = p THEN Blank ELSE disk[q]
    BY DEF FreePage, StorageTypeOK
<1>4. \A q : Holds(freeList, q) => q \in PageIds
    BY DEF Holds, StorageTypeOK
<1>5. Blank.table = 0 /\ \A q : InFile(q)' <=> InFile(q)
    BY DEF Blank, FreePage, InFile
<1>6. \A q : Holds(freeList', q) => InFile(q)' /\ disk'[q].table = 0
    BY <1>2, <1>3, <1>4, <1>5, FreeListMeaning DEF InUse
<1>7. \A q \in PageIds : InFile(q)' /\ disk'[q].table = 0 => Holds(freeList', q)
    BY <1>2, <1>3, <1>5, FreeListMeaning
<1> QED
    BY <1>2, <1>6, <1>7, FreeListMeaningNext

\* StorageFile::allocatePage: what it returns was nobody's.
LEMMA AllocatePageType ==
    ASSUME StorageTypeOK, NEW p \in PageIds, NEW t \in Tags, AllocatePage(p, t)
    PROVE  /\ StorageTypeOK'
           /\ disk' = [disk EXCEPT ![p] = NewPage(t)]
<1>1. MaxPages \in Nat
    BY StorageAssumption DEF StorageAssumption
<1>2. NewPage(t) \in Page
    BY BlankIsPage
<1>3. CASE ReusePage(p, t)
    <2>1. freeList' \in Seq(PageIds)
        BY <1>3, FrontOnceEach DEF ReusePage, StorageTypeOK
    <2> QED
        BY <1>2, <1>3, <2>1 DEF ReusePage, StorageTypeOK
<1>4. CASE ExtendFile(p, t)
    <2>1. totalPages' \in 0 .. MaxPages
        BY <1>1, <1>4 DEF ExtendFile, StorageTypeOK
    <2> QED
        BY <1>2, <1>4, <2>1 DEF ExtendFile, StorageTypeOK
<1> QED
    BY <1>3, <1>4 DEF AllocatePage

LEMMA AllocatePageKeeps ==
    ASSUME StorageTypeOK, FreeListExact, NEW p \in PageIds, NEW t \in Tags \ {0},
           AllocatePage(p, t)
    PROVE  /\ FreeListExact'
           /\ ~ InUse(p)
           /\ \A q \in PageIds : InFile(q)' <=> InFile(q) \/ q = p
<1>1. /\ \A q \in PageIds : disk'[q] = IF q = p THEN NewPage(t) ELSE disk[q]
      /\ NewPage(t).table # 0
    BY AllocatePageType DEF StorageTypeOK, NewPage
<1>2. CASE ReusePage(p, t)
    <2>1. /\ Holds(freeList, p) /\ OnceEach(freeList') /\ ~ Holds(freeList', p)
          /\ \A q : Holds(freeList', q) => Holds(freeList, q)
          /\ \A q : Holds(freeList, q) => Holds(freeList', q) \/ q = p
        BY <1>2, FrontOnceEach, FreeListMeaning DEF ReusePage, StorageTypeOK
    <2>2. \A q : Holds(freeList, q) => q \in PageIds
        BY DEF Holds, StorageTypeOK
    <2>3. \A q : InFile(q)' <=> InFile(q)
        BY <1>2 DEF ReusePage, InFile
    <2>4. \A q : Holds(freeList', q) => InFile(q)' /\ disk'[q].table = 0
        BY <1>1, <2>1, <2>2, <2>3, FreeListMeaning
    <2>5. \A q \in PageIds : InFile(q)' /\ disk'[q].table = 0 => Holds(freeList', q)
        BY <1>1, <2>1, <2>3, FreeListMeaning
    <2>6. InFile(p) /\ ~ InUse(p)
        BY <2>1, FreeListMeaning DEF InUse
    <2> QED
        BY <2>1, <2>3, <2>4, <2>5, <2>6, FreeListMeaningNext
<1>3. CASE ExtendFile(p, t)
    <2>1. freeList' = freeList /\ \A q : ~ Holds(freeList, q)
        BY <1>3 DEF ExtendFile, Holds
    <2>2. \A q \in PageIds : InFile(q)' <=> InFile(q) \/ q = p
        <3>1. MaxPages \in Nat /\ totalPages \in Nat
            BY StorageAssumption DEF StorageAssumption, StorageTypeOK
        <3> QED
            BY <1>3, <3>1 DEF ExtendFile, InFile, PageIds
    <2>3. ~ InFile(p)
        BY <1>3 DEF ExtendFile, InFile, StorageTypeOK
    <2>4. \A q \in PageIds : InFile(q)' /\ disk'[q].table = 0 => Holds(freeList', q)
        BY <1>1, <2>1, <2>2, FreeListMeaning
    <2> QED
        BY <2>1, <2>2, <2>3, <2>4, FreeListMeaning, FreeListMeaningNext DEF InUse
<1> QED
    BY <1>2, <1>3 DEF AllocatePage

\* StorageFile::writePage.
LEMMA WritePageKeeps ==
    ASSUME StorageTypeOK, NEW p \in PageIds, NEW page \in Page, WritePage(p, page)
    PROVE  /\ StorageTypeOK'
           /\ FreeListExact /\ InUse(p) /\ page.table # 0 => FreeListExact'
<1>1. /\ \A q \in PageIds : disk'[q] = IF q = p THEN page ELSE disk[q]
      /\ \A q \in PageIds : InFile(q)' <=> InFile(q)
      /\ freeList' = freeList
    BY DEF WritePage, StorageTypeOK, InFile
<1>2. StorageTypeOK'
    BY DEF WritePage, StorageTypeOK
<1>3. ASSUME FreeListExact, InUse(p), page.table # 0
      PROVE  FreeListExact'
    <2>1. \A q : Holds(freeList, q) => q \in PageIds
        BY DEF Holds, StorageTypeOK
    <2>2. \A q : Holds(freeList', q) => InFile(q)' /\ disk'[q].table = 0
        BY <1>1, <1>3, <2>1, FreeListMeaning DEF InUse
    <2>3. \A q \in PageIds : InFile(q)' /\ disk'[q].table = 0 => Holds(freeList', q)
        BY <1>1, <1>3, FreeListMeaning
    <2> QED
        BY <1>1, <1>3, <2>2, <2>3, FreeListMeaning, FreeListMeaningNext
<1> QED
    BY <1>2, <1>3

\* The constructor finds the free pages by their tag, whatever the list was.
LEMMA ReopenKeeps ==
    ASSUME StorageTypeOK, Reopen
    PROVE  StorageTypeOK' /\ FreeListExact'
<1>1. TaggedPages(0) \in SUBSET PageIds
    BY DEF TaggedPages
<1>2. /\ freeList' \in Seq(PageIds) /\ OnceEach(freeList')
      /\ \A p : Holds(freeList', p) <=> p \in TaggedPages(0)
    BY <1>1, ListingOnceEach DEF Reopen
<1>3. disk' = disk /\ totalPages' = totalPages
    BY DEF Reopen
<1>4. \A p : p \in TaggedPages(0) <=> p \in PageIds /\ InFile(p)' /\ disk'[p].table = 0
    BY <1>3 DEF TaggedPages, InFile
<1> QED
    BY <1>2, <1>3, <1>4, FreeListMeaningNext DEF StorageTypeOK

================================================================================

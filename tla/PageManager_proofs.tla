--------------------------- MODULE PageManager_proofs ---------------------------
(***************************************************************************)
(* The pages of one table under any number of threads.                     *)
(*                                                                         *)
(* Types are kept however the calls overlap.  The rest is proved for       *)
(* callers that run reads and clearAll alone and let only inserts overlap  *)
(* (Joined), as tests/test_pagemanager.cpp does.  insert_mutex then        *)
(* leaves at most one thread in a call (OneCall), and the invariant says   *)
(* what that one has in hand: its copy is what the file has, or that and   *)
(* its row (PageInHand); the cache has what the file has, but for the page *)
(* being written (CacheInv); and a row owed to a read is among those it    *)
(* has seen, on its page, or on a page it has still to visit (ReadInv).    *)
(* The page an insert works on is of the list, so no allocation returns    *)
(* it again: for that each page of the list must be in the file and not be *)
(* free (InUseList), and the pages the allocator may return must have no   *)
(* rows (FileInv).                                                         *)
(***************************************************************************)
EXTENDS PageManager, StorageFile_proofs

\* TypeOK, the types of the sets a read keeps, and a row for each page that is
\* about to be written.
TypeInv ==
    /\ TypeOK
    /\ seen \in [Thread -> SUBSET Location]
    /\ owed \in [Thread -> SUBSET Location]
    /\ \A th \in Thread : pc[th] \in {"put", "diskWrite"} => got[th].rows # <<>>

--------------------------------------------------------------------------------
(* Lemmas about the operators *)

OneForAPage(c) == \A i, j \in 1 .. Len(c) : c[i].id = c[j].id => i = j

\* Some entries of the cache, none of them of page p.
SomeBut(c, p) ==
    /\ c \in Seq(Entry)
    /\ OneForAPage(c)
    /\ \A i \in 1 .. Len(c) : \E k \in 1 .. Len(cache) : c[i] = cache[k] /\ cache[k].id # p

\* Without drops the entry of the page, if the cache has one, and no other.
LEMMA WithoutEffect ==
    ASSUME cache \in Seq(Entry), OneForAPage(cache), NEW p
    PROVE  /\ SomeBut(Without(p), p)
           /\ Len(Without(p)) <= Len(cache)
           /\ Cached(p) => Len(Without(p)) < Len(cache)
<1> DEFINE n == Len(cache)
<1>1. n \in Nat
    OBVIOUS
<1>2. CASE ~ Cached(p)
    <2>1. Without(p) = cache /\ \A i \in 1 .. n : cache[i].id # p
        BY <1>2 DEF Without, Cached
    <2> QED
        BY <1>1, <1>2, <2>1 DEF SomeBut
<1>3. CASE Cached(p)
    <2> DEFINE k == Place(p)
               w == Without(p)
    <2>1. k \in 1 .. n /\ cache[k].id = p
        BY <1>3 DEF Cached, Place
    <2>2. w = SubSeq(cache, 1, k - 1) \o SubSeq(cache, k + 1, n)
        BY <1>3 DEF Without, RemoveAt
    <2> HIDE DEF k, w
    <2> DEFINE l == SubSeq(cache, 1, k - 1)
               r == SubSeq(cache, k + 1, n)
    <2>3. l \in Seq(Entry) /\ Len(l) = k - 1 /\ \A i \in 1 .. k - 1 : l[i] = cache[i]
        BY <1>1, <2>1
    <2>4. r \in Seq(Entry) /\ Len(r) = n - k /\ \A i \in 1 .. n - k : r[i] = cache[i + k]
        BY <1>1, <2>1
    <2>5. w = l \o r
        BY <2>2
    <2> HIDE DEF l, r
    <2>6. /\ w \in Seq(Entry)
          /\ Len(w) = n - 1
        BY <1>1, <2>1, <2>3, <2>4, <2>5
    <2> DEFINE from(i) == IF i < k THEN i ELSE i + 1
    <2>7. \A i \in 1 .. n - 1 : i < k => w[i] = cache[i]
        BY <1>1, <2>1, <2>3, <2>4, <2>5
    <2>8. \A i \in 1 .. n - 1 : ~ (i < k) => w[i] = cache[i + 1]
        <3> TAKE i \in 1 .. n - 1
        <3> HAVE ~ (i < k)
        <3>1. i - (k - 1) \in 1 .. n - k /\ (i - (k - 1)) + k = i + 1
            BY <1>1, <2>1
        <3>2. w[i] = r[i - (k - 1)]
            BY <1>1, <2>1, <2>3, <2>4, <2>5
        <3> QED
            BY <2>4, <3>1, <3>2
    <2>9. \A i \in 1 .. n - 1 : from(i) \in 1 .. n /\ from(i) # k /\ w[i] = cache[from(i)]
        <3>1. \A i \in 1 .. n - 1 : from(i) \in 1 .. n /\ from(i) # k
            BY <1>1, <2>1
        <3> QED
            BY <2>7, <2>8, <3>1
    <2>10. \A i, j \in 1 .. n - 1 : from(i) = from(j) => i = j
        BY <1>1, <2>1
    <2> HIDE DEF from
    <2>11. \A i \in 1 .. n - 1 : cache[from(i)].id # p
        BY <2>1, <2>9 DEF OneForAPage
    <2>12. \A i \in 1 .. Len(w) : \E j \in 1 .. n : w[i] = cache[j] /\ cache[j].id # p
        <3> TAKE i \in 1 .. Len(w)
        <3>1. i \in 1 .. n - 1
            BY <2>6
        <3>2. from(i) \in 1 .. n /\ w[i] = cache[from(i)] /\ cache[from(i)].id # p
            BY <2>9, <2>11, <3>1
        <3> QED
            BY <3>2
    <2>13. OneForAPage(w)
        BY <2>6, <2>9, <2>10 DEF OneForAPage
    <2> QED
        BY <1>1, <2>6, <2>12, <2>13 DEF w, SomeBut
<1> QED
    BY <1>2, <1>3

\* LRUCache::put keeps the cache within its capacity, with one entry for a page.
LEMMA CachePutEffect ==
    ASSUME TypeOK, NEW p \in PageIds, NEW page \in Page, CachePut(p, page)
    PROVE  /\ cache' \in Seq(Entry)
           /\ Len(cache') <= Capacity
           /\ OneForAPage(cache')
           /\ \A i \in 1 .. Len(cache') :
                \/ cache'[i] = [id |-> p, page |-> page]
                \/ \E k \in 1 .. Len(cache) : cache'[i] = cache[k] /\ cache[k].id # p
<1> DEFINE kept == IF Cached(p) \/ Len(cache) < Capacity THEN Without(p) ELSE Front(cache)
           new == [id |-> p, page |-> page]
<1>1. /\ cache \in Seq(Entry) /\ Len(cache) \in Nat /\ Len(cache) <= Capacity
      /\ Capacity \in Nat \ {0}
      /\ OneForAPage(cache)
    BY PageManagerAssumption DEF TypeOK, PageManagerAssumption, OneForAPage
<1>2. cache' = <<new>> \o kept
    BY DEF CachePut
<1>3. SomeBut(kept, p) /\ Len(kept) < Capacity
    <2>1. CASE Cached(p) \/ Len(cache) < Capacity
        <3>1. kept = Without(p)
            BY <2>1
        <3> HIDE DEF kept
        <3>2. /\ SomeBut(kept, p)
              /\ Len(kept) <= Len(cache)
              /\ Cached(p) => Len(kept) < Len(cache)
            BY <1>1, <3>1, WithoutEffect
        <3>3. Len(kept) \in Nat
            BY <3>2 DEF SomeBut
        <3>4. Len(kept) < Capacity
            BY <1>1, <2>1, <3>2, <3>3
        <3> QED
            BY <3>2, <3>4
    <2>2. CASE ~ (Cached(p) \/ Len(cache) < Capacity)
        <3>1. kept = Front(cache)
            BY <2>2
        <3>2. Len(cache) = Capacity
            BY <1>1, <2>2
        <3>3. /\ kept \in Seq(Entry) /\ Len(kept) = Len(cache) - 1
              /\ \A i \in 1 .. Len(cache) - 1 : kept[i] = cache[i]
            BY <1>1, <3>1, <3>2 DEF Front
        <3>4. \A i \in 1 .. Len(cache) : cache[i].id # p
            BY <2>2 DEF Cached
        <3> HIDE DEF kept
        <3> QED
            BY <1>1, <3>2, <3>3, <3>4 DEF SomeBut, OneForAPage
    <2> QED
        BY <2>1, <2>2
<1>4. new \in Entry /\ new.id = p
    BY DEF Entry
<1> HIDE DEF kept, new
<1>5. kept \in Seq(Entry) /\ Len(kept) \in Nat
    BY <1>3 DEF SomeBut
<1>6. /\ cache' \in Seq(Entry)
      /\ Len(cache') = Len(kept) + 1
      /\ cache'[1] = new
      /\ \A i \in 2 .. Len(kept) + 1 : cache'[i] = kept[i - 1] /\ i - 1 \in 1 .. Len(kept)
    BY <1>2, <1>5, <1>4
<1>7. \A i \in 2 .. Len(kept) + 1 : \E k \in 1 .. Len(cache) :
        cache'[i] = cache[k] /\ cache[k].id # p
    <2> TAKE i \in 2 .. Len(kept) + 1
    <2>1. cache'[i] = kept[i - 1] /\ i - 1 \in 1 .. Len(kept)
        BY <1>6
    <2> QED
        BY <1>3, <2>1 DEF SomeBut
<1>8. \A i \in 1 .. Len(cache') : i = 1 \/ i \in 2 .. Len(kept) + 1
    BY <1>6, <1>5
<1>9. \A i \in 1 .. Len(cache') :
        \/ cache'[i] = new
        \/ \E k \in 1 .. Len(cache) : cache'[i] = cache[k] /\ cache[k].id # p
    BY <1>6, <1>7, <1>8
<1>10. OneForAPage(cache')
    <2> SUFFICES ASSUME NEW i \in 1 .. Len(cache'), NEW j \in 1 .. Len(cache'),
                        cache'[i].id = cache'[j].id
                 PROVE  i = j
        BY DEF OneForAPage
    <2>1. CASE i = 1 \/ j = 1
        BY <1>4, <1>6, <1>7, <1>8, <2>1
    <2>2. CASE i # 1 /\ j # 1
        <3>1. i \in 2 .. Len(kept) + 1 /\ j \in 2 .. Len(kept) + 1
            BY <1>8, <2>2
        <3>2. kept[i - 1].id = kept[j - 1].id
            BY <1>6, <3>1
        <3>3. i - 1 = j - 1
            BY <1>3, <1>6, <3>1, <3>2 DEF SomeBut, OneForAPage
        <3> QED
            BY <1>5, <3>1, <3>3
    <2> QED
        BY <2>1, <2>2
<1>11. Len(cache') <= Capacity
    BY <1>1, <1>3, <1>6, <1>5
<1> QED
    BY <1>6, <1>9, <1>10, <1>11 DEF new

\* What get returns is a page of the cache.
LEMMA CachedPageEffect ==
    ASSUME cache \in Seq(Entry), NEW p, Cached(p)
    PROVE  /\ Place(p) \in 1 .. Len(cache)
           /\ cache[Place(p)].id = p
           /\ CachedPage(p) \in Page
<1>1. Place(p) \in 1 .. Len(cache) /\ cache[Place(p)].id = p
    BY DEF Cached, Place
<1>2. cache[Place(p)] \in Entry
    BY <1>1
<1> QED
    BY <1>1, <1>2 DEF CachedPage, Entry

\* Adding a row leaves the rows before it in their places.
LEMMA AddRowEffect ==
    ASSUME NEW page \in Page, NEW r \in Row
    PROVE  /\ AddRow(page, r) \in Page
           /\ Len(AddRow(page, r).rows) = Len(page.rows) + 1
           /\ AddRow(page, r).rows # <<>>
           /\ \A i \in 1 .. Len(page.rows) : AddRow(page, r).rows[i] = page.rows[i]
           /\ AddRow(page, r).rows[Len(page.rows) + 1] = r
<1>1. page.rows \in Seq(Row) /\ page.table \in Tags
    BY DEF Page
<1>2. AddRow(page, r) = [table |-> page.table, rows |-> Append(page.rows, r)]
    <2>1. page = [table |-> page.table, rows |-> page.rows]
        BY DEF Page
    <2>2. \A t, s, z : [[table |-> t, rows |-> s] EXCEPT !.rows = z] = [table |-> t, rows |-> z]
        OBVIOUS
    <2>3. AddRow(page, r) = [page EXCEPT !.rows = Append(page.rows, r)]
        BY DEF AddRow
    <2> QED
        BY <2>1, <2>2, <2>3
<1>3. AddRow(page, r).rows = Append(page.rows, r) /\ AddRow(page, r) \in Page
    BY <1>1, <1>2 DEF Page
<1> HIDE DEF AddRow
<1> QED
    BY <1>1, <1>3

\* A place in a page of the table is a location.
LEMMA LocationsType ==
    ASSUME NEW p \in PageIds, NEW page \in Page
    PROVE  Locations(p, page) \subseteq Location
BY DEF Locations, Location, Page

--------------------------------------------------------------------------------
(* Types *)

LEMMA InitTypes == Init => TypeInv
<1> SUFFICES ASSUME Init
             PROVE  TypeInv
    OBVIOUS
<1>1. PICK n \in 0 .. MaxPages, r \in Row \ Oversize :
        /\ totalPages = n
        /\ disk = [p \in PageIds |-> IF p < n THEN AddRow(NewPage(TableId), r) ELSE Blank]
        /\ row = [th \in Thread |-> r]
    BY DEF Init
<1>2. /\ TableId \in Tags /\ 0 \in PageIds /\ Capacity \in Nat /\ 0 \in 0 .. MaxCalls
    BY PageManagerAssumption, StorageAssumption
       DEF PageManagerAssumption, StorageAssumption, Tags, PageIds
<1>3. AddRow(NewPage(TableId), r) \in Page /\ Blank \in Page
    BY <1>2, BlankIsPage, AddRowEffect
<1>4. pageIds \in Seq(PageIds)
    BY ListingOnceEach DEF Init, TaggedPages
<1>5. disk \in [PageIds -> Page]
    BY <1>1, <1>3
<1>6. acked \subseteq Location
    BY <1>5, LocationsType DEF Init
<1>7. cache = <<>> /\ cache \in Seq(Entry) /\ Len(cache) = 0 /\ freeList \in Seq(PageIds)
    BY DEF Init
<1>8. TypeOK
    BY <1>1, <1>2, <1>3, <1>4, <1>5, <1>6, <1>7 DEF Init, TypeOK, StorageTypeOK, Labels
<1> QED
    BY <1>8 DEF TypeInv, Init

LEMMA ReadPageTypes ==
    ASSUME TypeInv, NEW th \in Thread, ReadPage(th)
    PROVE  TypeInv'
<1> USE DEF TypeInv, TypeOK, StorageTypeOK, Labels
<1>1. cur[th] \in PageIds /\ got[th] \in Page /\ AfterRead(th) \in {"insert", "next"}
    BY DEF AfterRead
<1>2. CASE GetBegin(th)
    BY <1>2 DEF GetBegin, Goto, storageVars, localVars, readVars
<1>3. CASE GetHit(th)
    <2>1. CachedPage(cur[th]) \in Page
        BY <1>3, CachedPageEffect DEF GetHit
    <2>2. cache' \in Seq(Entry) /\ Len(cache') <= Capacity /\ OneForAPage(cache')
        BY <1>1, <1>3, <2>1, CachePutEffect DEF GetHit
    <2> QED
        BY <1>1, <1>3, <2>1, <2>2 DEF GetHit, Goto, storageVars, readVars, OneForAPage
<1>4. CASE GetMiss(th)
    BY <1>4 DEF GetMiss, Goto, storageVars, localVars, readVars
<1>5. CASE DiskRead(th)
    BY <1>1, <1>5 DEF DiskRead, Goto, storageVars, readVars
<1>6. CASE FetchPut(th)
    <2>1. cache' \in Seq(Entry) /\ Len(cache') <= Capacity /\ OneForAPage(cache')
        BY <1>1, <1>6, CachePutEffect DEF FetchPut
    <2> QED
        BY <1>1, <1>6, <2>1 DEF FetchPut, Goto, storageVars, localVars, readVars, OneForAPage
<1> QED
    BY <1>2, <1>3, <1>4, <1>5, <1>6 DEF ReadPage

LEMMA InsertTypes ==
    ASSUME TypeInv, NEW th \in Thread, Insert(th)
    PROVE  TypeInv'
<1> USE DEF TypeInv, TypeOK, StorageTypeOK, Labels
<1>1. cur[th] \in PageIds /\ got[th] \in Page /\ row[th] \in Row
    OBVIOUS
<1>2. ASSUME NEW r \in Row, InsertBegin(th, r)
      PROVE  TypeInv'
    <2>1. pageIds # <<>> => Last(pageIds) \in PageIds
        BY FrontOnceEach
    <2>2. calls' \in 0 .. MaxCalls
        BY <1>2, PageManagerAssumption DEF InsertBegin, Begin, PageManagerAssumption
    <2> QED
        BY <1>2, <2>1, <2>2 DEF InsertBegin, Begin, Goto, storageVars, readVars
<1>3. CASE ReadPage(th)
    BY <1>3, ReadPageTypes
<1>4. CASE InsertInLast(th)
    <2>1. AddRow(got[th], row[th]) \in Page /\ AddRow(got[th], row[th]).rows # <<>>
        BY <1>1, AddRowEffect
    <2> QED
        BY <1>4, <2>1 DEF InsertInLast, Goto, storageVars, readVars
<1>5. CASE LastIsFull(th)
    BY <1>5 DEF LastIsFull, Goto, storageVars, localVars, readVars
<1>6. ASSUME NEW p \in PageIds, Allocate(th, p)
      PROVE  TypeInv'
    <2>1. TableId \in Tags /\ AllocatePage(p, TableId)
        BY <1>6, PageManagerAssumption, StorageAssumption
           DEF PageManagerAssumption, StorageAssumption, Tags, Allocate
    <2>2. StorageTypeOK' /\ NewPage(TableId) \in Page
        BY <2>1, AllocatePageType, BlankIsPage
    <2> QED
        BY <1>6, <2>2 DEF Allocate, Goto, readVars
<1>7. CASE GiveBack(th)
    <2>1. StorageTypeOK'
        BY <1>1, <1>7, FreePageType DEF GiveBack
    <2> QED
        BY <1>7, <2>1 DEF GiveBack, Goto, localVars, readVars
<1>8. CASE PushBack(th)
    <2>1. AddRow(got[th], row[th]) \in Page /\ AddRow(got[th], row[th]).rows # <<>>
        BY <1>1, AddRowEffect
    <2>2. pageIds' \in Seq(PageIds)
        BY <1>1, <1>8, AppendOnceEach DEF PushBack
    <2> QED
        BY <1>8, <2>1, <2>2 DEF PushBack, Goto, storageVars, readVars
<1>9. CASE Put(th)
    <2>1. cache' \in Seq(Entry) /\ Len(cache') <= Capacity /\ OneForAPage(cache')
        BY <1>1, <1>9, CachePutEffect DEF Put
    <2> QED
        BY <1>9, <2>1 DEF Put, Goto, storageVars, localVars, readVars, OneForAPage
<1>10. CASE DiskWrite(th)
    <2>1. StorageTypeOK'
        BY <1>1, <1>10, WritePageKeeps DEF DiskWrite
    <2>2. got[th].rows \in Seq(Row) /\ got[th].rows # <<>>
        BY <1>1, <1>10 DEF DiskWrite, Page
    <2>3. Result(th) \in Location
        BY <1>1, <2>2 DEF Result, Location
    <2>4. acked' = acked \cup {Result(th)}
        BY <1>10 DEF DiskWrite
    <2> QED
        BY <1>10, <2>1, <2>3, <2>4 DEF DiskWrite, Goto, localVars, readVars
<1> QED
    BY <1>2, <1>3, <1>4, <1>5, <1>6, <1>7, <1>8, <1>9, <1>10 DEF Insert

LEMMA ReadAllTypes ==
    ASSUME TypeInv, NEW th \in Thread, ReadAll(th)
    PROVE  TypeInv'
<1> USE DEF TypeInv, TypeOK, StorageTypeOK, Labels
<1>1. Blank \in Page /\ 0 \in PageIds
    BY BlankIsPage, PageManagerAssumption, StorageAssumption
       DEF PageManagerAssumption, StorageAssumption, PageIds
<1>2. CASE ReadBegin(th)
    <2>1. calls' \in 0 .. MaxCalls
        BY <1>2, PageManagerAssumption DEF ReadBegin, Begin, PageManagerAssumption
    <2>2. acked \in SUBSET Location
        OBVIOUS
    <2> QED
        BY <1>1, <1>2, <2>1, <2>2 DEF ReadBegin, Begin, Goto, storageVars
<1>3. CASE ReadNext(th)
    <2>1. Head(snapshot[th]) \in PageIds /\ Tail(snapshot[th]) \in Seq(PageIds)
        BY <1>3, TailOnceEach DEF ReadNext
    <2>2. Locations(cur[th], got[th]) \subseteq Location
        BY LocationsType
    <2>3. /\ seen' \in [Thread -> SUBSET Location]
          /\ cur' \in [Thread -> PageIds]
          /\ snapshot' \in [Thread -> Seq(PageIds)]
        BY <1>3, <2>1, <2>2 DEF ReadNext
    <2> QED
        BY <1>3, <2>3 DEF ReadNext, Goto, storageVars
<1>4. CASE ReadPage(th)
    BY <1>4, ReadPageTypes
<1>5. CASE ReadEnd(th)
    BY <1>1, <1>5 DEF ReadEnd, Goto, storageVars
<1> QED
    BY <1>2, <1>3, <1>4, <1>5 DEF ReadAll

LEMMA ClearAllTypes ==
    ASSUME TypeInv, NEW th \in Thread, ClearAll(th)
    PROVE  TypeInv'
<1> USE DEF TypeInv, TypeOK, StorageTypeOK, Labels
<1>1. CASE ClearBegin(th)
    <2>1. calls' \in 0 .. MaxCalls
        BY <1>1, PageManagerAssumption DEF ClearBegin, Begin, PageManagerAssumption
    <2>2. cache' = <<>> /\ cache' \in Seq(Entry) /\ Len(cache') <= Capacity
        BY <1>1, PageManagerAssumption DEF ClearBegin, PageManagerAssumption
    <2> QED
        BY <1>1, <2>1, <2>2 DEF ClearBegin, Begin, Goto, storageVars
<1>2. CASE ClearPage(th)
    <2>1. Head(snapshot[th]) \in PageIds /\ Tail(snapshot[th]) \in Seq(PageIds)
        BY <1>2, TailOnceEach DEF ClearPage
    <2>2. StorageTypeOK'
        BY <1>2, <2>1, FreePageType DEF ClearPage
    <2> QED
        BY <1>2, <2>1, <2>2 DEF ClearPage, localVars
<1>3. CASE ClearEnd(th)
    BY <1>3 DEF ClearEnd, Goto, storageVars, localVars, readVars
<1> QED
    BY <1>1, <1>2, <1>3 DEF ClearAll

LEMMA StepTypes == TypeInv /\ [Next]_vars => TypeInv'
<1> SUFFICES ASSUME TypeInv, [Next]_vars
             PROVE  TypeInv'
    OBVIOUS
<1>1. CASE UNCHANGED vars
    BY <1>1 DEF vars, storageVars, localVars, readVars, TypeInv, TypeOK, StorageTypeOK
<1> QED
    BY <1>1, InsertTypes, ReadAllTypes, ClearAllTypes DEF Next, Over, Thread

\* Whatever the threads do, and whether or not their calls overlap: every
\* variable keeps its type, the cache keeps within its capacity and has one
\* entry for a page (LRUCache::put), and a location is one of a row.
THEOREM TypesKept == Spec => []TypeOK
<1>1. TypeInv => TypeOK
    BY DEF TypeInv
<1> QED
    BY <1>1, InitTypes, StepTypes, PTL DEF Spec

--------------------------------------------------------------------------------
(* One call at a time *)

OneCall == \A th, o \in Thread : pc[th] # "idle" /\ pc[o] # "idle" => th = o

\* The function a thread is in.
CallOf(th) ==
    /\ pc[th] \in {"insert", "put", "diskWrite", "allocate", "giveBack", "pushBack"}
            => call[th] = "insert"
    /\ pc[th] = "next" => call[th] = "read"
    /\ pc[th] = "freePages" => call[th] = "clear"
    /\ pc[th] \in {"get", "getting", "diskRead", "fetchPut"} => call[th] \in {"insert", "read"}

\* Free pages are listed once, and neither they nor the pages to come have rows.
FileInv ==
    /\ OnceEach(freeList)
    /\ \A p \in PageIds : Holds(freeList, p) => InFile(p)
    /\ \A p \in PageIds : ~ InFile(p) \/ Holds(freeList, p) => disk[p].rows = <<>>

\* Each page of the list is there once, and in use.
InUseList(s) ==
    /\ OnceEach(s)
    /\ \A p \in PageIds : Holds(s, p) => InFile(p) /\ ~ Holds(freeList, p)

\* clearAll empties pageIds only when it has freed all the pages: until then it
\* is the list of those still to free that tells which are in use.
ListInv ==
    /\ (\A th \in Thread : pc[th] # "freePages") => InUseList(pageIds)
    /\ \A th \in Thread : pc[th] = "freePages" =>
            InUseList(snapshot[th]) /\ cache = <<>> /\ acked = {}

Writing(p) == \E th \in Thread : pc[th] = "diskWrite" /\ cur[th] = p

\* An entry of the cache is a page of the list, and it is what the file has,
\* or is about to have.
EntryOwned(e) ==
    /\ Holds(pageIds, e.id)
    /\ ~ Writing(e.id) => e.page = disk[e.id]
    /\ \A th \in Thread : pc[th] = "diskWrite" /\ cur[th] = e.id => e.page = got[th]

CacheInv == \A i \in 1 .. Len(cache) : EntryOwned(cache[i])

AckedInv == \A l \in acked : Holds(pageIds, l.page) /\ l \in Locations(l.page, disk[l.page])

\* The copy a thread has of its page is the page, or the page with its row.
PageInHand(th) ==
    /\ pc[th] \in {"get", "getting", "diskRead", "fetchPut", "insert", "put", "diskWrite"}
            => Holds(pageIds, cur[th])
    /\ pc[th] \in {"fetchPut", "insert", "pushBack", "giveBack"} => got[th] = disk[cur[th]]
    /\ pc[th] \in {"put", "diskWrite"} => got[th] = AddRow(disk[cur[th]], row[th])
    /\ pc[th] \in {"pushBack", "giveBack"} =>
            /\ InFile(cur[th]) /\ ~ Holds(freeList, cur[th]) /\ ~ Holds(pageIds, cur[th])
            /\ got[th].rows = <<>>

\* The rows owed to a read on the pages it has still to visit.
ToVisit(th) ==
    {l \in owed[th] : Holds(snapshot[th], l.page) /\ l \in Locations(l.page, disk[l.page])}

\* A row owed to a read has been seen, or is on its page, or on one to visit.
ReadInv(th) ==
    call[th] = "read" =>
    /\ pc[th] # "idle" => \A p \in PageIds : Holds(snapshot[th], p) => Holds(pageIds, p)
    /\ pc[th] \in {"get", "getting", "diskRead"} =>
            owed[th] \subseteq seen[th] \cup Locations(cur[th], disk[cur[th]]) \cup ToVisit(th)
    /\ pc[th] \in {"fetchPut", "next"} =>
            owed[th] \subseteq seen[th] \cup Locations(cur[th], got[th]) \cup ToVisit(th)

IInv ==
    /\ TypeInv /\ OneCall /\ FileInv /\ ListInv /\ CacheInv /\ AckedInv
    /\ \A th \in Thread : CallOf(th) /\ PageInHand(th) /\ ReadInv(th)

\* The invariant, about the only thread that may be in a call.
Alone(th) == \A o \in Thread : o # th => pc[o] = "idle"

Now(th) ==
    /\ TypeInv /\ Alone(th) /\ FileInv /\ AckedInv /\ CallOf(th) /\ PageInHand(th) /\ ReadInv(th)
    /\ IF pc[th] = "freePages"
       THEN InUseList(snapshot[th]) /\ cache = <<>> /\ acked = {}
       ELSE InUseList(pageIds)
    /\ \A i \in 1 .. Len(cache) :
            /\ Holds(pageIds, cache[i].id)
            /\ cache[i].page = IF pc[th] = "diskWrite" /\ cur[th] = cache[i].id
                               THEN got[th] ELSE disk[cache[i].id]

\* The invariant, seen from the thread that is in a call, or from any when none is.
LEMMA InvOfOne ==
    ASSUME NEW th \in Thread, IInv, pc[th] # "idle" \/ \A o \in Thread : pc[o] = "idle"
    PROVE  Now(th)
<1>1. Alone(th)
    BY DEF IInv, OneCall, Alone
<1>2. /\ \A i \in 1 .. Len(cache) : EntryOwned(cache[i])
      /\ \A p : Writing(p) <=> pc[th] = "diskWrite" /\ cur[th] = p
    BY <1>1 DEF IInv, CacheInv, Writing, Alone
<1>3. \A i \in 1 .. Len(cache) :
            /\ Holds(pageIds, cache[i].id)
            /\ cache[i].page = IF pc[th] = "diskWrite" /\ cur[th] = cache[i].id
                               THEN got[th] ELSE disk[cache[i].id]
    BY <1>2 DEF EntryOwned
<1> QED
    BY <1>1, <1>3 DEF IInv, Now, ListInv, Alone

\* And back: what holds of that thread is the invariant.
LEMMA OneOfInv ==
    ASSUME NEW th \in Thread, Now(th)'
    PROVE  IInv'
<1>1. OneCall' /\ ListInv'
    BY DEF Now, OneCall, ListInv, Alone
<1>2. CacheInv'
    BY DEF Now, CacheInv, EntryOwned, Writing, Alone
<1>3. \A o \in Thread : CallOf(o)' /\ PageInHand(o)' /\ ReadInv(o)'
    BY DEF Now, CallOf, PageInHand, ReadInv, Alone
<1> QED
    BY <1>1, <1>2, <1>3 DEF IInv, Now

\* Where a call may begin, every thread is idle.
LEMMA BeginAlone ==
    ASSUME IInv, Joined, NEW th \in Thread, NEW f, Begin(th, f), f = "insert" => InsertFree
    PROVE  /\ \A o \in Thread : pc[o] = "idle"
           /\ Now(th)
<1>1. \A o \in Thread : pc[o] = "idle"
    BY DEF Begin, MayCall, InsertFree, Inserting
<1> QED
    BY <1>1, InvOfOne

LEMMA InitNow == Init => IInv
<1> SUFFICES ASSUME Init
             PROVE  IInv
    OBVIOUS
<1>1. PICK n \in 0 .. MaxPages, r \in Row \ Oversize :
        /\ totalPages = n
        /\ disk = [p \in PageIds |-> IF p < n THEN AddRow(NewPage(TableId), r) ELSE Blank]
    BY DEF Init
<1>2. TypeInv
    BY InitTypes
<1>3. TableId \in Tags \ {0} /\ NewPage(TableId) \in Page
    BY BlankIsPage, PageManagerAssumption, StorageAssumption
       DEF PageManagerAssumption, StorageAssumption, Tags
<1>4. AddRow(NewPage(TableId), r).table = TableId /\ Blank.table = 0 /\ Blank.rows = <<>>
    BY <1>3 DEF AddRow, NewPage, Blank
<1>5. \A p \in PageIds : p \in TaggedPages(TableId) <=> InFile(p)
    BY <1>1, <1>3, <1>4 DEF TaggedPages, InFile
<1>6. OnceEach(pageIds) /\ \A p : Holds(pageIds, p) <=> p \in TaggedPages(TableId)
    BY ListingOnceEach DEF Init, TaggedPages
<1>7. freeList = <<>> /\ OnceEach(freeList) /\ \A p : ~ Holds(freeList, p)
    BY DEF Init, OnceEach, Holds
<1>8. \A p \in PageIds : ~ InFile(p) => disk[p].rows = <<>> /\ Locations(p, disk[p]) = {}
    BY <1>1, <1>4 DEF InFile, Locations
<1>9. FileInv
    BY <1>7, <1>8 DEF FileInv
<1>10. InUseList(pageIds)
    BY <1>5, <1>6, <1>7 DEF InUseList
<1>11. AckedInv
    <2> SUFFICES ASSUME NEW p \in PageIds, NEW l \in Locations(p, disk[p])
                 PROVE  l.page = p /\ Holds(pageIds, p)
        BY DEF Init, AckedInv
    <2> QED
        BY <1>5, <1>6, <1>8 DEF Locations
<1>12. \A th \in Thread : pc[th] = "idle"
    BY DEF Init
<1>13. cache = <<>>
    BY DEF Init
<1>14. \A th \in Thread : CallOf(th) /\ PageInHand(th) /\ ReadInv(th)
    BY <1>12 DEF CallOf, PageInHand, ReadInv
<1>15. CacheInv /\ ListInv /\ OneCall
    BY <1>10, <1>12, <1>13 DEF CacheInv, ListInv, OneCall
<1> QED
    BY <1>2, <1>9, <1>11, <1>14, <1>15 DEF IInv

\* The cache is of pages of the file.
LEMMA EntryIds ==
    ASSUME TypeInv
    PROVE  \A i \in 1 .. Len(cache) : cache[i].id \in PageIds
<1>1. \A i \in 1 .. Len(cache) : cache[i] \in Entry
    BY DEF TypeInv, TypeOK
<1> QED
    BY <1>1 DEF Entry

\* readPage, for either caller.
LEMMA ReadPageNow ==
    ASSUME NEW th \in Thread, Now(th), TypeInv', ReadPage(th)
    PROVE  Now(th)'
<1>1. /\ th \in DOMAIN pc /\ th \in DOMAIN got /\ cur[th] \in PageIds /\ got[th] \in Page
      /\ cache \in Seq(Entry)
    BY DEF Now, TypeInv, TypeOK
<1>2. /\ UNCHANGED <<disk, totalPages, freeList, pageIds, call, row, cur, snapshot, seen, owed,
                     acked>>
      /\ pc[th] \in {"get", "getting", "diskRead", "fetchPut"}
      /\ pc'[th] \in {"getting", "diskRead", "fetchPut", AfterRead(th)}
      /\ AfterRead(th) \in {"insert", "next"}
      /\ \A o \in Thread : o # th => pc'[o] = pc[o]
    BY <1>1 DEF ReadPage, GetBegin, GetHit, GetMiss, DiskRead, FetchPut, Goto, AfterRead,
       storageVars, localVars, readVars, Now, TypeInv, TypeOK
<1>3. /\ FileInv' /\ AckedInv' /\ Alone(th)'
      /\ (\A p : InFile(p)' <=> InFile(p)) /\ InUseList(pageIds)'
    BY <1>2 DEF Now, FileInv, AckedInv, Alone, InFile, InUseList
<1>4. \A p \in PageIds, page \in Page :
        CachePut(p, page) /\ p = cur[th] /\ page = disk[p] =>
            \A i \in 1 .. Len(cache') :
                Holds(pageIds, cache'[i].id) /\ cache'[i].page = disk[cache'[i].id]
    <2> SUFFICES ASSUME CachePut(cur[th], disk[cur[th]])
                 PROVE  \A i \in 1 .. Len(cache') :
                            Holds(pageIds, cache'[i].id) /\ cache'[i].page = disk[cache'[i].id]
        OBVIOUS
    <2>1. \A i \in 1 .. Len(cache') :
            \/ cache'[i] = [id |-> cur[th], page |-> disk[cur[th]]]
            \/ \E k \in 1 .. Len(cache) : cache'[i] = cache[k] /\ cache[k].id # cur[th]
        BY <1>1, CachePutEffect DEF Now, TypeInv, TypeOK, StorageTypeOK
    <2> QED
        BY <1>2, <2>1 DEF Now, PageInHand
<1>5. /\ \A i \in 1 .. Len(cache') :
            Holds(pageIds, cache'[i].id) /\ cache'[i].page = disk[cache'[i].id]
      /\ pc'[th] \in {"fetchPut", "insert", "next"} => got'[th] = disk[cur[th]]
    <2>1. CASE GetBegin(th) \/ GetMiss(th)
        BY <1>1, <1>2, <2>1 DEF Now, GetBegin, GetMiss, Goto, localVars
    <2>2. CASE GetHit(th)
        <3>1. CachedPage(cur[th]) = disk[cur[th]]
            BY <1>1, <1>2, <2>2, CachedPageEffect DEF GetHit, CachedPage, Now
        <3> QED
            BY <1>1, <1>4, <2>2, <3>1 DEF GetHit, Now, TypeInv, TypeOK, StorageTypeOK
    <2>3. CASE DiskRead(th)
        BY <1>1, <1>2, <2>3 DEF Now, DiskRead, Goto, TypeInv, TypeOK
    <2>4. CASE FetchPut(th)
        <3>1. got[th] = disk[cur[th]]
            BY <2>4 DEF FetchPut, Now, PageInHand
        <3> QED
            BY <1>1, <1>4, <2>4, <3>1 DEF FetchPut, localVars
    <2> QED
        BY <2>1, <2>2, <2>3, <2>4 DEF ReadPage
<1>6. CallOf(th)' /\ pc'[th] # "freePages" /\ pc'[th] # "diskWrite"
    <2>1. /\ call[th] \in {"insert", "read"}
          /\ AfterRead(th) = IF call[th] = "insert" THEN "insert" ELSE "next"
        BY <1>2 DEF Now, CallOf, AfterRead
    <2> QED
        BY <1>2, <2>1 DEF CallOf
<1>7. PageInHand(th)'
    BY <1>2, <1>5 DEF PageInHand, Now
<1>8. ReadInv(th)'
    <2>1. ToVisit(th)' = ToVisit(th)
        BY <1>2 DEF ToVisit
    <2>2. call[th] = "read" =>
            owed[th] \subseteq seen[th] \cup Locations(cur[th], disk[cur[th]]) \cup ToVisit(th)
        BY <1>2 DEF Now, ReadInv, PageInHand
    <2> QED
        BY <1>2, <1>5, <2>1, <2>2 DEF ReadInv, Now
<1> QED
    BY <1>2, <1>3, <1>5, <1>6, <1>7, <1>8 DEF Now

--------------------------------------------------------------------------------
(* insertRowWithLocation *)

LEMMA InsertBeginNow ==
    ASSUME IInv, Joined, NEW th \in Thread, NEW r \in Row, InsertBegin(th, r)
    PROVE  Now(th)'
<1>1. (\A o \in Thread : pc[o] = "idle") /\ Now(th) /\ TypeInv'
    BY BeginAlone, InsertTypes DEF InsertBegin, IInv, Insert
<1>2. /\ UNCHANGED <<disk, totalPages, freeList, pageIds, cache, acked>>
      /\ call'[th] = "insert"
      /\ pc'[th] \in {"get", "allocate"}
      /\ pc'[th] = "get" => pageIds # <<>> /\ cur'[th] = Last(pageIds)
      /\ \A o \in Thread : o # th => pc'[o] = "idle"
    BY <1>1 DEF InsertBegin, Begin, Goto, storageVars, Now, TypeInv, TypeOK
<1>3. /\ FileInv' /\ AckedInv' /\ Alone(th)' /\ CallOf(th)' /\ ReadInv(th)' /\ InUseList(pageIds)'
    BY <1>1, <1>2 DEF Now, FileInv, AckedInv, Alone, CallOf, ReadInv, InFile, InUseList
<1>4. PageInHand(th)'
    <2>1. pageIds # <<>> => Holds(pageIds, Last(pageIds))
        BY <1>1, FrontOnceEach DEF Now, TypeInv, TypeOK
    <2> QED
        BY <1>2, <2>1 DEF PageInHand
<1>5. \A i \in 1 .. Len(cache') :
            Holds(pageIds', cache'[i].id) /\ cache'[i].page = disk'[cache'[i].id]
    BY <1>1, <1>2 DEF Now
<1> QED
    BY <1>1, <1>2, <1>3, <1>4, <1>5 DEF Now

LEMMA InsertInLastNow ==
    ASSUME NEW th \in Thread, Now(th), TypeInv', InsertInLast(th) \/ LastIsFull(th)
    PROVE  Now(th)'
<1>1. th \in DOMAIN pc /\ th \in DOMAIN got
    BY DEF Now, TypeInv, TypeOK
<1>2. /\ UNCHANGED <<disk, totalPages, freeList, pageIds, cache, acked, call, row, cur>>
      /\ pc[th] = "insert"
      /\ \/ pc'[th] = "put" /\ got'[th] = AddRow(got[th], row[th])
         \/ pc'[th] = "allocate"
      /\ \A o \in Thread : o # th => pc'[o] = pc[o]
    BY <1>1 DEF InsertInLast, LastIsFull, Goto, storageVars, localVars, Now, TypeInv, TypeOK
<1>3. /\ FileInv' /\ AckedInv' /\ Alone(th)' /\ CallOf(th)' /\ ReadInv(th)' /\ InUseList(pageIds)'
    BY <1>2 DEF Now, FileInv, AckedInv, Alone, CallOf, ReadInv, InFile, InUseList
<1>4. PageInHand(th)'
    BY <1>2 DEF Now, PageInHand
<1>5. \A i \in 1 .. Len(cache') :
            Holds(pageIds', cache'[i].id) /\ cache'[i].page = disk'[cache'[i].id]
    BY <1>2 DEF Now
<1> QED
    BY <1>2, <1>3, <1>4, <1>5 DEF Now

\* The page the allocator returns was free, or beyond the end of the file; it has
\* no rows, and no other page changes.
LEMMA AllocateFile ==
    ASSUME TypeInv, FileInv, NEW p \in PageIds, AllocatePage(p, TableId)
    PROVE  /\ FileInv'
           /\ ~ InFile(p) \/ Holds(freeList, p)
           /\ InFile(p)' /\ ~ Holds(freeList', p)
           /\ \A q \in PageIds : q # p => /\ InFile(q)' <=> InFile(q)
                                          /\ Holds(freeList', q) <=> Holds(freeList, q)
                                          /\ disk'[q] = disk[q]
           /\ disk'[p] = NewPage(TableId)
<1>1. StorageTypeOK /\ TableId \in Tags
    BY PageManagerAssumption, StorageAssumption
       DEF PageManagerAssumption, StorageAssumption, Tags, TypeInv, TypeOK
<1>2. \A q \in PageIds : disk'[q] = IF q = p THEN NewPage(TableId) ELSE disk[q]
    BY <1>1, AllocatePageType DEF StorageTypeOK
<1>3. NewPage(TableId).rows = <<>>
    BY DEF NewPage
<1>4. CASE ReusePage(p, TableId)
    <2>1. /\ Holds(freeList, p) /\ OnceEach(freeList') /\ ~ Holds(freeList', p)
          /\ \A q : Holds(freeList', q) => Holds(freeList, q)
          /\ \A q : Holds(freeList, q) => Holds(freeList', q) \/ q = p
        BY <1>1, <1>4, FrontOnceEach DEF ReusePage, StorageTypeOK, FileInv
    <2>2. totalPages' = totalPages
        BY <1>4 DEF ReusePage
    <2> QED
        BY <1>2, <1>3, <2>1, <2>2 DEF FileInv, InFile
<1>5. CASE ExtendFile(p, TableId)
    <2>1. p = totalPages /\ totalPages' = totalPages + 1 /\ freeList' = freeList /\ freeList = <<>>
        BY <1>5 DEF ExtendFile
    <2>2. OnceEach(freeList) /\ \A q : ~ Holds(freeList, q)
        BY <2>1 DEF OnceEach, Holds
    <2>3. /\ ~ InFile(p) /\ InFile(p)'
          /\ \A q \in PageIds : q # p => (InFile(q)' <=> InFile(q))
        <3>1. totalPages \in Nat /\ p \in Int
            BY <1>1, StorageAssumption DEF StorageTypeOK, StorageAssumption, PageIds
        <3>2. \A q \in PageIds : q \in Int
            BY DEF PageIds
        <3> QED
            BY <2>1, <3>1, <3>2 DEF InFile
    <2> QED
        BY <1>2, <1>3, <2>1, <2>2, <2>3 DEF FileInv
<1> QED
    BY <1>4, <1>5 DEF AllocatePage

\* A page in use that is freed: no other page changes.
LEMMA FreeFile ==
    ASSUME TypeInv, FileInv, NEW p \in PageIds, InFile(p), ~ Holds(freeList, p), FreePage(p)
    PROVE  /\ FileInv'
           /\ \A q \in PageIds : InFile(q)' <=> InFile(q)
           /\ \A q \in PageIds : q # p => (Holds(freeList', q) <=> Holds(freeList, q))
           /\ \A q \in PageIds : q # p => disk'[q] = disk[q]
<1>1. StorageTypeOK
    BY DEF TypeInv, TypeOK
<1>2. /\ \A q \in PageIds : disk'[q] = IF q = p THEN Blank ELSE disk[q]
      /\ totalPages' = totalPages
      /\ Blank.rows = <<>>
    BY <1>1 DEF FreePage, StorageTypeOK, Blank
<1>3. OnceEach(freeList') /\ \A q : Holds(freeList', q) <=> Holds(freeList, q) \/ q = p
    BY <1>1, AppendOnceEach DEF FreePage, StorageTypeOK, FileInv
<1> QED
    BY <1>2, <1>3 DEF FileInv, InFile

LEMMA AllocateNow ==
    ASSUME NEW th \in Thread, Now(th), TypeInv', NEW p \in PageIds, Allocate(th, p)
    PROVE  Now(th)'
<1>1. /\ UNCHANGED <<pageIds, cache, acked, call>>
      /\ pc[th] = "allocate" /\ pc'[th] \in {"giveBack", "pushBack"}
      /\ cur'[th] = p /\ got'[th] = NewPage(TableId)
      /\ \A o \in Thread : o # th => pc'[o] = pc[o]
    BY DEF Allocate, Goto, Now, TypeInv, TypeOK
<1>2. /\ FileInv' /\ InFile(p)' /\ ~ Holds(freeList', p)
      /\ \A q \in PageIds : q # p => /\ InFile(q)' <=> InFile(q)
                                     /\ Holds(freeList', q) <=> Holds(freeList, q)
                                     /\ disk'[q] = disk[q]
      /\ disk'[p] = NewPage(TableId)
      /\ ~ Holds(pageIds, p)
    BY <1>1, AllocateFile DEF Allocate, Now, InUseList
<1>3. InUseList(pageIds)'
    BY <1>1, <1>2 DEF Now, InUseList
<1>4. AckedInv'
    <2>1. \A l \in acked : l.page \in PageIds /\ l.page # p
        BY <1>2 DEF Now, AckedInv, TypeInv, TypeOK, Location
    <2> QED
        BY <1>1, <1>2, <2>1 DEF Now, AckedInv
<1>5. \A i \in 1 .. Len(cache') :
            Holds(pageIds', cache'[i].id) /\ cache'[i].page = disk'[cache'[i].id]
    <2>1. \A i \in 1 .. Len(cache) : cache[i].id \in PageIds /\ cache[i].id # p
        BY <1>2, EntryIds DEF Now
    <2> QED
        BY <1>1, <1>2, <2>1 DEF Now
<1>6. CallOf(th)' /\ ReadInv(th)' /\ Alone(th)'
    BY <1>1 DEF Now, CallOf, ReadInv, Alone
<1>7. PageInHand(th)'
    BY <1>1, <1>2 DEF PageInHand, NewPage
<1> QED
    BY <1>1, <1>2, <1>3, <1>4, <1>5, <1>6, <1>7 DEF Now

LEMMA GiveBackNow ==
    ASSUME NEW th \in Thread, Now(th), TypeInv', GiveBack(th)
    PROVE  Now(th)'
<1> DEFINE p == cur[th]
<1>1. /\ UNCHANGED <<pageIds, cache, acked, call>>
      /\ pc[th] = "giveBack" /\ pc'[th] = "idle"
      /\ \A o \in Thread : o # th => pc'[o] = pc[o]
      /\ p \in PageIds
    BY DEF GiveBack, Goto, Now, TypeInv, TypeOK, localVars
<1>2. InFile(p) /\ ~ Holds(freeList, p) /\ ~ Holds(pageIds, p) /\ FreePage(p)
    BY <1>1 DEF Now, PageInHand, GiveBack
<1>3. /\ FileInv'
      /\ \A q \in PageIds : InFile(q)' <=> InFile(q)
      /\ \A q \in PageIds : q # p => (Holds(freeList', q) <=> Holds(freeList, q))
      /\ \A q \in PageIds : q # p => disk'[q] = disk[q]
    BY <1>1, <1>2, FreeFile DEF Now
<1> HIDE DEF p
<1>4. InUseList(pageIds)'
    BY <1>1, <1>2, <1>3 DEF Now, InUseList
<1>5. AckedInv'
    <2>1. \A l \in acked : l.page \in PageIds /\ l.page # p
        BY <1>2 DEF Now, AckedInv, TypeInv, TypeOK, Location
    <2> QED
        BY <1>1, <1>3, <2>1 DEF Now, AckedInv
<1>6. \A i \in 1 .. Len(cache') :
            Holds(pageIds', cache'[i].id) /\ cache'[i].page = disk'[cache'[i].id]
    <2>1. \A i \in 1 .. Len(cache) : cache[i].id \in PageIds /\ cache[i].id # p
        BY <1>2, EntryIds DEF Now
    <2> QED
        BY <1>1, <1>3, <2>1 DEF Now
<1>7. CallOf(th)' /\ ReadInv(th)' /\ Alone(th)' /\ PageInHand(th)'
    BY <1>1 DEF Now, CallOf, ReadInv, Alone, PageInHand
<1> QED
    BY <1>1, <1>3, <1>4, <1>5, <1>6, <1>7 DEF Now

LEMMA PushBackNow ==
    ASSUME NEW th \in Thread, Now(th), TypeInv', PushBack(th)
    PROVE  Now(th)'
<1>1. /\ UNCHANGED <<disk, totalPages, freeList, cache, acked, call, row, cur>>
      /\ pc[th] = "pushBack" /\ pc'[th] = "put"
      /\ pageIds' = Append(pageIds, cur[th])
      /\ got'[th] = AddRow(got[th], row[th])
      /\ cur[th] \in PageIds
      /\ \A o \in Thread : o # th => pc'[o] = pc[o]
    BY DEF PushBack, Goto, Now, TypeInv, TypeOK, storageVars
<1>2. /\ InFile(cur[th]) /\ ~ Holds(freeList, cur[th]) /\ ~ Holds(pageIds, cur[th])
      /\ got[th] = disk[cur[th]]
    BY <1>1 DEF Now, PageInHand
<1>3. /\ \A q : Holds(pageIds', q) <=> Holds(pageIds, q) \/ q = cur[th]
      /\ OnceEach(pageIds')
    BY <1>1, <1>2, AppendOnceEach DEF Now, TypeInv, TypeOK, InUseList
<1>4. InUseList(pageIds)' /\ FileInv' /\ AckedInv'
    BY <1>1, <1>2, <1>3 DEF Now, InUseList, FileInv, AckedInv, InFile
<1>5. CallOf(th)' /\ ReadInv(th)' /\ Alone(th)'
    BY <1>1 DEF Now, CallOf, ReadInv, Alone
<1>6. PageInHand(th)'
    BY <1>1, <1>2, <1>3 DEF PageInHand
<1>7. \A i \in 1 .. Len(cache') :
            Holds(pageIds', cache'[i].id) /\ cache'[i].page = disk'[cache'[i].id]
    BY <1>1, <1>3 DEF Now
<1> QED
    BY <1>1, <1>4, <1>5, <1>6, <1>7 DEF Now

LEMMA PutNow ==
    ASSUME NEW th \in Thread, Now(th), TypeInv', Put(th)
    PROVE  Now(th)'
<1>1. /\ UNCHANGED <<disk, totalPages, freeList, pageIds, acked, call, row, cur, got>>
      /\ pc[th] = "put" /\ pc'[th] = "diskWrite"
      /\ CachePut(cur[th], got[th])
      /\ cur[th] \in PageIds /\ got[th] \in Page
      /\ \A o \in Thread : o # th => pc'[o] = pc[o]
    BY DEF Put, Goto, Now, TypeInv, TypeOK, storageVars, localVars
<1>2. \A i \in 1 .. Len(cache') :
        \/ cache'[i] = [id |-> cur[th], page |-> got[th]]
        \/ \E k \in 1 .. Len(cache) : cache'[i] = cache[k] /\ cache[k].id # cur[th]
    BY <1>1, CachePutEffect DEF Now, TypeInv
<1>3. Holds(pageIds, cur[th])
    BY <1>1 DEF Now, PageInHand
<1>4. \A i \in 1 .. Len(cache') :
        /\ Holds(pageIds, cache'[i].id)
        /\ cache'[i].page = IF cur[th] = cache'[i].id THEN got[th] ELSE disk[cache'[i].id]
    BY <1>1, <1>2, <1>3 DEF Now
<1>5. /\ FileInv' /\ AckedInv' /\ Alone(th)' /\ CallOf(th)' /\ ReadInv(th)' /\ InUseList(pageIds)'
    BY <1>1 DEF Now, FileInv, AckedInv, Alone, CallOf, ReadInv, InFile, InUseList
<1>6. PageInHand(th)'
    BY <1>1 DEF Now, PageInHand
<1> QED
    BY <1>1, <1>4, <1>5, <1>6 DEF Now

LEMMA DiskWriteNow ==
    ASSUME NEW th \in Thread, Now(th), TypeInv', DiskWrite(th)
    PROVE  Now(th)'
<1> DEFINE p == cur[th]
<1>1. /\ UNCHANGED <<totalPages, freeList, pageIds, cache, call>>
      /\ pc[th] = "diskWrite" /\ pc'[th] = "idle"
      /\ acked' = acked \cup {Result(th)}
      /\ p \in PageIds /\ row[th] \in Row /\ disk[p] \in Page
      /\ \A q \in PageIds : disk'[q] = IF q = p THEN got[th] ELSE disk[q]
      /\ \A o \in Thread : o # th => pc'[o] = pc[o]
    BY DEF DiskWrite, WritePage, Goto, Now, TypeInv, TypeOK, StorageTypeOK, localVars
<1>2. got[th] = AddRow(disk[p], row[th]) /\ Holds(pageIds, p)
    BY <1>1 DEF Now, PageInHand
<1>3. Locations(p, disk[p]) \subseteq Locations(p, got[th]) /\ Result(th) \in Locations(p, got[th])
    <2>1. disk[p].rows \in Seq(Row)
        BY <1>1 DEF Page
    <2>2. /\ Len(got[th].rows) = Len(disk[p].rows) + 1
          /\ \A i \in 1 .. Len(disk[p].rows) : got[th].rows[i] = disk[p].rows[i]
          /\ got[th].rows[Len(got[th].rows)] = row[th]
        BY <1>1, <1>2, AddRowEffect
    <2>3. /\ \A i \in 1 .. Len(disk[p].rows) : i \in 1 .. Len(got[th].rows)
          /\ Len(got[th].rows) \in 1 .. Len(got[th].rows)
        BY <2>1, <2>2
    <2> QED
        BY <2>2, <2>3 DEF Locations, Result
<1> HIDE DEF p
<1>4. AckedInv'
    <2>1. \A l \in acked : l.page \in PageIds
        BY DEF Now, TypeInv, TypeOK, Location
    <2>2. Result(th).page = p
        BY DEF Result, p
    <2> QED
        BY <1>1, <1>2, <1>3, <2>1, <2>2 DEF Now, AckedInv
<1>5. FileInv' /\ InUseList(pageIds)'
    <2>1. InFile(p) /\ ~ Holds(freeList, p)
        BY <1>1, <1>2 DEF Now, InUseList
    <2> QED
        BY <1>1, <2>1 DEF Now, FileInv, InUseList, InFile
<1>6. \A i \in 1 .. Len(cache') :
            Holds(pageIds', cache'[i].id) /\ cache'[i].page = disk'[cache'[i].id]
    <2>1. \A i \in 1 .. Len(cache) : cache[i].id \in PageIds
        BY EntryIds DEF Now
    <2> QED
        BY <1>1, <2>1 DEF Now, p
<1>7. CallOf(th)' /\ ReadInv(th)' /\ Alone(th)' /\ PageInHand(th)'
    BY <1>1 DEF Now, CallOf, ReadInv, Alone, PageInHand
<1> QED
    BY <1>1, <1>4, <1>5, <1>6, <1>7 DEF Now

LEMMA InsertInv ==
    ASSUME IInv, Joined, NEW th \in Thread, Insert(th)
    PROVE  IInv'
<1>1. TypeInv'
    BY InsertTypes DEF IInv
<1>2. ASSUME NEW r \in Row, InsertBegin(th, r)
      PROVE  Now(th)'
    BY <1>2, InsertBeginNow
<1>3. CASE pc[th] # "idle"
    <2>1. Now(th)
        BY <1>3, InvOfOne
    <2> QED
        BY <1>1, <1>2, <2>1, OneOfInv, ReadPageNow, InsertInLastNow, AllocateNow, GiveBackNow,
           PushBackNow, PutNow, DiskWriteNow DEF Insert
<1>4. CASE pc[th] = "idle"
    <2>1. \E r \in Row : InsertBegin(th, r)
        BY <1>4 DEF Insert, ReadPage, GetBegin, GetHit, GetMiss, DiskRead, FetchPut, InsertInLast,
           LastIsFull, Allocate, GiveBack, PushBack, Put, DiskWrite
    <2> QED
        BY <1>2, <2>1, OneOfInv
<1> QED
    BY <1>3, <1>4

--------------------------------------------------------------------------------
(* getAllRows and clearAll *)

LEMMA ReadBeginNow ==
    ASSUME IInv, Joined, NEW th \in Thread, ReadBegin(th)
    PROVE  Now(th)'
<1>1. (\A o \in Thread : pc[o] = "idle") /\ Now(th) /\ TypeInv'
    BY BeginAlone, ReadAllTypes DEF ReadBegin, IInv, ReadAll
<1>2. /\ UNCHANGED <<disk, totalPages, freeList, pageIds, cache, acked>>
      /\ call'[th] = "read" /\ pc'[th] = "next"
      /\ snapshot'[th] = pageIds /\ owed'[th] = acked
      /\ \A o \in Thread : o # th => pc'[o] = "idle"
    BY <1>1 DEF ReadBegin, Begin, Goto, storageVars, Now, TypeInv, TypeOK
<1>3. /\ FileInv' /\ AckedInv' /\ Alone(th)' /\ CallOf(th)' /\ PageInHand(th)'
      /\ InUseList(pageIds)'
    BY <1>1, <1>2 DEF Now, FileInv, AckedInv, Alone, CallOf, PageInHand, InFile, InUseList
<1>4. ReadInv(th)'
    <2>1. owed'[th] \subseteq ToVisit(th)'
        BY <1>1, <1>2 DEF ToVisit, Now, AckedInv
    <2> QED
        BY <1>2, <2>1 DEF ReadInv
<1>5. \A i \in 1 .. Len(cache') :
            Holds(pageIds', cache'[i].id) /\ cache'[i].page = disk'[cache'[i].id]
    BY <1>1, <1>2 DEF Now
<1> QED
    BY <1>1, <1>2, <1>3, <1>4, <1>5 DEF Now

LEMMA ReadNextNow ==
    ASSUME NEW th \in Thread, Now(th), TypeInv', ReadNext(th)
    PROVE  Now(th)'
<1>1. /\ UNCHANGED <<disk, totalPages, freeList, pageIds, cache, acked, call, owed>>
      /\ pc[th] = "next" /\ pc'[th] = "get"
      /\ snapshot[th] \in Seq(PageIds) /\ snapshot[th] # <<>>
      /\ seen'[th] = seen[th] \cup Locations(cur[th], got[th])
      /\ cur'[th] = Head(snapshot[th]) /\ snapshot'[th] = Tail(snapshot[th])
      /\ \A o \in Thread : o # th => pc'[o] = pc[o]
    BY DEF ReadNext, Goto, Now, TypeInv, TypeOK, storageVars
<1>2. call[th] = "read"
    BY <1>1 DEF Now, CallOf
<1>3. /\ \A p \in PageIds : Holds(snapshot[th], p) => Holds(pageIds, p)
      /\ owed[th] \subseteq seen[th] \cup Locations(cur[th], got[th]) \cup ToVisit(th)
    BY <1>1, <1>2 DEF Now, ReadInv
<1>4. /\ cur'[th] \in PageIds /\ Holds(snapshot[th], cur'[th])
      /\ \A p : Holds(snapshot'[th], p) => Holds(snapshot[th], p)
      /\ \A p : Holds(snapshot[th], p) => Holds(snapshot'[th], p) \/ p = cur'[th]
    BY <1>1, TailOnceEach
<1>5. ToVisit(th) \subseteq Locations(cur'[th], disk'[cur'[th]]) \cup ToVisit(th)'
    BY <1>1, <1>4 DEF ToVisit
<1>6. ReadInv(th)' /\ PageInHand(th)'
    BY <1>1, <1>3, <1>4, <1>5 DEF ReadInv, PageInHand
<1>7. /\ FileInv' /\ AckedInv' /\ Alone(th)' /\ CallOf(th)' /\ InUseList(pageIds)'
    BY <1>1, <1>2 DEF Now, FileInv, AckedInv, Alone, CallOf, InFile, InUseList
<1>8. \A i \in 1 .. Len(cache') :
            Holds(pageIds', cache'[i].id) /\ cache'[i].page = disk'[cache'[i].id]
    BY <1>1 DEF Now
<1> QED
    BY <1>1, <1>6, <1>7, <1>8 DEF Now

LEMMA ReadEndNow ==
    ASSUME NEW th \in Thread, Now(th), TypeInv', ReadEnd(th)
    PROVE  Now(th)'
<1>1. /\ UNCHANGED <<disk, totalPages, freeList, pageIds, cache, acked>>
      /\ pc[th] = "next" /\ pc'[th] = "idle"
      /\ \A o \in Thread : o # th => pc'[o] = pc[o]
    BY DEF ReadEnd, Goto, Now, TypeInv, TypeOK, storageVars
<1>2. \A i \in 1 .. Len(cache') :
            Holds(pageIds', cache'[i].id) /\ cache'[i].page = disk'[cache'[i].id]
    BY <1>1 DEF Now
<1> QED
    BY <1>1, <1>2 DEF Now, FileInv, AckedInv, Alone, CallOf, PageInHand, ReadInv, InFile, InUseList

LEMMA ClearBeginNow ==
    ASSUME IInv, Joined, NEW th \in Thread, ClearBegin(th)
    PROVE  Now(th)'
<1>1. (\A o \in Thread : pc[o] = "idle") /\ Now(th) /\ TypeInv'
    BY BeginAlone, ClearAllTypes DEF ClearBegin, IInv, ClearAll
<1>2. /\ UNCHANGED <<disk, totalPages, freeList>>
      /\ cache' = <<>> /\ acked' = {}
      /\ call'[th] = "clear" /\ pc'[th] = "freePages" /\ snapshot'[th] = pageIds
      /\ \A o \in Thread : o # th => pc'[o] = "idle"
    BY <1>1 DEF ClearBegin, Begin, Goto, storageVars, Now, TypeInv, TypeOK
<1> QED
    BY <1>1, <1>2 DEF Now, FileInv, AckedInv, Alone, CallOf, PageInHand, ReadInv, InFile, InUseList

LEMMA ClearPageNow ==
    ASSUME NEW th \in Thread, Now(th), TypeInv', ClearPage(th)
    PROVE  Now(th)'
<1> DEFINE p == Head(snapshot[th])
<1>1. /\ UNCHANGED <<pageIds, cache, pc, call, acked>>
      /\ pc[th] = "freePages"
      /\ snapshot[th] \in Seq(PageIds) /\ snapshot[th] # <<>>
      /\ snapshot'[th] = Tail(snapshot[th])
      /\ FreePage(p)
    BY DEF ClearPage, Now, TypeInv, TypeOK, localVars
<1>2. InUseList(snapshot[th]) /\ cache = <<>> /\ acked = {}
    BY <1>1 DEF Now
<1>3. /\ p \in PageIds /\ Holds(snapshot[th], p)
      /\ OnceEach(snapshot'[th]) /\ ~ Holds(snapshot'[th], p)
      /\ \A q : Holds(snapshot'[th], q) => Holds(snapshot[th], q)
    BY <1>1, <1>2, TailOnceEach DEF InUseList
<1> HIDE DEF p
<1>4. InFile(p) /\ ~ Holds(freeList, p)
    BY <1>2, <1>3 DEF InUseList
<1>5. /\ FileInv'
      /\ \A q \in PageIds : InFile(q)' <=> InFile(q)
      /\ \A q \in PageIds : q # p => (Holds(freeList', q) <=> Holds(freeList, q))
    BY <1>1, <1>3, <1>4, FreeFile DEF Now
<1>6. InUseList(snapshot[th])'
    BY <1>2, <1>3, <1>5 DEF InUseList
<1>7. Alone(th)' /\ CallOf(th)' /\ PageInHand(th)' /\ AckedInv'
    BY <1>1, <1>2 DEF Now, AckedInv, Alone, CallOf, PageInHand
<1>8. ReadInv(th)'
    <2>1. call[th] # "read"
        BY <1>1 DEF Now, CallOf
    <2> QED
        BY <1>1, <2>1 DEF ReadInv
<1> QED
    BY <1>1, <1>2, <1>5, <1>6, <1>7, <1>8 DEF Now

LEMMA ClearEndNow ==
    ASSUME NEW th \in Thread, Now(th), TypeInv', ClearEnd(th)
    PROVE  Now(th)'
<1>1. /\ UNCHANGED <<disk, totalPages, freeList, cache, acked>>
      /\ pc[th] = "freePages" /\ pc'[th] = "idle" /\ pageIds' = <<>>
      /\ \A o \in Thread : o # th => pc'[o] = pc[o]
    BY DEF ClearEnd, Goto, Now, TypeInv, TypeOK, storageVars
<1>2. cache = <<>> /\ acked = {}
    BY <1>1 DEF Now
<1>3. InUseList(pageIds)'
    BY <1>1 DEF InUseList, OnceEach, Holds
<1> QED
    BY <1>1, <1>2, <1>3
       DEF Now, FileInv, AckedInv, Alone, CallOf, PageInHand, ReadInv, InFile

LEMMA ReadAllInv ==
    ASSUME IInv, Joined, NEW th \in Thread, ReadAll(th)
    PROVE  IInv'
<1>1. TypeInv'
    BY ReadAllTypes DEF IInv
<1>2. CASE ReadBegin(th)
    BY <1>2, ReadBeginNow, OneOfInv
<1>3. CASE ReadNext(th) \/ ReadPage(th) \/ ReadEnd(th)
    <2>1. pc[th] # "idle"
        BY <1>3 DEF ReadNext, ReadEnd, ReadPage, GetBegin, GetHit, GetMiss, DiskRead, FetchPut
    <2>2. Now(th)
        BY <2>1, InvOfOne
    <2> QED
        BY <1>1, <1>3, <2>2, OneOfInv, ReadNextNow, ReadPageNow, ReadEndNow
<1> QED
    BY <1>2, <1>3 DEF ReadAll

LEMMA ClearAllInv ==
    ASSUME IInv, Joined, NEW th \in Thread, ClearAll(th)
    PROVE  IInv'
<1>1. TypeInv'
    BY ClearAllTypes DEF IInv
<1>2. CASE ClearBegin(th)
    BY <1>2, ClearBeginNow, OneOfInv
<1>3. CASE ClearPage(th) \/ ClearEnd(th)
    <2>1. pc[th] # "idle"
        BY <1>3 DEF ClearPage, ClearEnd
    <2>2. Now(th)
        BY <2>1, InvOfOne
    <2> QED
        BY <1>1, <1>3, <2>2, OneOfInv, ClearPageNow, ClearEndNow
<1> QED
    BY <1>2, <1>3 DEF ClearAll

LEMMA StepInv == Joined /\ IInv /\ [Next]_vars => IInv'
<1> SUFFICES ASSUME Joined, IInv, [Next]_vars
             PROVE  IInv'
    OBVIOUS
<1>1. CASE UNCHANGED vars
    <2>1. UNCHANGED <<disk, totalPages, freeList, pageIds, cache, pc, call, row, cur, got, snapshot,
                      seen, owed, acked, calls>>
        BY <1>1 DEF vars, storageVars, localVars, readVars
    <2>2. TypeInv' /\ OneCall' /\ FileInv' /\ ListInv' /\ CacheInv' /\ AckedInv'
        BY <2>1 DEF IInv, TypeInv, TypeOK, StorageTypeOK, OneCall, FileInv, ListInv, CacheInv,
           EntryOwned, Writing, AckedInv, InFile, InUseList
    <2>3. \A th \in Thread : CallOf(th)' /\ PageInHand(th)' /\ ReadInv(th)'
        BY <2>1 DEF IInv, CallOf, PageInHand, ReadInv, ToVisit, InFile
    <2> QED
        BY <2>2, <2>3 DEF IInv
<1> QED
    BY <1>1, InsertInv, ReadAllInv, ClearAllInv DEF Next, Over, Thread

--------------------------------------------------------------------------------
(* The properties *)

\* However many inserts overlap, a row whose insert has returned stays where it
\* was put: insert_mutex holds from the read of the last page to the write of it.
THEOREM RowsStayPut == Joined => (Spec => []AckedStays)
<1> SUFFICES ASSUME Joined
             PROVE  Spec => []AckedStays
    OBVIOUS
<1>1. IInv => AckedStays
    BY DEF IInv, AckedInv, AckedStays
<1> QED
    BY <1>1, InitNow, StepInv, PTL DEF Spec

\* The cache never has a page that is neither the one on the file nor the one
\* writePage is about to put there.
THEOREM CacheMatchesFile == Joined => (Spec => []CacheIsFile)
<1> SUFFICES ASSUME Joined
             PROVE  Spec => []CacheIsFile
    OBVIOUS
<1>1. IInv => CacheIsFile
    BY DEF IInv, CacheInv, EntryOwned, Writing, CacheIsFile
<1> QED
    BY <1>1, InitNow, StepInv, PTL DEF Spec

\* getAllRows misses no row that was inserted before it, whichever pages it
\* finds in the cache and whichever it reads from the file.
THEOREM NoRowMissed == Joined => (Spec => []ReadsAcked)
<1> SUFFICES ASSUME Joined
             PROVE  Spec => []ReadsAcked
    OBVIOUS
<1>1. ASSUME IInv
      PROVE  ReadsAcked
    <2> SUFFICES ASSUME NEW th \in Thread, pc[th] = "next", snapshot[th] = <<>>
                 PROVE  owed[th] \subseteq Rows(th)
        BY DEF ReadsAcked
    <2>1. call[th] = "read"
        BY <1>1 DEF IInv, CallOf
    <2>2. ToVisit(th) = {}
        BY DEF ToVisit, Holds
    <2> QED
        BY <1>1, <2>1, <2>2 DEF IInv, ReadInv, Rows
<1> QED
    BY <1>1, InitNow, StepInv, PTL DEF Spec

\* The location an insert is about to return is not one that an insert has
\* returned already: its index is beyond the rows the page has on the file.
LEMMA BeyondAcked ==
    ASSUME IInv, NEW th \in Thread, pc[th] = "diskWrite", NEW l \in acked, l.page = cur[th]
    PROVE  l.index # Len(got[th].rows)
<1>1. /\ disk[cur[th]] \in Page /\ row[th] \in Row
      /\ got[th] = AddRow(disk[cur[th]], row[th])
    BY DEF IInv, TypeInv, TypeOK, StorageTypeOK, PageInHand
<1>2. Len(got[th].rows) = Len(disk[cur[th]].rows) + 1 /\ Len(disk[cur[th]].rows) \in Nat
    <2>1. disk[cur[th]].rows \in Seq(Row)
        BY <1>1 DEF Page
    <2> QED
        BY <1>1, <2>1, AddRowEffect
<1>3. l.index \in 1 .. Len(disk[cur[th]].rows)
    BY DEF IInv, AckedInv, Locations
<1> QED
    BY <1>2, <1>3

\* No two inserts return the same location.
THEOREM LocationsNew == Joined => (Spec => NewLocation)
<1> SUFFICES ASSUME Joined
             PROVE  Spec => NewLocation
    OBVIOUS
<1>1. IInv /\ [Next]_vars =>
        [\A th \in Thread :
            pc[th] = "diskWrite" /\ pc'[th] = "idle"
                => \A l \in acked : l.page = cur[th] => l.index # Len(got[th].rows)]_vars
    BY BeyondAcked
<1> QED
    BY <1>1, InitNow, StepInv, PTL DEF Spec, NewLocation

================================================================================

------------------------------ MODULE PageManager ------------------------------
(***************************************************************************)
(* Storage/PageManager and Storage/LRUCache: the pages of one table, used  *)
(* by several threads through a write-through cache.                       *)
(*                                                                         *)
(* insert_mutex is held for a whole insert.  cache_mutex is held for one   *)
(* access to the cache: exclusively for LRUCache::put and for              *)
(* pageIds.push_back, but shared for LRUCache::get, which is why get is    *)
(* two steps here: two threads can be inside it.  The file has a mutex of  *)
(* its own, taken for each page (module StorageFile).  No mutex covers a   *)
(* cache access and the file access that belongs to it.                    *)
(***************************************************************************)
EXTENDS StorageFile

CONSTANTS
    Inserter,   \* threads that insert rows
    Reader,     \* threads that read all the rows
    Clearer,    \* threads that remove all the rows
    TableId,    \* PageManager::tableId
    Capacity,   \* cache_capacity; Config refuses zero
    Joined,     \* callers read and clear only while no other call runs
    MaxCalls    \* bound: calls

ASSUME PageManagerAssumption ==
    /\ MaxPages > 0
    /\ TableId \in 1 .. MaxTableId
    /\ Capacity \in Nat \ {0}
    /\ Joined \in BOOLEAN
    /\ MaxCalls \in Nat

Thread == Inserter \cup Reader \cup Clearer

VARIABLES
    pageIds,    \* PageManager::pageIds
    cache,      \* LRUCache::lruList, most recently used first
    pc,         \* where each thread is
    call,       \* the function it called last
    row,        \* the row its insert was given
    cur,        \* the page it works on
    got,        \* its copy of that page
    snapshot,   \* the pages its getAllRows, or clearAll, still has to visit
    seen,       \* locations getAllRows has copied
    owed,       \* locations acknowledged before getAllRows began
    acked,      \* locations insertRowWithLocation has returned
    calls       \* calls so far, for MaxCalls

localVars == <<call, row, cur, got>>
readVars == <<snapshot, seen, owed>>
vars == <<storageVars, pageIds, cache, pc, localVars, readVars, acked, calls>>

Labels == {"idle", "get", "getting", "diskRead", "fetchPut", "insert", "put", "diskWrite",
           "allocate", "giveBack", "pushBack", "next", "freePages"}

Entry == [id : PageIds, page : Page]
Location == [page : PageIds, index : Nat \ {0}, row : Row]

TypeOK ==
    /\ StorageTypeOK
    /\ pageIds \in Seq(PageIds)
    /\ cache \in Seq(Entry)
    /\ Len(cache) <= Capacity
    /\ \A i, j \in 1 .. Len(cache) : cache[i].id = cache[j].id => i = j
    /\ pc \in [Thread -> Labels]
    /\ call \in [Thread -> {"insert", "read", "clear"}]
    /\ row \in [Thread -> Row]
    /\ cur \in [Thread -> PageIds]
    /\ got \in [Thread -> Page]
    /\ snapshot \in [Thread -> Seq(PageIds)]
    /\ \A th \in Thread : \A l \in seen[th] \cup owed[th] : l \in Location
    /\ \A l \in acked : l \in Location
    /\ calls \in 0 .. MaxCalls

\* The rows of a page, with the places they are in.
Locations(p, page) ==
    {[page |-> p, index |-> i, row |-> page.rows[i]] : i \in 1 .. Len(page.rows)}

\* A PageManager is built on a file that may have pages of its table, and
\* starts with an empty cache.
Init ==
    /\ \E n \in 0 .. MaxPages, r \in Row \ Oversize :
        /\ totalPages = n
        /\ disk = [p \in PageIds |->
                    IF p < n THEN AddRow(NewPage(TableId), r) ELSE Blank]
        /\ row = [th \in Thread |-> r]
    /\ freeList = <<>>
    /\ pageIds \in Listing(TaggedPages(TableId))
    /\ cache = <<>>
    /\ pc = [th \in Thread |-> "idle"]
    /\ call = [th \in Thread |-> "read"]
    /\ cur = [th \in Thread |-> 0]
    /\ got = [th \in Thread |-> Blank]
    /\ snapshot = [th \in Thread |-> <<>>]
    /\ seen = [th \in Thread |-> {}]
    /\ owed = [th \in Thread |-> {}]
    /\ acked = UNION {Locations(p, disk[p]) : p \in PageIds}
    /\ calls = 0

--------------------------------------------------------------------------------
(* Locks *)

Inserting(th) == call[th] = "insert" /\ pc[th] # "idle"

\* Mutant: insert_mutex is not taken.
InsertFree_NoLock == TRUE

\* insert_mutex
InsertFree == \A th \in Thread : ~ Inserting(th)

\* cache_mutex, to be held exclusively
CacheFree == \A th \in Thread : pc[th] # "getting"

Goto(th, label) == pc' = [pc EXCEPT ![th] = label]

\* A function may be called while others run: with Joined, inserts among
\* themselves only, as in tests/test_pagemanager.cpp.
MayCall(function) ==
    Joined => \A th \in Thread :
        pc[th] = "idle" \/ (function = "insert" /\ call[th] = "insert")

Begin(th, function) ==
    /\ pc[th] = "idle"
    /\ MayCall(function)
    /\ calls < MaxCalls
    /\ calls' = calls + 1
    /\ call' = [call EXCEPT ![th] = function]

--------------------------------------------------------------------------------
(* LRUCache *)

Cached(p) == \E i \in 1 .. Len(cache) : cache[i].id = p

\* LRUCache::cacheMap
Place(p) == CHOOSE i \in 1 .. Len(cache) : cache[i].id = p

CachedPage(p) == cache[Place(p)].page

Without(p) == IF Cached(p) THEN RemoveAt(cache, Place(p)) ELSE cache

\* Mutant: a new page never evicts another.
CachePut_NoEviction(p, page) == cache' = <<[id |-> p, page |-> page]>> \o Without(p)

\* A known page moves to the front; a new one makes room for itself.  No entry
\* is ever dirty, so evict() writes nothing back.
CachePut(p, page) ==
    LET kept == IF Cached(p) \/ Len(cache) < Capacity THEN Without(p) ELSE Front(cache)
    IN  cache' = <<[id |-> p, page |-> page]>> \o kept

--------------------------------------------------------------------------------
(* readPage *)

\* shared_lock on cache_mutex
GetBegin(th) ==
    /\ pc[th] = "get"
    /\ Goto(th, "getting")
    /\ UNCHANGED <<storageVars, pageIds, cache, localVars, readVars, acked, calls>>

\* What the caller of readPage does next.
AfterRead(th) == IF call[th] = "insert" THEN "insert" ELSE "next"

\* A hit moves the entry to the front, under the shared lock.
GetHit(th) ==
    /\ pc[th] = "getting"
    /\ Cached(cur[th])
    /\ got' = [got EXCEPT ![th] = CachedPage(cur[th])]
    /\ CachePut(cur[th], CachedPage(cur[th]))
    /\ Goto(th, AfterRead(th))
    /\ UNCHANGED <<storageVars, pageIds, call, row, cur, readVars, acked, calls>>

GetMiss(th) ==
    /\ pc[th] = "getting"
    /\ ~ Cached(cur[th])
    /\ Goto(th, "diskRead")
    /\ UNCHANGED <<storageVars, pageIds, cache, localVars, readVars, acked, calls>>

DiskRead(th) ==
    /\ pc[th] = "diskRead"
    /\ got' = [got EXCEPT ![th] = disk[cur[th]]]
    /\ Goto(th, "fetchPut")
    /\ UNCHANGED <<storageVars, pageIds, cache, call, row, cur, readVars, acked, calls>>

\* The page read is put in the cache, whatever has been put there meanwhile.
FetchPut(th) ==
    /\ pc[th] = "fetchPut"
    /\ CacheFree
    /\ CachePut(cur[th], got[th])
    /\ Goto(th, AfterRead(th))
    /\ UNCHANGED <<storageVars, pageIds, localVars, readVars, acked, calls>>

--------------------------------------------------------------------------------
(* insertRowWithLocation *)

InsertBegin(th, r) ==
    /\ Begin(th, "insert")
    /\ InsertFree
    /\ row' = [row EXCEPT ![th] = r]
    /\ IF pageIds = <<>>
       THEN Goto(th, "allocate") /\ UNCHANGED cur
       ELSE Goto(th, "get") /\ cur' = [cur EXCEPT ![th] = Last(pageIds)]
    /\ UNCHANGED <<storageVars, pageIds, cache, got, readVars, acked>>

InsertInLast(th) ==
    /\ pc[th] = "insert"
    /\ HasSpace(got[th], row[th])
    /\ got' = [got EXCEPT ![th] = AddRow(@, row[th])]
    /\ Goto(th, "put")
    /\ UNCHANGED <<storageVars, pageIds, cache, call, row, cur, readVars, acked, calls>>

LastIsFull(th) ==
    /\ pc[th] = "insert"
    /\ ~ HasSpace(got[th], row[th])
    /\ Goto(th, "allocate")
    /\ UNCHANGED <<storageVars, pageIds, cache, localVars, readVars, acked, calls>>

Allocate(th, p) ==
    /\ pc[th] = "allocate"
    /\ AllocatePage(p, TableId)
    /\ cur' = [cur EXCEPT ![th] = p]
    /\ got' = [got EXCEPT ![th] = NewPage(TableId)]
    /\ Goto(th, IF row[th] \in Oversize THEN "giveBack" ELSE "pushBack")
    /\ UNCHANGED <<pageIds, cache, call, row, readVars, acked, calls>>

\* A row that fits in no page: the insert fails.
GiveBack(th) ==
    /\ pc[th] = "giveBack"
    /\ FreePage(cur[th])
    /\ Goto(th, "idle")
    /\ UNCHANGED <<pageIds, cache, localVars, readVars, acked, calls>>

\* Mutant: the new page is not added to pageIds.
PushBack_Forgotten(th) ==
    /\ pc[th] = "pushBack"
    /\ CacheFree
    /\ got' = [got EXCEPT ![th] = AddRow(@, row[th])]
    /\ Goto(th, "put")
    /\ UNCHANGED <<storageVars, pageIds, cache, call, row, cur, readVars, acked, calls>>

PushBack(th) ==
    /\ pc[th] = "pushBack"
    /\ CacheFree
    /\ pageIds' = Append(pageIds, cur[th])
    /\ got' = [got EXCEPT ![th] = AddRow(@, row[th])]
    /\ Goto(th, "put")
    /\ UNCHANGED <<storageVars, cache, call, row, cur, readVars, acked, calls>>

\* writePage: the cache, then the file.
Put(th) ==
    /\ pc[th] = "put"
    /\ CacheFree
    /\ CachePut(cur[th], got[th])
    /\ Goto(th, "diskWrite")
    /\ UNCHANGED <<storageVars, pageIds, localVars, readVars, acked, calls>>

\* The location insertRowWithLocation returns.
Result(th) == [page |-> cur[th], index |-> Len(got[th].rows), row |-> row[th]]

DiskWrite(th) ==
    /\ pc[th] = "diskWrite"
    /\ WritePage(cur[th], got[th])
    /\ acked' = acked \cup {Result(th)}
    /\ Goto(th, "idle")
    /\ UNCHANGED <<pageIds, cache, localVars, readVars, calls>>

--------------------------------------------------------------------------------
(* getAllRows *)

ReadBegin(th) ==
    /\ Begin(th, "read")
    /\ snapshot' = [snapshot EXCEPT ![th] = pageIds]
    /\ seen' = [seen EXCEPT ![th] = {}]
    /\ owed' = [owed EXCEPT ![th] = acked]
    /\ Goto(th, "next")
    /\ got' = [got EXCEPT ![th] = Blank]
    /\ UNCHANGED <<storageVars, pageIds, cache, row, cur, acked>>

\* The rows of the page just read, and the next page.
ReadNext(th) ==
    /\ pc[th] = "next"
    /\ snapshot[th] # <<>>
    /\ seen' = [seen EXCEPT ![th] = @ \cup Locations(cur[th], got[th])]
    /\ cur' = [cur EXCEPT ![th] = Head(snapshot[th])]
    /\ snapshot' = [snapshot EXCEPT ![th] = Tail(@)]
    /\ Goto(th, "get")
    /\ UNCHANGED <<storageVars, pageIds, cache, call, row, got, owed, acked, calls>>

Rows(th) == seen[th] \cup Locations(cur[th], got[th])

ReadEnd(th) ==
    /\ pc[th] = "next"
    /\ snapshot[th] = <<>>
    /\ seen' = [seen EXCEPT ![th] = {}]
    /\ owed' = [owed EXCEPT ![th] = {}]
    /\ cur' = [cur EXCEPT ![th] = 0]
    /\ got' = [got EXCEPT ![th] = Blank]
    /\ Goto(th, "idle")
    /\ UNCHANGED <<storageVars, pageIds, cache, call, row, snapshot, acked, calls>>

--------------------------------------------------------------------------------
(* clearAll, which no mutex protects from an insert *)

\* Mutant: the cache is not cleared.
ClearBegin_KeepCache(th) ==
    /\ Begin(th, "clear")
    /\ CacheFree
    /\ acked' = {}
    /\ snapshot' = [snapshot EXCEPT ![th] = pageIds]
    /\ Goto(th, "freePages")
    /\ UNCHANGED <<storageVars, pageIds, cache, row, cur, got, seen, owed>>

ClearBegin(th) ==
    /\ Begin(th, "clear")
    /\ CacheFree
    /\ cache' = <<>>
    /\ acked' = {}
    /\ snapshot' = [snapshot EXCEPT ![th] = pageIds]
    /\ Goto(th, "freePages")
    /\ UNCHANGED <<storageVars, pageIds, row, cur, got, seen, owed>>

ClearPage(th) ==
    /\ pc[th] = "freePages"
    /\ snapshot[th] # <<>>
    /\ FreePage(Head(snapshot[th]))
    /\ snapshot' = [snapshot EXCEPT ![th] = Tail(@)]
    /\ UNCHANGED <<pageIds, cache, pc, localVars, seen, owed, acked, calls>>

ClearEnd(th) ==
    /\ pc[th] = "freePages"
    /\ snapshot[th] = <<>>
    /\ pageIds' = <<>>
    /\ Goto(th, "idle")
    /\ UNCHANGED <<storageVars, cache, localVars, readVars, acked, calls>>

--------------------------------------------------------------------------------

ReadPage(th) == GetBegin(th) \/ GetHit(th) \/ GetMiss(th) \/ DiskRead(th) \/ FetchPut(th)

Insert(th) ==
    \/ \E r \in Row : InsertBegin(th, r)
    \/ ReadPage(th)
    \/ InsertInLast(th) \/ LastIsFull(th)
    \/ \E p \in PageIds : Allocate(th, p)
    \/ GiveBack(th) \/ PushBack(th) \/ Put(th) \/ DiskWrite(th)

ReadAll(th) == ReadBegin(th) \/ ReadNext(th) \/ ReadPage(th) \/ ReadEnd(th)

ClearAll(th) == ClearBegin(th) \/ ClearPage(th) \/ ClearEnd(th)

\* Every call is over, or waits for a page beyond the bound of the model.
Over ==
    /\ \A th \in Thread : pc[th] \in {"idle", "allocate"}
    /\ calls = MaxCalls \/ (totalPages = MaxPages /\ freeList = <<>>)
    /\ UNCHANGED vars

Next ==
    \/ \E th \in Inserter : Insert(th)
    \/ \E th \in Reader : ReadAll(th)
    \/ \E th \in Clearer : ClearAll(th)
    \/ Over

Spec == Init /\ [][Next]_vars

--------------------------------------------------------------------------------
(* Safety *)

\* A row whose insert has returned stays where it was put, on the file: no
\* later insert writes an older copy of its page over it.
\* (tests/test_pagemanager.cpp, ConcurrentInsertNoDuplicatesNoLoss.)
AckedStays == \A l \in acked : l \in Locations(l.page, disk[l.page])

\* No insert returns a location that another one returned before.
\* (tests/test_pagemanager.cpp, ConcurrentInsertUniqueLocations.)
NewLocation ==
    [][\A th \in Thread :
        pc[th] = "diskWrite" /\ pc'[th] = "idle"
            => \A l \in acked : l.page = cur[th] => l.index # Len(got[th].rows)]_vars

\* The cache holds what the file holds, but for the page that writePage has put
\* in one and not yet written to the other.
CacheIsFile ==
    \A i \in 1 .. Len(cache) :
        \/ cache[i].page = disk[cache[i].id]
        \/ \E th \in Thread : pc[th] = "diskWrite" /\ cur[th] = cache[i].id

\* getAllRows returns every row whose insert had returned before it was called
\* and that was not cleared since.
ReadsAcked ==
    \A th \in Thread :
        pc[th] = "next" /\ snapshot[th] = <<>> => owed[th] \subseteq Rows(th)

\* No two threads are in LRUCache::get with a hit at the same time: each moves an
\* entry of the list and writes to the map, which no container allows.  It is what
\* makes the cache of README.md:466 "thread-safe" with the "multiple concurrent
\* readers" of README.md:478, who hold cache_mutex shared.
NoDataRaces ==
    \A t, u \in Thread :
        pc[t] = "getting" /\ pc[u] = "getting" /\ Cached(cur[t]) /\ Cached(cur[u]) => t = u

================================================================================

---------------------------- MODULE BPlusTree_proofs ----------------------------
(***************************************************************************)
(* The index, for every order from 2 on, any integers as keys and any      *)
(* number of rows: what its users rely on when no insert is under way.     *)
(*                                                                         *)
(* The invariant holds within an insert too, between any two splits.  It   *)
(* has the shape of the tree (TreeInv), where the rows are (Paired, Once)  *)
(* and where the keys are (Ascending, Bounded).  Two of its parts need     *)
(* something the code does not keep: Ranked says that nodes have a height, *)
(* which makes a tree of the parent pointers and bounds every descent;     *)
(* Bounded says that nodes lie between separators, so that the keys that   *)
(* lead findLeaf to a leaf are those of one leaf and, if the tree has a    *)
(* key at all, the leaf it leads to has it.                                *)
(*                                                                         *)
(* The splits of a leaf and of an inner node differ in where they cut, and *)
(* a parent may be there or be made: Split is what the four cases have in  *)
(* common, and what is said of a split is proved of it.                    *)
(***************************************************************************)
EXTENDS BPlusTree, LargestOf, SequenceTheorems

--------------------------------------------------------------------------------
(* The invariant *)

\* Children and parents name each other, and no child is named twice.
Linked ==
    /\ \A p \in InTree : \A i \in 1 .. Len(node[p].children) :
        node[p].children[i] \in InTree /\ node[node[p].children[i]].parent = p
    /\ \A n \in InTree \ {root} :
        /\ node[n].parent \in InTree
        /\ \E i \in 1 .. Len(node[node[n].parent].children) : node[node[n].parent].children[i] = n
    /\ \A p \in InTree : \A i, j \in 1 .. Len(node[p].children) :
        node[p].children[i] = node[p].children[j] => i = j
    /\ root # 0 => node[root].parent = 0
    /\ root = 0 => node = <<>> /\ pc = "idle"

Shaped ==
    \A n \in InTree :
        Len(node[n].children) = IF node[n].leaf THEN 0 ELSE Len(node[n].keys) + 1

\* Only the node that is about to be split is too long, by one key.
Sized ==
    /\ \A n \in InTree :
        /\ Len(node[n].keys) = Order + 1 \/ Len(node[n].keys) <= Order
        /\ Len(node[n].keys) > Order => pc # "idle" /\ n = cur
        /\ n # root => Len(node[n].keys) >= Order \div 2
    /\ pc # "idle" =>
        /\ cur \in InTree /\ Len(node[cur].keys) > Order
        /\ node[cur].leaf <=> pc = "splitLeaf"

\* How far a node is above the leaves.
RankedBy(rank) ==
    /\ rank \in [InTree -> Nat]
    /\ \A n \in InTree : rank[n] <= rank[root] /\ (node[n].leaf <=> rank[n] = 0)
    /\ \A n \in InTree \ {root} : rank[node[n].parent] = rank[n] + 1

Ranked == root # 0 => \E rank : RankedBy(rank)

TreeInv == TypeOK /\ Linked /\ Shaped /\ Sized /\ Ranked

\* A leaf has a record for each key, in its place; an inner node has none.
Paired ==
    \A n \in InTree :
        /\ Len(node[n].records) = IF node[n].leaf THEN Len(node[n].keys) ELSE 0
        /\ \A i \in 1 .. Len(node[n].records) : node[n].records[i].key = node[n].keys[i]

\* Every row is somewhere, in one place only.
Once ==
    /\ \A k \in Key : \A i \in 1 .. count[k] :
        \E n \in InTree : \E j \in 1 .. Len(node[n].records) :
            node[n].records[j] = [key |-> k, nth |-> i]
    /\ \A n \in InTree : \A j \in 1 .. Len(node[n].records) :
        node[n].records[j].nth <= count[node[n].records[j].key]
    /\ \A m, n \in InTree :
        \A i \in 1 .. Len(node[m].records) : \A j \in 1 .. Len(node[n].records) :
            node[m].records[i] = node[n].records[j] => m = n /\ i = j

\* The keys of a node are in order.
Ascending ==
    \A n \in InTree : \A i, j \in 1 .. Len(node[n].keys) :
        i <= j => node[n].keys[i] <= node[n].keys[j]

\* The separators next to a node on the left and on the right, if there are any.
LowerBy(lo) ==
    /\ lo \in [InTree -> SUBSET Key]
    /\ lo[root] = {}
    /\ \A p \in InTree : \A i \in 1 .. Len(node[p].children) :
        lo[node[p].children[i]] = IF i = 1 THEN lo[p] ELSE {node[p].keys[i - 1]}

UpperBy(hi) ==
    /\ hi \in [InTree -> SUBSET Key]
    /\ hi[root] = {}
    /\ \A p \in InTree : \A i \in 1 .. Len(node[p].children) :
        hi[node[p].children[i]] = IF i = Len(node[p].children) THEN hi[p] ELSE {node[p].keys[i]}

\* The keys a node is asked for.
Within(lo, hi, n, k) == (\A l \in lo[n] : l <= k) /\ (\A h \in hi[n] : k < h)

\* The keys of a node lie between its separators.
KeysWithin(lo, hi) ==
    \A n \in InTree : \A i \in 1 .. Len(node[n].keys) :
        (\A l \in lo[n] : l <= node[n].keys[i]) /\ (\A h \in hi[n] : node[n].keys[i] <= h)

\* No key leads to two leaves.
Apart(lo, hi) ==
    \A m, n \in Leaves : \A k \in Key : Within(lo, hi, m, k) /\ Within(lo, hi, n, k) => m = n

\* A key that some leaf has is in the leaf it leads to.
Led(lo, hi) ==
    \A m, n \in Leaves : \A i \in 1 .. Len(node[m].keys) :
        Within(lo, hi, n, node[m].keys[i]) =>
            \E j \in 1 .. Len(node[n].keys) : node[n].keys[j] = node[m].keys[i]

Bounded ==
    root # 0 =>
        \E lo, hi : LowerBy(lo) /\ UpperBy(hi) /\ KeysWithin(lo, hi) /\ Apart(lo, hi) /\ Led(lo, hi)

\* No key has more rows than were inserted.
Counted == \A k \in Key : count[k] <= rows

TreeHolds == TreeInv /\ Paired /\ Once /\ Ascending /\ Bounded /\ Counted

--------------------------------------------------------------------------------
(* Sequences, numbers and the loops over them *)

\* A set of numbers has a least.
LEMMA LeastNat ==
    ASSUME NEW T \in SUBSET Nat, T # {}
    PROVE  \E m \in T : \A x \in T : m <= x
<1>1. PICK n \in T : TRUE
    OBVIOUS
<1> DEFINE S == {x \in 0 .. n : n - x \in T}
<1>2. n \in Nat /\ S \in SUBSET (-1 .. n) /\ 0 \in S
    BY <1>1
<1>3. Max(S) \in S /\ \A y \in S : y <= Max(S)
    <2> HIDE DEF S
    <2> QED
        BY <1>2, MaxOfBounded
<1>4. PICK y \in S : \A x \in S : x <= y
    BY <1>3
<1>5. n - y \in T /\ n - y \in Nat /\ n - y <= n
    BY <1>2, <1>4
<1>6. ASSUME NEW x \in T
      PROVE  n - y <= x
    <2>1. x \in Nat
        OBVIOUS
    <2>2. CASE x > n
        BY <1>2, <1>5, <2>1, <2>2
    <2>3. CASE x <= n
        <3>1. n - x \in 0 .. n /\ n - (n - x) = x
            BY <1>2, <2>1, <2>3
        <3>2. n - x <= y
            BY <1>4, <3>1
        <3> QED
            BY <1>2, <1>4, <2>1, <3>2
    <2> QED
        BY <1>2, <2>1, <2>2, <2>3
<1> QED
    BY <1>5, <1>6

\* A loop stops at the first of its stops, or past the end.
LEMMA Stops ==
    ASSUME NEW s, Len(s) \in Nat, NEW stops
    PROVE  /\ StopsAt(s, stops) \in 1 .. Len(s) + 1
           /\ \A j \in 1 .. StopsAt(s, stops) - 1 : j \notin stops
           /\ StopsAt(s, stops) <= Len(s) => StopsAt(s, stops) \in stops
<1> DEFINE T == {i \in 1 .. Len(s) + 1 : i <= Len(s) => i \in stops}
<1>1. T \in SUBSET Nat /\ Len(s) + 1 \in T
    OBVIOUS
<1>2. PICK m \in T : \A x \in T : m <= x
    <2> HIDE DEF T
    <2> QED
        BY <1>1, LeastNat
<1>3. \A j \in 1 .. m - 1 : j \notin stops
    BY <1>2
<1>4. \E i \in 1 .. Len(s) + 1 :
        (\A j \in 1 .. i - 1 : j \notin stops) /\ (i <= Len(s) => i \in stops)
    BY <1>2, <1>3
<1> QED
    BY <1>4 DEF StopsAt

\* t is s with e at place i.
Inserted(t, s, i, e) ==
    /\ Len(t) = Len(s) + 1
    /\ \A j \in 1 .. Len(s) + 1 :
        t[j] = IF j < i THEN s[j] ELSE IF j = i THEN e ELSE s[j - 1]

LEMMA Insertion ==
    ASSUME NEW S, NEW s \in Seq(S), NEW i \in 1 .. Len(s) + 1, NEW e \in S
    PROVE  InsertAt(s, i, e) \in Seq(S) /\ Inserted(InsertAt(s, i, e), s, i, e)
<1> DEFINE a == SubSeq(s, 1, i - 1)
           c == SubSeq(s, i, Len(s))
           b == <<e>>
<1>1. Len(s) \in Nat /\ i \in Nat /\ i >= 1 /\ i <= Len(s) + 1
    OBVIOUS
<1>2. a \in Seq(S) /\ Len(a) = i - 1 /\ \A j \in 1 .. i - 1 : a[j] = s[j]
    <2>1. \A j \in 1 .. i - 1 : s[j] \in S
        BY <1>1
    <2>2. /\ a \in Seq(S) /\ Len(a) = IF 1 <= i - 1 THEN i - 1 - 1 + 1 ELSE 0
          /\ \A j \in 1 .. i - 1 - 1 + 1 : a[j] = s[1 + j - 1]
        BY <1>1, <2>1, SubSeqProperties
    <2> HIDE DEF a
    <2>3. i - 1 - 1 + 1 = i - 1 /\ \A j \in Int : 1 + j - 1 = j
        BY <1>1
    <2> QED
        BY <1>1, <2>2, <2>3
<1>3. c \in Seq(S) /\ Len(c) = Len(s) + 1 - i /\ \A j \in 1 .. Len(s) + 1 - i : c[j] = s[i + j - 1]
    <2>1. \A j \in i .. Len(s) : s[j] \in S
        BY <1>1
    <2>2. /\ c \in Seq(S) /\ Len(c) = IF i <= Len(s) THEN Len(s) - i + 1 ELSE 0
          /\ \A j \in 1 .. Len(s) - i + 1 : c[j] = s[i + j - 1]
        BY <1>1, <2>1, SubSeqProperties
    <2> HIDE DEF c
    <2>3. Len(s) - i + 1 = Len(s) + 1 - i
        BY <1>1
    <2> QED
        BY <1>1, <2>2, <2>3
<1>4. b \in Seq(S) /\ Len(b) = 1 /\ b[1] = e
    OBVIOUS
<1>5. InsertAt(s, i, e) = (a \o b) \o c
    BY DEF InsertAt
<1> HIDE DEF a, b, c
<1>6. /\ a \o b \in Seq(S) /\ Len(a \o b) = Len(a) + Len(b)
      /\ \A j \in 1 .. Len(a) + Len(b) :
            (a \o b)[j] = IF j <= Len(a) THEN a[j] ELSE b[j - Len(a)]
    <2>1. a \in Seq(S) /\ b \in Seq(S)
        BY <1>2, <1>4
    <2> QED
        BY <2>1, ConcatProperties
<1> DEFINE d == a \o b
<1>7. d \in Seq(S) /\ Len(d) = i /\ (\A j \in 1 .. i - 1 : d[j] = s[j]) /\ d[i] = e
    <2>1. Len(a) + Len(b) = i
        BY <1>1, <1>2, <1>4
    <2>2. \A j \in 1 .. i - 1 : d[j] = s[j]
        BY <1>1, <1>2, <1>6, <2>1
    <2>3. d[i] = e
        BY <1>1, <1>2, <1>4, <1>6, <2>1
    <2> QED
        BY <1>6, <2>1, <2>2, <2>3
<1> HIDE DEF d
<1>8. /\ d \o c \in Seq(S) /\ Len(d \o c) = Len(d) + Len(c)
      /\ \A j \in 1 .. Len(d) + Len(c) :
            (d \o c)[j] = IF j <= Len(d) THEN d[j] ELSE c[j - Len(d)]
    <2>1. d \in Seq(S) /\ c \in Seq(S)
        BY <1>3, <1>7
    <2> QED
        BY <2>1, ConcatProperties
<1>9. Len(d) + Len(c) = Len(s) + 1
    BY <1>1, <1>3, <1>7
<1>10. ASSUME NEW j \in 1 .. Len(s) + 1
       PROVE  (d \o c)[j] = IF j < i THEN s[j] ELSE IF j = i THEN e ELSE s[j - 1]
    <2>1. CASE j <= i
        <3>1. (d \o c)[j] = d[j]
            BY <1>7, <1>8, <1>9, <2>1
        <3> QED
            BY <1>1, <1>7, <2>1, <3>1
    <2>2. CASE ~ j <= i
        <3>1. j - i \in 1 .. Len(s) + 1 - i /\ i + (j - i) - 1 = j - 1 /\ ~ j < i /\ j # i
            BY <1>1, <2>2
        <3>2. (d \o c)[j] = c[j - i]
            BY <1>7, <1>8, <1>9, <2>2
        <3>3. c[j - i] = s[i + (j - i) - 1]
            BY <1>3, <3>1
        <3> QED
            BY <3>1, <3>2, <3>3
    <2> QED
        BY <2>1, <2>2
<1>11. InsertAt(s, i, e) = d \o c
    BY <1>5 DEF d
<1> QED
    BY <1>8, <1>9, <1>10, <1>11 DEF Inserted

\* The two parts of a sequence.
LEMMA UpToIs ==
    ASSUME NEW S, NEW s \in Seq(S), NEW m \in 0 .. Len(s)
    PROVE  /\ UpTo(s, m) \in Seq(S) /\ Len(UpTo(s, m)) = m
           /\ \A i \in 1 .. m : UpTo(s, m)[i] = s[i]
<1>1. Len(s) \in Nat /\ m \in Nat /\ \A i \in 1 .. m : s[i] \in S
    OBVIOUS
<1> DEFINE a == SubSeq(s, 1, m)
<1>2. /\ a \in Seq(S) /\ Len(a) = IF 1 <= m THEN m - 1 + 1 ELSE 0
      /\ \A j \in 1 .. m - 1 + 1 : a[j] = s[1 + j - 1]
    BY <1>1, SubSeqProperties
<1> HIDE DEF a
<1>3. m - 1 + 1 = m /\ \A j \in Int : 1 + j - 1 = j
    BY <1>1
<1>4. a \in Seq(S) /\ Len(a) = m /\ \A i \in 1 .. m : a[i] = s[i]
    BY <1>1, <1>2, <1>3
<1> QED
    BY <1>4 DEF UpTo, a

LEMMA FromIs ==
    ASSUME NEW S, NEW s \in Seq(S), NEW m \in 0 .. Len(s)
    PROVE  /\ From(s, m + 1) \in Seq(S) /\ Len(From(s, m + 1)) = Len(s) - m
           /\ \A i \in 1 .. Len(s) - m : From(s, m + 1)[i] = s[m + i]
<1>1. Len(s) \in Nat /\ m \in Nat /\ m + 1 \in Nat /\ \A i \in m + 1 .. Len(s) : s[i] \in S
    OBVIOUS
<1> DEFINE a == SubSeq(s, m + 1, Len(s))
<1>2. /\ a \in Seq(S) /\ Len(a) = IF m + 1 <= Len(s) THEN Len(s) - (m + 1) + 1 ELSE 0
      /\ \A j \in 1 .. Len(s) - (m + 1) + 1 : a[j] = s[m + 1 + j - 1]
    BY <1>1, SubSeqProperties
<1> HIDE DEF a
<1>3. Len(s) - (m + 1) + 1 = Len(s) - m /\ (~ m + 1 <= Len(s) => Len(s) - m = 0)
    BY <1>1
<1>4. \A i \in 1 .. Len(s) - m : a[i] = s[m + i]
    <2> TAKE i \in 1 .. Len(s) - m
    <2>1. i \in 1 .. Len(s) - (m + 1) + 1 /\ m + 1 + i - 1 = m + i
        BY <1>1
    <2> QED
        BY <1>2, <2>1
<1>5. Len(a) = Len(s) - m
    BY <1>1, <1>2, <1>3
<1> QED
    BY <1>2, <1>4, <1>5 DEF From, a

LEMMA InSum ==
    ASSUME NEW a \in Nat, NEW b \in Nat, NEW n, n = a + b
    PROVE  /\ \A e \in 1 .. a : e \in 1 .. n
           /\ \A e \in 1 .. b : a + e \in 1 .. n
    OBVIOUS

\* Each element of t is the new one or was one of s.
\* Where each element of t is from.
Moves(t, s, i, e) ==
    /\ Len(t) = Len(s) + 1 /\ i \in 1 .. Len(t) /\ t[i] = e
    /\ \A j \in 1 .. Len(s) : j < i => j \in 1 .. Len(t) /\ t[j] = s[j]
    /\ \A j \in 1 .. Len(s) : j >= i => j + 1 \in 1 .. Len(t) /\ t[j + 1] = s[j]
    /\ \A h \in 1 .. Len(t) : h < i => h \in 1 .. Len(s)
    /\ \A h \in 1 .. Len(t) : h > i => h - 1 \in 1 .. Len(s) /\ t[h] = s[h - 1]

LEMMA InsertedIs ==
    ASSUME NEW s, Len(s) \in Nat, NEW i \in 1 .. Len(s) + 1, NEW e, NEW t, Inserted(t, s, i, e)
    PROVE  Moves(t, s, i, e)
<1>1. Len(s) \in Nat /\ i \in Nat /\ i >= 1 /\ i <= Len(s) + 1 /\ Len(t) = Len(s) + 1
    BY DEF Inserted
<1>2. \A j \in 1 .. Len(s) + 1 :
        t[j] = IF j < i THEN s[j] ELSE IF j = i THEN e ELSE s[j - 1]
    BY DEF Inserted
<1>3. i \in 1 .. Len(t) /\ t[i] = e
    BY <1>1, <1>2
<1>4. ASSUME NEW j \in 1 .. Len(s), j < i
      PROVE  j \in 1 .. Len(t) /\ t[j] = s[j]
    BY <1>1, <1>2, <1>4
<1>5. ASSUME NEW j \in 1 .. Len(s), j >= i
      PROVE  j + 1 \in 1 .. Len(t) /\ t[j + 1] = s[j]
    <2>1. PICK u \in Nat : u = j + 1
        BY <1>1
    <2>2. u \in 1 .. Len(s) + 1 /\ ~ u < i /\ u # i /\ u - 1 = j
        BY <1>1, <1>5, <2>1
    <2>3. t[u] = s[u - 1]
        BY <1>2, <2>2
    <2> QED
        BY <1>1, <2>1, <2>2, <2>3
<1>6. ASSUME NEW h \in 1 .. Len(t), h < i
      PROVE  h \in 1 .. Len(s)
    BY <1>1, <1>6
<1>7. ASSUME NEW h \in 1 .. Len(t), h > i
      PROVE  h - 1 \in 1 .. Len(s) /\ t[h] = s[h - 1]
    <2>1. h \in 1 .. Len(s) + 1 /\ ~ h < i /\ h # i /\ h - 1 \in 1 .. Len(s)
        BY <1>1, <1>7
    <2> QED
        BY <1>2, <2>1
<1> QED
    BY <1>1, <1>3, <1>4, <1>5, <1>6, <1>7 DEF Moves

Distinct(s) == \A j, h \in 1 .. Len(s) : s[j] = s[h] => j = h

LEMMA InsertedDistinct ==
    ASSUME NEW s, Len(s) \in Nat, NEW i \in 1 .. Len(s) + 1, NEW e, NEW t, Inserted(t, s, i, e),
           Distinct(s), \A j \in 1 .. Len(s) : s[j] # e
    PROVE  Distinct(t)
<1>0. Moves(t, s, i, e)
    BY InsertedIs
<1>1. /\ Len(t) = Len(s) + 1 /\ i \in 1 .. Len(t) /\ t[i] = e
      /\ \A j \in 1 .. Len(s) : j < i => j \in 1 .. Len(t) /\ t[j] = s[j]
      /\ \A h \in 1 .. Len(t) : h < i => h \in 1 .. Len(s)
      /\ \A h \in 1 .. Len(t) : h > i => h - 1 \in 1 .. Len(s) /\ t[h] = s[h - 1]
    BY <1>0 DEF Moves
<1>2. \A j, h \in 1 .. Len(s) : s[j] = s[h] => j = h
    BY DEF Distinct
<1> SUFFICES ASSUME NEW j \in 1 .. Len(t), NEW h \in 1 .. Len(t), t[j] = t[h], j # h, j < h
             PROVE  FALSE
    <2>1. \A j, h \in 1 .. Len(t) : j # h => j < h \/ h < j
        BY <1>1
    <2> QED
        BY <2>1 DEF Distinct
<1>3. CASE h < i
    <2>1. j < i /\ j \in 1 .. Len(s) /\ h \in 1 .. Len(s)
        BY <1>1, <1>3
    <2> QED
        BY <1>1, <1>2, <1>3, <2>1
<1>4. CASE h = i
    <2>1. j < i /\ j \in 1 .. Len(s)
        BY <1>1, <1>4
    <2> QED
        BY <1>1, <1>4, <2>1
<1>5. CASE h > i
    <2>1. h - 1 \in 1 .. Len(s) /\ t[h] = s[h - 1]
        BY <1>1, <1>5
    <2>2. CASE j < i
        <3>1. j \in 1 .. Len(s) /\ t[j] = s[j]
            BY <1>1, <2>2
        <3>2. j = h - 1
            BY <1>2, <2>1, <3>1
        <3> QED
            BY <1>5, <2>2, <3>2
    <2>3. CASE j = i
        BY <1>1, <2>1, <2>3
    <2>4. CASE j > i
        <3>1. j - 1 \in 1 .. Len(s) /\ t[j] = s[j - 1]
            BY <1>1, <2>4
        <3>2. j - 1 = h - 1
            BY <1>2, <2>1, <3>1
        <3> QED
            BY <3>2
    <2> QED
        BY <2>2, <2>3, <2>4
<1> QED
    BY <1>1, <1>3, <1>4, <1>5

Sorted(s) == \A j, h \in 1 .. Len(s) : j <= h => s[j] <= s[h]

LEMMA InsertedSorted ==
    ASSUME NEW s \in Seq(Int), NEW i \in 1 .. Len(s) + 1, NEW e \in Int, NEW t,
           Inserted(t, s, i, e), Sorted(s),
           \A j \in 1 .. Len(s) : j < i => s[j] <= e,
           \A j \in 1 .. Len(s) : j >= i => e <= s[j]
    PROVE  Sorted(t)
<1>0. Len(s) \in Nat /\ \A j \in 1 .. Len(s) : s[j] \in Int
    OBVIOUS
<1>0a. Moves(t, s, i, e)
    BY <1>0, InsertedIs
<1>1. /\ Len(t) = Len(s) + 1 /\ i \in 1 .. Len(t) /\ t[i] = e
      /\ \A j \in 1 .. Len(s) : j < i => j \in 1 .. Len(t) /\ t[j] = s[j]
      /\ \A h \in 1 .. Len(t) : h < i => h \in 1 .. Len(s)
      /\ \A h \in 1 .. Len(t) : h > i => h - 1 \in 1 .. Len(s) /\ t[h] = s[h - 1]
    BY <1>0a DEF Moves
<1>2. \A j, h \in 1 .. Len(s) : j <= h => s[j] <= s[h]
    BY DEF Sorted
<1> SUFFICES ASSUME NEW j \in 1 .. Len(t), NEW h \in 1 .. Len(t), j < h
             PROVE  t[j] <= t[h]
    <2>1. \A h \in 1 .. Len(t) : t[h] \in Int
        <3> TAKE h \in 1 .. Len(t)
        <3>1. h < i \/ h = i \/ h > i
            BY <1>1
        <3> QED
            BY <1>0, <1>1, <3>1
    <2>2. \A h \in 1 .. Len(t) : t[h] <= t[h]
        BY <2>1
    <2>3. \A j, h \in 1 .. Len(t) : j <= h => j < h \/ j = h
        BY <1>1
    <2> QED
        BY <2>2, <2>3 DEF Sorted
<1>3. CASE h < i
    <2>1. j < i /\ j \in 1 .. Len(s) /\ h \in 1 .. Len(s) /\ j <= h
        BY <1>1, <1>3
    <2>2. t[j] = s[j] /\ t[h] = s[h] /\ s[j] <= s[h]
        BY <1>1, <1>2, <1>3, <2>1
    <2> QED
        BY <2>2
<1>4. CASE h = i
    <2>1. j < i /\ j \in 1 .. Len(s)
        BY <1>1, <1>4
    <2> QED
        BY <1>1, <1>4, <2>1
<1>5. CASE h > i
    <2>1. h - 1 \in 1 .. Len(s) /\ t[h] = s[h - 1]
        BY <1>1, <1>5
    <2>2. CASE j < i
        <3>1. j \in 1 .. Len(s) /\ t[j] = s[j]
            BY <1>1, <2>2
        <3>2. j <= h - 1
            BY <1>5, <2>2
        <3> QED
            BY <1>2, <2>1, <3>1, <3>2
    <2>3. CASE j = i
        <3>1. h - 1 >= i
            BY <1>5
        <3> QED
            BY <1>1, <2>1, <2>3, <3>1
    <2>4. CASE j > i
        <3>1. j - 1 \in 1 .. Len(s) /\ t[j] = s[j - 1]
            BY <1>1, <2>4
        <3>2. j - 1 <= h - 1
            OBVIOUS
        <3> QED
            BY <1>2, <2>1, <3>1, <3>2
    <2> QED
        BY <2>2, <2>3, <2>4
<1> QED
    BY <1>1, <1>3, <1>4, <1>5

--------------------------------------------------------------------------------
(* What a split does to the tree *)

LEMMA NodeFields ==
    ASSUME TypeOK, NEW n \in InTree
    PROVE  /\ node[n] \in Node /\ node[n].leaf \in BOOLEAN
           /\ node[n].keys \in Seq(Key) /\ Len(node[n].keys) \in Nat
           /\ node[n].children \in Seq(Nat) /\ Len(node[n].children) \in Nat
           /\ node[n].records \in Seq(Record) /\ Len(node[n].records) \in Nat
           /\ node[n].parent \in Nat
<1>1. node[n] \in Node
    BY DEF TypeOK, InTree
<1> QED
    BY <1>1 DEF Node

\* The halves of the node that is split: the right one has its keys after the
\* first s of them, and the key that is promoted comes after those of the left one.
HalvedKeys(left, right, promoted, s) ==
    LET n == node[cur]
        m == Len(left.keys)
    IN  /\ promoted \in Key /\ promoted = n.keys[m + 1] /\ m + 1 <= Len(n.keys)
        /\ s \in {m, m + 1} /\ (n.leaf => s = m)
        /\ m \in Order \div 2 .. Order /\ Len(right.keys) \in Order \div 2 .. Order
        /\ Len(right.keys) = Len(n.keys) - s
        /\ \A i \in 1 .. m : left.keys[i] = n.keys[i]
        /\ \A i \in 1 .. Len(right.keys) : right.keys[i] = n.keys[s + i]

HalvedChildren(left, right) ==
    LET n == node[cur]
        c == Len(left.children)
    IN  /\ c = (IF n.leaf THEN 0 ELSE Len(left.keys) + 1)
        /\ Len(right.children) = (IF n.leaf THEN 0 ELSE Len(right.keys) + 1)
        /\ Len(n.children) = c + Len(right.children)
        /\ \A i \in 1 .. c : left.children[i] = n.children[i]
        /\ \A i \in 1 .. Len(right.children) : right.children[i] = n.children[c + i]

HalvedRecords(left, right) ==
    LET n == node[cur]
        r == Len(left.records)
    IN  /\ r = (IF n.leaf THEN Len(left.keys) ELSE 0)
        /\ Len(n.records) = r + Len(right.records)
        /\ \A i \in 1 .. r : left.records[i] = n.records[i]
        /\ \A i \in 1 .. Len(right.records) : right.records[i] = n.records[r + i]

Halved(left, right, promoted, s) ==
    /\ left \in Node /\ right \in Node
    /\ left.leaf = node[cur].leaf /\ right.leaf = node[cur].leaf
    /\ left.parent = node[cur].parent /\ right.parent = node[cur].parent
    /\ HalvedKeys(left, right, promoted, s)
    /\ HalvedChildren(left, right)
    /\ HalvedRecords(left, right)

LEMMA LeafHalves ==
    ASSUME TreeInv, Paired, SplitLeaf
    PROVE  \E left, right, promoted :
                Halved(left, right, promoted, Len(left.keys)) /\ Divide(left, right, promoted)
<1> DEFINE n == node[cur]
           m == (Order + 1) \div 2
           left == [n EXCEPT !.keys = UpTo(@, m), !.records = UpTo(@, m)]
           right == [n EXCEPT !.keys = From(@, m + 1), !.records = From(@, m + 1)]
<1>1. Divide(left, right, right.keys[1])
    BY DEF SplitLeaf
<1>2. cur \in InTree /\ n.leaf /\ Len(n.keys) = Order + 1 /\ Len(n.children) = 0
    <2>1. cur \in InTree /\ n.leaf /\ Len(n.keys) > Order
        BY DEF TreeInv, Sized, SplitLeaf
    <2>2. Len(n.children) = 0
        BY <2>1 DEF TreeInv, Shaped
    <2>3. Len(n.keys) \in Nat
        BY <2>1, NodeFields DEF TreeInv
    <2>4. Len(n.keys) = Order + 1
        BY <2>1, <2>3, BPlusTreeAssumption DEF TreeInv, Sized, BPlusTreeAssumption
    <2> QED
        BY <2>1, <2>2, <2>4
<1>3. /\ n \in Node /\ n.keys \in Seq(Key) /\ n.records \in Seq(Record)
      /\ n.children \in Seq(Nat)
    BY <1>2, NodeFields DEF TreeInv
<1>4. Len(n.records) = Order + 1
    BY <1>2 DEF Paired
<1>5. Order \in Nat /\ Order >= 2
    BY BPlusTreeAssumption DEF BPlusTreeAssumption
<1>6. /\ m \in Nat /\ m <= Order /\ m >= 1 /\ m >= Order \div 2
      /\ Order + 1 - m <= Order /\ Order + 1 - m >= Order \div 2 /\ Order + 1 - m >= 1
    BY <1>5
<1> HIDE DEF m
<1>6a. PICK q \in Nat : q = Order + 1 - m
    BY <1>5, <1>6
<1>7. /\ m \in 0 .. Len(n.keys) /\ m \in 0 .. Len(n.records)
      /\ Len(n.keys) - m = q /\ Len(n.records) - m = q /\ Order + 1 = m + q
      /\ 1 \in 1 .. q /\ q \in Order \div 2 .. Order /\ m \in Order \div 2 .. Order
    BY <1>2, <1>4, <1>5, <1>6, <1>6a
<1> HIDE DEF n
<1>8. /\ left.keys = UpTo(n.keys, m) /\ left.records = UpTo(n.records, m)
      /\ right.keys = From(n.keys, m + 1) /\ right.records = From(n.records, m + 1)
      /\ left.children = n.children /\ right.children = n.children
      /\ left.leaf = n.leaf /\ right.leaf = n.leaf
      /\ left.parent = n.parent /\ right.parent = n.parent
    BY <1>3 DEF Node
<1>9. /\ UpTo(n.keys, m) \in Seq(Key) /\ Len(UpTo(n.keys, m)) = m
      /\ \A i \in 1 .. m : UpTo(n.keys, m)[i] = n.keys[i]
      /\ UpTo(n.records, m) \in Seq(Record) /\ Len(UpTo(n.records, m)) = m
      /\ \A i \in 1 .. m : UpTo(n.records, m)[i] = n.records[i]
    BY <1>3, <1>7, UpToIs
<1>10. /\ From(n.keys, m + 1) \in Seq(Key) /\ Len(From(n.keys, m + 1)) = q
       /\ \A i \in 1 .. q : From(n.keys, m + 1)[i] = n.keys[m + i]
       /\ From(n.records, m + 1) \in Seq(Record) /\ Len(From(n.records, m + 1)) = q
       /\ \A i \in 1 .. q : From(n.records, m + 1)[i] = n.records[m + i]
    <2>1. /\ From(n.keys, m + 1) \in Seq(Key) /\ Len(From(n.keys, m + 1)) = Len(n.keys) - m
          /\ \A i \in 1 .. Len(n.keys) - m : From(n.keys, m + 1)[i] = n.keys[m + i]
        BY <1>3, <1>7, FromIs
    <2>2. /\ From(n.records, m + 1) \in Seq(Record)
          /\ Len(From(n.records, m + 1)) = Len(n.records) - m
          /\ \A i \in 1 .. Len(n.records) - m : From(n.records, m + 1)[i] = n.records[m + i]
        BY <1>3, <1>7, FromIs
    <2> QED
        BY <1>7, <2>1, <2>2
<1>11. left \in Node /\ right \in Node
    BY <1>3, <1>9, <1>10 DEF Node
<1> HIDE DEF left, right
<1>12. /\ Len(left.keys) = m /\ Len(right.keys) = q
       /\ Len(left.records) = m /\ Len(right.records) = q
       /\ Len(left.children) = 0 /\ Len(right.children) = 0
    BY <1>2, <1>8, <1>9, <1>10
<1>13. HalvedKeys(left, right, right.keys[1], Len(left.keys))
    <2>1. \A i \in 1 .. q : right.keys[i] = n.keys[m + i]
        BY <1>8, <1>10
    <2>2. right.keys[1] = n.keys[m + 1]
        BY <1>7, <2>1
    <2>3. right.keys[1] \in Key
        BY <1>7, <1>8, <1>10
    <2>4. \A i \in 1 .. m : left.keys[i] = n.keys[i]
        BY <1>8, <1>9
    <2>5. m + 1 <= Len(n.keys) /\ Len(n.keys) - m = q
        BY <1>2, <1>5, <1>6, <1>7
    <2> QED
        BY <1>7, <1>12, <2>1, <2>2, <2>3, <2>4, <2>5 DEF HalvedKeys, n
<1>14. HalvedChildren(left, right)
    BY <1>2, <1>12 DEF HalvedChildren, n
<1>15. HalvedRecords(left, right)
    <2>1. \A i \in 1 .. q : right.records[i] = n.records[m + i]
        BY <1>8, <1>10
    <2>2. \A i \in 1 .. m : left.records[i] = n.records[i]
        BY <1>8, <1>9
    <2>3. Len(n.records) = m + q
        BY <1>4, <1>7
    <2> QED
        BY <1>2, <1>12, <2>1, <2>2, <2>3 DEF HalvedRecords, n
<1>16. Halved(left, right, right.keys[1], Len(left.keys))
    BY <1>8, <1>11, <1>13, <1>14, <1>15 DEF Halved, n
<1> QED
    BY <1>1, <1>16

LEMMA InnerHalves ==
    ASSUME TreeInv, Paired, SplitInternal
    PROVE  \E left, right, promoted :
                Halved(left, right, promoted, Len(left.keys) + 1) /\ Divide(left, right, promoted)
<1> DEFINE n == node[cur]
           m == Order \div 2
           left == [n EXCEPT !.keys = UpTo(@, m), !.children = UpTo(@, m + 1)]
           right == [n EXCEPT !.keys = From(@, m + 2), !.children = From(@, m + 2)]
<1>1. Divide(left, right, n.keys[m + 1])
    BY DEF SplitInternal
<1>2. cur \in InTree /\ ~ n.leaf /\ Len(n.keys) = Order + 1 /\ Len(n.children) = Order + 2
    BY BPlusTreeAssumption DEF TreeInv, Sized, Shaped, SplitInternal, BPlusTreeAssumption
<1>3. /\ n \in Node /\ n.keys \in Seq(Key) /\ n.records \in Seq(Record)
      /\ n.children \in Seq(Nat)
    BY <1>2, NodeFields DEF TreeInv
<1>4. Len(n.records) = 0
    BY <1>2 DEF Paired
<1>5. Order \in Nat /\ Order >= 2
    BY BPlusTreeAssumption DEF BPlusTreeAssumption
<1>6. /\ m \in Nat /\ m <= Order /\ m >= 1
      /\ Order - m <= Order /\ Order - m >= m
    BY <1>5
<1>7. m \in Order \div 2 .. Order /\ Order - m \in Order \div 2 .. Order
    BY <1>5, <1>6
<1> HIDE DEF m
<1>8. /\ m \in 0 .. Len(n.keys) /\ m + 1 \in 0 .. Len(n.keys) /\ m + 1 \in 0 .. Len(n.children)
      /\ (m + 1) + 1 = m + 2 /\ Len(n.keys) - (m + 1) = Order - m
      /\ Len(n.children) - (m + 1) = Order - m + 1
    BY <1>2, <1>4, <1>5, <1>6
<1> HIDE DEF n
<1>9. /\ left.keys = UpTo(n.keys, m) /\ left.children = UpTo(n.children, m + 1)
      /\ right.keys = From(n.keys, m + 2) /\ right.children = From(n.children, m + 2)
      /\ left.records = n.records /\ right.records = n.records
      /\ left.leaf = n.leaf /\ right.leaf = n.leaf
      /\ left.parent = n.parent /\ right.parent = n.parent
    BY <1>3 DEF Node
<1>10. /\ UpTo(n.keys, m) \in Seq(Key) /\ Len(UpTo(n.keys, m)) = m
       /\ \A i \in 1 .. m : UpTo(n.keys, m)[i] = n.keys[i]
       /\ UpTo(n.children, m + 1) \in Seq(Nat) /\ Len(UpTo(n.children, m + 1)) = m + 1
       /\ \A i \in 1 .. m + 1 : UpTo(n.children, m + 1)[i] = n.children[i]
    <2>1. n.keys \in Seq(Key) /\ m \in 0 .. Len(n.keys)
        BY <1>3, <1>8
    <2>2. n.children \in Seq(Nat) /\ m + 1 \in 0 .. Len(n.children)
        BY <1>3, <1>8
    <2>3. /\ UpTo(n.keys, m) \in Seq(Key) /\ Len(UpTo(n.keys, m)) = m
          /\ \A i \in 1 .. m : UpTo(n.keys, m)[i] = n.keys[i]
        BY <2>1, UpToIs
    <2>4. /\ UpTo(n.children, m + 1) \in Seq(Nat) /\ Len(UpTo(n.children, m + 1)) = m + 1
          /\ \A i \in 1 .. m + 1 : UpTo(n.children, m + 1)[i] = n.children[i]
        BY <2>2, UpToIs
    <2> QED
        BY <2>3, <2>4
<1>11. /\ From(n.keys, m + 2) \in Seq(Key) /\ Len(From(n.keys, m + 2)) = Order - m
       /\ \A i \in 1 .. Order - m : From(n.keys, m + 2)[i] = n.keys[m + 1 + i]
    <2>1. /\ From(n.keys, (m + 1) + 1) \in Seq(Key)
          /\ Len(From(n.keys, (m + 1) + 1)) = Len(n.keys) - (m + 1)
          /\ \A i \in 1 .. Len(n.keys) - (m + 1) : From(n.keys, (m + 1) + 1)[i] = n.keys[m + 1 + i]
        BY <1>3, <1>8, FromIs
    <2> QED
        BY <1>8, <2>1
<1>12. /\ From(n.children, m + 2) \in Seq(Nat) /\ Len(From(n.children, m + 2)) = Order - m + 1
       /\ \A i \in 1 .. Order - m + 1 : From(n.children, m + 2)[i] = n.children[m + 1 + i]
    <2>1. /\ From(n.children, (m + 1) + 1) \in Seq(Nat)
          /\ Len(From(n.children, (m + 1) + 1)) = Len(n.children) - (m + 1)
          /\ \A i \in 1 .. Len(n.children) - (m + 1) :
                From(n.children, (m + 1) + 1)[i] = n.children[m + 1 + i]
        BY <1>3, <1>8, FromIs
    <2> QED
        BY <1>8, <2>1
<1>13. left \in Node /\ right \in Node
    BY <1>3, <1>10, <1>11, <1>12 DEF Node
<1> HIDE DEF left, right
<1>14. /\ Len(left.keys) = m /\ Len(right.keys) = Order - m
       /\ Len(left.records) = 0 /\ Len(right.records) = 0
       /\ Len(left.children) = m + 1 /\ Len(right.children) = Order - m + 1
    BY <1>4, <1>9, <1>10, <1>11, <1>12
<1>15. n.keys[m + 1] \in Key /\ m + 1 <= Len(n.keys)
    <2>1. m + 1 \in 1 .. Len(n.keys) /\ m + 1 <= Len(n.keys)
        BY <1>2, <1>5, <1>6
    <2> QED
        BY <1>3, <2>1
<1>16. /\ Len(n.keys) = Order + 1 /\ Len(n.records) = 0 /\ Len(n.children) = Order + 2
       /\ ~ n.leaf
    BY <1>2, <1>4 DEF n
<1>17. HalvedKeys(left, right, n.keys[m + 1], Len(left.keys) + 1)
    <2>1. \A i \in 1 .. m : left.keys[i] = n.keys[i]
        BY <1>9, <1>10
    <2>2. \A i \in 1 .. Order - m : right.keys[i] = n.keys[m + 1 + i]
        BY <1>9, <1>11
    <2> QED
        BY <1>7, <1>8, <1>14, <1>15, <1>16, <2>1, <2>2 DEF HalvedKeys, n
<1>18. HalvedChildren(left, right)
    <2>1. \A i \in 1 .. m + 1 : left.children[i] = n.children[i]
        BY <1>9, <1>10
    <2>2. \A i \in 1 .. Order - m + 1 : right.children[i] = n.children[m + 1 + i]
        BY <1>9, <1>12
    <2>3. Order + 2 = m + 1 + (Order - m + 1)
        BY <1>5, <1>6
    <2> QED
        BY <1>14, <1>16, <2>1, <2>2, <2>3 DEF HalvedChildren, n
<1>19. HalvedRecords(left, right)
    BY <1>14, <1>16 DEF HalvedRecords, n
<1>20. Halved(left, right, n.keys[m + 1], Len(left.keys) + 1)
    BY <1>9, <1>13, <1>17, <1>18, <1>19 DEF Halved, n
<1> QED
    BY <1>1, <1>20

\* A child of the node that moves to the right half.
Moved(right) == {right.children[j] : j \in 1 .. Len(right.children)}

LEMMA MovedAre ==
    ASSUME TreeInv, pc # "idle", NEW left, NEW right, NEW promoted, NEW s,
           Halved(left, right, promoted, s)
    PROVE  /\ \A x \in Moved(right) : x \in InTree /\ node[x].parent = cur
           /\ cur \in InTree /\ cur \notin Moved(right)
           /\ node[cur].parent \notin Moved(right) /\ node[cur].parent # cur
<1>1. cur \in InTree /\ root # 0
    BY DEF TreeInv, Sized, Linked
<1>2. ASSUME NEW x \in Moved(right)
      PROVE  x \in InTree /\ node[x].parent = cur
    <2>1. PICK j \in 1 .. Len(right.children) : x = right.children[j]
        BY DEF Moved
    <2>2. Len(left.children) \in Nat /\ Len(right.children) \in Nat
        BY DEF Halved, Node
    <2>3. /\ right.children[j] = node[cur].children[Len(left.children) + j]
          /\ Len(node[cur].children) = Len(left.children) + Len(right.children)
        BY <2>1 DEF Halved, HalvedChildren
    <2>4. Len(left.children) + j \in 1 .. Len(node[cur].children)
        <3>1. ASSUME NEW a \in Nat, NEW b \in Nat, NEW e \in 1 .. b
              PROVE  a + e \in 1 .. a + b
            BY <3>1
        <3> QED
            BY <2>2, <2>3, <3>1
    <2>5. \A e \in 1 .. Len(node[cur].children) :
            node[cur].children[e] \in InTree /\ node[node[cur].children[e]].parent = cur
        BY <1>1 DEF TreeInv, Linked
    <2> QED
        BY <2>1, <2>3, <2>4, <2>5
<1>3. PICK rank : RankedBy(rank)
    BY <1>1 DEF TreeInv, Ranked
<1>4. \A x \in InTree : node[x].parent # 0 => x # root
    BY <1>1 DEF TreeInv, Linked
<1>5. \A x \in InTree : rank[x] \in Nat
    BY <1>3 DEF RankedBy
<1>6. cur \in Nat /\ cur # 0
    BY <1>1 DEF InTree
<1>7. node[cur].parent # cur
    <2> SUFFICES ASSUME node[cur].parent = cur
                 PROVE  FALSE
        OBVIOUS
    <2>1. rank[cur] = rank[cur] + 1
        BY <1>1, <1>3, <1>4, <1>6 DEF RankedBy
    <2> QED
        BY <1>1, <1>5, <2>1
<1>8. node[cur].parent \notin Moved(right)
    <2> SUFFICES ASSUME NEW p, p = node[cur].parent, p \in InTree, node[p].parent = cur
                 PROVE  FALSE
        BY <1>2
    <2>1. p \in Nat /\ p # 0
        BY DEF InTree
    <2>2. rank[p] = rank[cur] + 1 /\ rank[cur] = rank[p] + 1
        BY <1>1, <1>3, <1>4, <1>6, <2>1 DEF RankedBy
    <2> QED
        BY <1>1, <1>5, <2>2
<1> QED
    BY <1>1, <1>2, <1>7, <1>8

\* What a node has, but for its parent.
Same(m, n) ==
    m.leaf = n.leaf /\ m.keys = n.keys /\ m.children = n.children /\ m.records = n.records

LEMMA AdoptedIs ==
    ASSUME NEW s \in Seq(Node), NEW right \in Node
    PROVE  /\ Adopted(s, right.children) \in Seq(Node)
           /\ Len(Adopted(s, right.children)) = Len(s)
           /\ \A x \in 1 .. Len(s) :
                /\ Same(Adopted(s, right.children)[x], s[x])
                /\ Adopted(s, right.children)[x].parent =
                        IF x \in Moved(right) THEN Right ELSE s[x].parent
<1> DEFINE a == Adopted(s, right.children)
<1>1. Len(s) \in Nat /\ DOMAIN s = 1 .. Len(s) /\ \A x \in 1 .. Len(s) : s[x] \in Node
    OBVIOUS
<1>2. Right \in Nat
    BY DEF Right
<1>3. ToSet(right.children) = Moved(right)
    <2>1. DOMAIN right.children = 1 .. Len(right.children)
        BY DEF Node
    <2> QED
        BY <2>1 DEF ToSet, Moved
<1>4. \A x \in 1 .. Len(s) :
        a[x] = IF x \in Moved(right) THEN [s[x] EXCEPT !.parent = Right] ELSE s[x]
    BY <1>1, <1>3 DEF Adopted
<1>5. DOMAIN a = 1 .. Len(s)
    BY <1>1 DEF Adopted
<1>6. a = [x \in 1 .. Len(s) |-> a[x]]
    BY <1>1 DEF Adopted
<1> HIDE DEF a
<1>7. ASSUME NEW x \in 1 .. Len(s)
      PROVE  /\ a[x] \in Node /\ Same(a[x], s[x])
             /\ a[x].parent = IF x \in Moved(right) THEN Right ELSE s[x].parent
    BY <1>1, <1>2, <1>4 DEF Node, Same
<1>8. a \in [1 .. Len(s) -> Node]
    BY <1>6, <1>7
<1>9. a \in Seq(Node) /\ Len(a) = Len(s)
    BY <1>1, <1>8
<1> QED
    BY <1>7, <1>9 DEF a

\* A node becomes two under P, which has the keys K and the children C before.
Divided(left, right, promoted, P, K, C, i) ==
    /\ node' \in Seq(Node) /\ 1 .. Len(node') = InTree \cup {Right, P}
    /\ P \in Nat \ {0} /\ P # cur /\ P # Right
    /\ K \in Seq(Key) /\ C \in Seq(Nat) /\ Len(C) = Len(K) + 1
    /\ i \in 1 .. Len(C) /\ C[i] = cur
    /\ Same(node'[cur], left) /\ node'[cur].parent = P
    /\ Same(node'[Right], right) /\ node'[Right].parent = P
    /\ \A x \in InTree \ {cur, P} :
        /\ Same(node'[x], node[x])
        /\ node'[x].parent = IF x \in Moved(right) THEN Right ELSE node[x].parent
    /\ ~ node'[P].leaf /\ Len(node'[P].records) = 0
    /\ Inserted(node'[P].keys, K, i, promoted)
    /\ Inserted(node'[P].children, C, i + 1, Right)

\* P is new and the root.
OnTop(P, K, C) ==
    /\ cur = root /\ P \notin InTree
    /\ Len(K) = 0 /\ Len(C) = 1
    /\ node'[P].parent = 0 /\ root' = P /\ pc' = "idle" /\ cur' = cur

\* P is the parent the node has.
Beside(P, K, C) ==
    /\ cur # root /\ P = node[cur].parent /\ P \in InTree /\ ~ node[P].leaf
    /\ K = node[P].keys /\ C = node[P].children
    /\ node'[P].parent = node[P].parent /\ root' = root /\ cur' = P
    /\ pc' = IF Len(node'[P].keys) > Order THEN "splitInternal" ELSE "idle"

LEMMA NewRootIs ==
    ASSUME TreeInv, Paired, pc # "idle", NEW left, NEW right, NEW promoted, NEW s,
           Halved(left, right, promoted, s), left.parent = 0, NewRoot(left, right, promoted)
    PROVE  \E P, K, C, i : Divided(left, right, promoted, P, K, C, i) /\ OnTop(P, K, C)
<1> DEFINE P == Right + 1
           top == [FirstLeaf EXCEPT !.leaf = FALSE, !.keys = <<promoted>>,
                                    !.children = <<cur, Right>>]
           first == [left EXCEPT !.parent = P]
           below == [node EXCEPT ![cur] = first]
           beside == [right EXCEPT !.parent = P]
           two == <<beside, top>>
           made == below \o two
<1>1. /\ cur \in InTree /\ cur \notin Moved(right)
      /\ \A x \in Moved(right) : x \in InTree
    BY MovedAre
<1>2. node \in Seq(Node) /\ Len(node) \in Nat /\ InTree = 1 .. Len(node) /\ Right = Len(node) + 1
    BY DEF TreeInv, TypeOK, InTree, Right
<1>3. left \in Node /\ right \in Node /\ promoted \in Key /\ P \in Nat
    BY <1>2 DEF Halved, HalvedKeys
<1>4. top \in Node /\ ~ top.leaf /\ top.keys = <<promoted>> /\ top.children = <<cur, Right>>
      /\ top.records = <<>> /\ top.parent = 0
    <2>1. /\ FirstLeaf \in Node /\ FirstLeaf.records = <<>> /\ FirstLeaf.parent = 0
        BY DEF FirstLeaf, Node
    <2>2. <<promoted>> \in Seq(Key) /\ <<cur, Right>> \in Seq(Nat)
        BY <1>1, <1>2, <1>3
    <2> QED
        BY <2>1, <2>2 DEF Node
<1>5. beside \in Node /\ Same(beside, right) /\ beside.parent = P
    BY <1>3 DEF Node, Same
<1>6. first \in Node /\ Same(first, left) /\ first.parent = P
    BY <1>3 DEF Node, Same
<1>7. /\ below \in Seq(Node) /\ Len(below) = Len(node)
      /\ below[cur] = first
      /\ \A x \in InTree \ {cur} : below[x] = node[x]
    BY <1>1, <1>2, <1>6
<1>8. two \in Seq(Node) /\ Len(two) = 2 /\ two[1] = beside /\ two[2] = top
    BY <1>4, <1>5
<1>9. /\ node' = Adopted(made, right.children) /\ root' = P /\ pc' = "idle" /\ cur' = cur
    BY DEF NewRoot
<1> HIDE DEF top, first, below, beside, two
<1>10. /\ made \in Seq(Node) /\ Len(made) = Len(node) + 2
       /\ made[cur] = below[cur] /\ \A x \in InTree \ {cur} : made[x] = node[x]
       /\ made[Right] = beside /\ made[P] = top
    <2>1. /\ made \in Seq(Node) /\ Len(made) = Len(below) + Len(two)
          /\ \A x \in 1 .. Len(below) + Len(two) :
                made[x] = IF x <= Len(below) THEN below[x] ELSE two[x - Len(below)]
        <3>1. below \in Seq(Node) /\ two \in Seq(Node)
            BY <1>7, <1>8
        <3> QED
            BY <3>1, ConcatProperties
    <2> HIDE DEF made
    <2>2. \A x \in InTree : made[x] = below[x]
        BY <1>2, <1>7, <1>8, <2>1
    <2>3. made[Right] = two[1] /\ made[P] = two[2]
        <3>1. /\ Right \in 1 .. Len(below) + Len(two) /\ P \in 1 .. Len(below) + Len(two)
              /\ ~ Right <= Len(below) /\ ~ P <= Len(below)
              /\ Right - Len(below) = 1 /\ P - Len(below) = 2
            BY <1>2, <1>7, <1>8
        <3> QED
            BY <2>1, <3>1
    <2> QED
        BY <1>1, <1>7, <1>8, <2>1, <2>2, <2>3
<1> HIDE DEF made
<1>11. /\ node' \in Seq(Node) /\ Len(node') = Len(node) + 2
       /\ \A x \in 1 .. Len(node) + 2 :
            /\ Same(node'[x], made[x])
            /\ node'[x].parent = IF x \in Moved(right) THEN Right ELSE made[x].parent
    <2>1. made \in Seq(Node) /\ right \in Node /\ Len(made) = Len(node) + 2
        BY <1>3, <1>10
    <2>2. /\ Adopted(made, right.children) \in Seq(Node)
          /\ Len(Adopted(made, right.children)) = Len(made)
          /\ \A x \in 1 .. Len(made) :
                /\ Same(Adopted(made, right.children)[x], made[x])
                /\ Adopted(made, right.children)[x].parent =
                        IF x \in Moved(right) THEN Right ELSE made[x].parent
        BY <2>1, AdoptedIs
    <2> QED
        BY <1>9, <2>1, <2>2
<1>12. 1 .. Len(node') = InTree \cup {Right, P} /\ Right \notin InTree /\ P \notin InTree
    BY <1>2, <1>11
<1>13. Same(node'[cur], left) /\ node'[cur].parent = P
    BY <1>1, <1>2, <1>6, <1>7, <1>10, <1>11 DEF Same
<1>14. Same(node'[Right], right) /\ node'[Right].parent = P
    BY <1>1, <1>2, <1>5, <1>10, <1>11, <1>12 DEF Same
<1>15. \A x \in InTree \ {cur} :
            /\ Same(node'[x], node[x])
            /\ node'[x].parent = IF x \in Moved(right) THEN Right ELSE node[x].parent
    BY <1>1, <1>2, <1>10, <1>11 DEF Same
<1>16. /\ ~ node'[P].leaf /\ node'[P].records = <<>> /\ node'[P].parent = 0
       /\ node'[P].keys = <<promoted>> /\ node'[P].children = <<cur, Right>>
    BY <1>1, <1>2, <1>4, <1>10, <1>11, <1>12 DEF Same
<1>17. Inserted(<<promoted>>, <<>>, 1, promoted) /\ Inserted(<<cur, Right>>, <<cur>>, 2, Right)
    BY DEF Inserted
<1>18. cur = root
    <2>1. node[cur].parent = 0
        BY DEF Halved
    <2> QED
        BY <1>1, <2>1 DEF TreeInv, Linked, InTree
<1>19. <<>> \in Seq(Key) /\ <<cur>> \in Seq(Nat) /\ Len(<<>>) = 0 /\ Len(<<cur>>) = 1
    BY <1>1, <1>2
<1>20. Divided(left, right, promoted, P, <<>>, <<cur>>, 1)
    BY <1>1, <1>2, <1>3, <1>11, <1>12, <1>13, <1>14, <1>15, <1>16, <1>17, <1>19 DEF Divided
<1>21. OnTop(P, <<>>, <<cur>>)
    BY <1>9, <1>12, <1>16, <1>18, <1>19 DEF OnTop
<1> QED
    BY <1>20, <1>21

LEMMA IntoParentIs ==
    ASSUME TreeInv, Paired, pc # "idle", NEW left, NEW right, NEW promoted, NEW s,
           Halved(left, right, promoted, s), left.parent # 0, IntoParent(left, right, promoted)
    PROVE  \E P, K, C, i : Divided(left, right, promoted, P, K, C, i) /\ Beside(P, K, C)
<1> DEFINE P == node[cur].parent
           K == node[P].keys
           C == node[P].children
           above == Above(P, promoted)
           kept == [node EXCEPT ![cur] = left, ![P] = above]
           made == Append(kept, right)
<1>1. /\ cur \in InTree /\ cur \notin Moved(right) /\ P \notin Moved(right) /\ P # cur
      /\ \A x \in Moved(right) : x \in InTree
    BY MovedAre
<1>2. node \in Seq(Node) /\ Len(node) \in Nat /\ InTree = 1 .. Len(node) /\ Right = Len(node) + 1
    BY DEF TreeInv, TypeOK, InTree, Right
<1>3. left \in Node /\ right \in Node /\ promoted \in Key /\ left.parent = P
    BY DEF Halved, HalvedKeys
<1>4. cur # root /\ P \in InTree /\ \E j \in 1 .. Len(C) : C[j] = cur
    BY <1>1, <1>3 DEF TreeInv, Linked
<1>5. /\ node[P] \in Node /\ K \in Seq(Key) /\ C \in Seq(Nat)
      /\ Len(K) \in Nat /\ Len(C) \in Nat
    BY <1>4, NodeFields DEF TreeInv
<1>6. ~ node[P].leaf /\ Len(C) = Len(K) + 1 /\ Len(node[P].records) = 0
    BY <1>4 DEF TreeInv, Shaped, Paired
<1> DEFINE i == StopsAt(C, {j \in DOMAIN C : C[j] = cur})
<1>7. i \in 1 .. Len(C) /\ C[i] = cur
    <2> DEFINE stops == {j \in DOMAIN C : C[j] = cur}
    <2>1. /\ StopsAt(C, stops) \in 1 .. Len(C) + 1
          /\ \A j \in 1 .. StopsAt(C, stops) - 1 : j \notin stops
          /\ StopsAt(C, stops) <= Len(C) => StopsAt(C, stops) \in stops
        <3> HIDE DEF stops
        <3> QED
            BY <1>5, Stops
    <2>2. DOMAIN C = 1 .. Len(C)
        BY <1>5
    <2>3. StopsAt(C, stops) <= Len(C)
        <3>1. PICK j \in 1 .. Len(C) : C[j] = cur
            BY <1>4
        <3>2. j \in stops
            BY <2>2, <3>1
        <3> HIDE DEF stops
        <3> QED
            BY <1>5, <2>1, <3>1, <3>2
    <2> QED
        BY <1>5, <2>1, <2>2, <2>3
<1>8. /\ above = [node[P] EXCEPT !.keys = InsertAt(@, i, promoted),
                                 !.children = InsertAt(@, i + 1, Right)]
    BY DEF Above
<1>9. node' = Adopted(made, right.children) /\ root' = root /\ cur' = P
      /\ pc' = IF Len(kept[P].keys) > Order THEN "splitInternal" ELSE "idle"
    BY <1>3 DEF IntoParent
<1> HIDE DEF i
<1>10. /\ InsertAt(K, i, promoted) \in Seq(Key) /\ Inserted(InsertAt(K, i, promoted), K, i, promoted)
    <2>1. i \in 1 .. Len(K) + 1
        BY <1>6, <1>7
    <2> QED
        BY <1>3, <1>5, <2>1, Insertion
<1>11. InsertAt(C, i + 1, Right) \in Seq(Nat) /\ Inserted(InsertAt(C, i + 1, Right), C, i + 1, Right)
    <2>1. i + 1 \in 1 .. Len(C) + 1 /\ Right \in Nat
        BY <1>2, <1>5, <1>7
    <2> QED
        BY <1>5, <2>1, Insertion
<1>12. /\ above \in Node /\ ~ above.leaf /\ above.parent = node[P].parent
       /\ above.keys = InsertAt(K, i, promoted) /\ above.children = InsertAt(C, i + 1, Right)
       /\ above.records = node[P].records
    BY <1>5, <1>6, <1>8, <1>10, <1>11 DEF Node
<1> HIDE DEF above
<1>13. /\ kept \in Seq(Node) /\ Len(kept) = Len(node)
       /\ kept[cur] = left /\ kept[P] = above
       /\ \A x \in InTree \ {cur, P} : kept[x] = node[x]
    BY <1>1, <1>2, <1>3, <1>4, <1>12
<1> HIDE DEF kept
<1>14. /\ made \in Seq(Node) /\ Len(made) = Len(node) + 1
       /\ \A x \in InTree : made[x] = kept[x]
       /\ made[Right] = right
    BY <1>2, <1>3, <1>13, AppendProperties
<1> HIDE DEF made
<1>15. /\ node' \in Seq(Node) /\ Len(node') = Len(node) + 1
       /\ \A x \in 1 .. Len(node) + 1 :
            /\ Same(node'[x], made[x])
            /\ node'[x].parent = IF x \in Moved(right) THEN Right ELSE made[x].parent
    BY <1>3, <1>9, <1>14, AdoptedIs
<1>16. 1 .. Len(node') = InTree \cup {Right, P} /\ Right \notin InTree /\ Right # P
    BY <1>2, <1>4, <1>15
<1>17. Same(node'[cur], left) /\ node'[cur].parent = P
    BY <1>1, <1>2, <1>3, <1>13, <1>14, <1>15 DEF Same
<1>18. Same(node'[Right], right) /\ node'[Right].parent = P
    <2>1. right.parent = P
        BY DEF Halved
    <2> QED
        BY <1>1, <1>2, <1>14, <1>15, <1>16, <2>1 DEF Same
<1>19. \A x \in InTree \ {cur, P} :
            /\ Same(node'[x], node[x])
            /\ node'[x].parent = IF x \in Moved(right) THEN Right ELSE node[x].parent
    BY <1>2, <1>13, <1>14, <1>15 DEF Same
<1>20. Same(node'[P], above) /\ node'[P].parent = node[P].parent
    BY <1>1, <1>2, <1>4, <1>12, <1>13, <1>14, <1>15
<1>21. P \in Nat \ {0}
    BY <1>2, <1>4
<1>22. Divided(left, right, promoted, P, K, C, i)
    <2>1. /\ ~ node'[P].leaf /\ Len(node'[P].records) = 0
          /\ Inserted(node'[P].keys, K, i, promoted)
          /\ Inserted(node'[P].children, C, i + 1, Right)
        BY <1>6, <1>10, <1>11, <1>12, <1>20 DEF Same
    <2> QED
        BY <1>1, <1>5, <1>6, <1>7, <1>15, <1>16, <1>17, <1>18, <1>19, <1>21, <2>1 DEF Divided
<1>23. Beside(P, K, C)
    <2>1. kept[P].keys = node'[P].keys
        BY <1>13, <1>20 DEF Same
    <2> QED
        BY <1>4, <1>6, <1>9, <1>20, <2>1 DEF Beside
<1> QED
    BY <1>22, <1>23

--------------------------------------------------------------------------------
(* A split keeps the tree a tree *)

\* What the splits of a leaf and of an inner node have in common.  The right half
\* has the keys after the first s; P is the parent, made or found, that had the
\* keys K and the children C and has the left half as its i-th child.
Split(left, right, promoted, s, P, K, C, i) ==
    /\ Halved(left, right, promoted, s)
    /\ Divided(left, right, promoted, P, K, C, i)
    /\ OnTop(P, K, C) \/ Beside(P, K, C)

\* Who is where before the split.
LEMMA Around ==
    ASSUME TreeInv, Paired, pc # "idle", NEW left, NEW right, NEW promoted, NEW s,
           NEW P, NEW K, NEW C, NEW i, Split(left, right, promoted, s, P, K, C, i)
    PROVE  /\ InTree' = InTree \cup {Right, P} /\ Right \notin InTree
           /\ cur \in InTree /\ cur \notin Moved(right) /\ P \notin Moved(right)
           /\ \A x \in Moved(right) : x \in InTree /\ node[x].parent = cur
           /\ \A x \in InTree : node[x].parent # x
           /\ P \in InTree => node[P].parent # cur
           /\ cur # root => node[cur].parent = P /\ P \in InTree
           /\ cur = root => P \notin InTree
           /\ root \in InTree /\ 0 \notin InTree'
<1>1. Halved(left, right, promoted, s) /\ Divided(left, right, promoted, P, K, C, i)
    BY DEF Split
<1>2. /\ \A x \in Moved(right) : x \in InTree /\ node[x].parent = cur
      /\ cur \in InTree /\ cur \notin Moved(right)
    BY <1>1, MovedAre
<1>3. InTree' = InTree \cup {Right, P} /\ Right \notin InTree
    <2>1. 1 .. Len(node') = InTree \cup {Right, P}
        BY <1>1 DEF Divided
    <2>2. Len(node) \in Nat
        BY DEF TreeInv, TypeOK
    <2>3. Right \notin InTree
        BY <2>2 DEF InTree, Right
    <2> QED
        BY <2>1, <2>3 DEF InTree
<1>4. root # 0
    BY DEF TreeInv, Linked
<1>5. PICK rank : RankedBy(rank)
    BY <1>4 DEF TreeInv, Ranked
<1>6. root \in InTree /\ node[root].parent = 0 /\ 0 \notin InTree /\ 0 \notin InTree'
    BY <1>4 DEF TreeInv, TypeOK, Linked, InTree
<1>7. /\ \A x \in InTree \ {root} : rank[node[x].parent] = rank[x] + 1
      /\ \A x \in InTree : rank[x] \in Nat
    BY <1>5 DEF RankedBy
<1>8. \A x \in InTree : node[x].parent # x
    BY <1>6, <1>7
<1>9. cur # root => node[cur].parent = P /\ P \in InTree
    BY DEF Split, OnTop, Beside
<1>10. cur = root => P \notin InTree
    BY DEF Split, OnTop, Beside
<1>11. P \in InTree => node[P].parent # cur
    <2> SUFFICES ASSUME P \in InTree, node[P].parent = cur
                 PROVE  FALSE
        OBVIOUS
    <2>1. cur # root /\ P # root
        BY <1>2, <1>6, <1>10
    <2>2. rank[cur] = rank[P] + 1 /\ rank[P] = rank[cur] + 1
        BY <1>2, <1>7, <1>9, <2>1
    <2> QED
        BY <1>2, <1>7, <2>2
<1>12. P \notin Moved(right)
    BY <1>2, <1>11
<1> QED
    BY <1>2, <1>3, <1>6, <1>8, <1>9, <1>10, <1>11, <1>12

\* The children of each node after the split.
LEMMA ChildrenAfter ==
    ASSUME TreeInv, Paired, pc # "idle", NEW left, NEW right, NEW promoted, NEW s,
           NEW P, NEW K, NEW C, NEW i, Split(left, right, promoted, s, P, K, C, i)
    PROVE  LET c == Len(left.children)
               r == Len(right.children)
               old == node[cur].children
           IN  /\ c \in Nat /\ r \in Nat /\ Len(old) = c + r
               /\ Len(node'[cur].children) = c /\ Len(node'[Right].children) = r
               /\ \A j \in 1 .. c : node'[cur].children[j] = old[j] /\ old[j] \notin Moved(right)
               /\ \A j \in 1 .. r : node'[Right].children[j] = old[c + j]
               /\ \A j \in 1 .. r : old[c + j] \in Moved(right)
               /\ \A x \in Moved(right) : \E j \in 1 .. r : old[c + j] = x
<1> DEFINE c == Len(left.children)
           r == Len(right.children)
           old == node[cur].children
<1>1. c \in Nat /\ r \in Nat
    BY DEF Split, Halved, Node
<1>2. /\ Len(old) = c + r
      /\ \A j \in 1 .. c : left.children[j] = old[j]
      /\ \A j \in 1 .. r : right.children[j] = old[c + j]
    BY DEF Split, Halved, HalvedChildren
<1>3. node'[cur].children = left.children /\ node'[Right].children = right.children
    BY DEF Split, Divided, Same
<1>4. cur \in InTree
    BY Around
<1>5. \A j, e \in 1 .. Len(old) : old[j] = old[e] => j = e
    BY <1>4 DEF TreeInv, Linked
<1>6. Moved(right) = {old[c + j] : j \in 1 .. r}
    BY <1>2 DEF Moved
<1> HIDE DEF c, r, old
<1>7. ASSUME NEW j \in 1 .. c
      PROVE  old[j] \notin Moved(right)
    <2> SUFFICES ASSUME NEW e \in 1 .. r, old[j] = old[c + e]
                 PROVE  FALSE
        BY <1>6
    <2>1. j \in 1 .. Len(old) /\ c + e \in 1 .. Len(old) /\ j # c + e
        BY <1>1, <1>2
    <2> QED
        BY <1>5, <2>1
<1> QED
    BY <1>1, <1>2, <1>3, <1>6, <1>7 DEF c, r, old

LEMMA SplitLinked1 ==
    ASSUME TreeInv, Paired, pc # "idle", NEW left, NEW right, NEW promoted, NEW s,
           NEW P, NEW K, NEW C, NEW i, Split(left, right, promoted, s, P, K, C, i),
           NEW p \in InTree', NEW j \in 1 .. Len(node'[p].children)
    PROVE  node'[p].children[j] \in InTree' /\ node'[node'[p].children[j]].parent = p
<1> DEFINE c == Len(left.children)
           r == Len(right.children)
           old == node[cur].children
           q == node'[p].children[j]
<1>1. /\ InTree' = InTree \cup {Right, P} /\ Right \notin InTree
      /\ cur \in InTree /\ cur \notin Moved(right) /\ P \notin Moved(right)
      /\ \A x \in Moved(right) : x \in InTree /\ node[x].parent = cur
      /\ \A x \in InTree : node[x].parent # x
      /\ P \in InTree => node[P].parent # cur
      /\ cur # root => node[cur].parent = P /\ P \in InTree
      /\ cur = root => P \notin InTree
      /\ root \in InTree /\ 0 \notin InTree'
    BY Around
<1>2. /\ c \in Nat /\ r \in Nat /\ Len(old) = c + r
      /\ Len(node'[cur].children) = c /\ Len(node'[Right].children) = r
      /\ \A e \in 1 .. c : node'[cur].children[e] = old[e] /\ old[e] \notin Moved(right)
      /\ \A e \in 1 .. r : node'[Right].children[e] = old[c + e]
      /\ \A e \in 1 .. r : old[c + e] \in Moved(right)
    BY ChildrenAfter
<1>3. \A x \in InTree : \A e \in 1 .. Len(node[x].children) :
            node[x].children[e] \in InTree /\ node[node[x].children[e]].parent = x
    BY DEF TreeInv, Linked
<1>4. /\ node'[cur].parent = P /\ node'[Right].parent = P /\ P # cur /\ P # Right
      /\ \A x \in InTree \ {cur, P} :
            node'[x].parent = IF x \in Moved(right) THEN Right ELSE node[x].parent
      /\ \A x \in InTree \ {cur, P} : node'[x].children = node[x].children
    BY DEF Split, Divided, Same
<1>5. P \in InTree => node'[P].parent = node[P].parent
    BY DEF Split, OnTop, Beside
<1>6. node[root].parent = 0
    BY <1>1 DEF TreeInv, Linked, InTree
<1>6a. cur \in InTree /\ \A e \in 1 .. Len(old) : old[e] \in InTree /\ node[old[e]].parent = cur
    BY <1>1, <1>3
<1> HIDE DEF q, c, r, old
<1>7. CASE p = cur
    <2>1. j \in 1 .. c
        BY <1>2, <1>7
    <2>2. q = old[j] /\ q \notin Moved(right)
        BY <1>2, <1>7, <2>1 DEF q
    <2>3. j \in 1 .. Len(old)
        BY <1>2, <2>1
    <2>4. q \in InTree /\ node[q].parent = cur
        BY <1>6a, <2>2, <2>3
    <2> QED
        BY <1>1, <1>4, <1>7, <2>2, <2>4 DEF q
<1>8. CASE p = Right
    <2>1. q \in Moved(right)
        BY <1>2, <1>8 DEF q
    <2> QED
        BY <1>1, <1>4, <1>8, <2>1 DEF q
<1>9. CASE p = P
    <2>1. q = Right \/ \E e \in 1 .. Len(C) : q = C[e]
        <3>1. /\ C \in Seq(Nat) /\ i \in 1 .. Len(C)
              /\ Inserted(node'[P].children, C, i + 1, Right)
            BY DEF Split, Divided
        <3>2. j \in 1 .. Len(C) + 1 /\ q = IF j < i + 1 THEN C[j] ELSE IF j = i + 1 THEN Right ELSE C[j - 1]
            BY <1>9, <3>1 DEF Inserted, q
        <3>3. Len(C) \in Nat
            BY <3>1
        <3>4. (j < i + 1 => j \in 1 .. Len(C)) /\ (j > i + 1 => j - 1 \in 1 .. Len(C))
            BY <3>1, <3>2, <3>3
        <3> QED
            BY <3>1, <3>2, <3>3, <3>4
    <2>2. q = Right \/ q = cur \/ (q \in InTree /\ node[q].parent = P /\ P \in InTree)
        <3>1. CASE OnTop(P, K, C)
            <4>1. Len(C) = 1 /\ i \in 1 .. Len(C) /\ C[i] = cur
                BY <3>1 DEF Split, Divided, OnTop
            <4> QED
                BY <2>1, <4>1
        <3>2. CASE Beside(P, K, C)
            BY <1>3, <2>1, <3>2 DEF Beside
        <3> QED
            BY <3>1, <3>2 DEF Split
    <2> QED
        BY <1>1, <1>4, <1>9, <2>2 DEF q
<1>10. CASE p \in InTree \ {cur, P}
    <2>1. q \in InTree /\ node[q].parent = p
        BY <1>3, <1>4, <1>10 DEF q
    <2>2. q # cur
        BY <1>1, <1>6, <1>10, <2>1
    <2> QED
        BY <1>1, <1>4, <1>5, <1>10, <2>1, <2>2 DEF q
<1> QED
    BY <1>1, <1>7, <1>8, <1>9, <1>10

LEMMA SplitLinked2 ==
    ASSUME TreeInv, Paired, pc # "idle", NEW left, NEW right, NEW promoted, NEW s,
           NEW P, NEW K, NEW C, NEW i, Split(left, right, promoted, s, P, K, C, i),
           NEW n \in InTree' \ {root'}
    PROVE  /\ node'[n].parent \in InTree'
           /\ \E j \in 1 .. Len(node'[node'[n].parent].children) :
                    node'[node'[n].parent].children[j] = n
<1> DEFINE c == Len(left.children)
           r == Len(right.children)
           old == node[cur].children
<1>1. /\ InTree' = InTree \cup {Right, P} /\ Right \notin InTree
      /\ cur \in InTree /\ cur \notin Moved(right) /\ P \notin Moved(right)
      /\ \A x \in Moved(right) : x \in InTree /\ node[x].parent = cur
      /\ \A x \in InTree : node[x].parent # x
      /\ P \in InTree => node[P].parent # cur
      /\ cur # root => node[cur].parent = P /\ P \in InTree
      /\ cur = root => P \notin InTree
      /\ root \in InTree /\ 0 \notin InTree'
    BY Around
<1>2. /\ c \in Nat /\ r \in Nat /\ Len(old) = c + r
      /\ Len(node'[cur].children) = c /\ Len(node'[Right].children) = r
      /\ \A e \in 1 .. c : node'[cur].children[e] = old[e] /\ old[e] \notin Moved(right)
      /\ \A e \in 1 .. r : node'[Right].children[e] = old[c + e]
      /\ \A e \in 1 .. r : old[c + e] \in Moved(right)
      /\ \A x \in Moved(right) : \E e \in 1 .. r : old[c + e] = x
    BY ChildrenAfter
<1>3. \A x \in InTree \ {root} :
        /\ node[x].parent \in InTree
        /\ \E e \in 1 .. Len(node[node[x].parent].children) : node[node[x].parent].children[e] = x
    BY DEF TreeInv, Linked
<1>4. /\ node'[cur].parent = P /\ node'[Right].parent = P /\ P # cur /\ P # Right
      /\ \A x \in InTree \ {cur, P} :
            node'[x].parent = IF x \in Moved(right) THEN Right ELSE node[x].parent
      /\ \A x \in InTree \ {cur, P} : node'[x].children = node[x].children
    BY DEF Split, Divided, Same
<1>5. /\ P \in InTree => node'[P].parent = node[P].parent /\ C = node[P].children /\ root' = root
      /\ P \notin InTree => root' = P /\ cur = root
    BY DEF Split, OnTop, Beside
<1>6. /\ C \in Seq(Nat) /\ Len(C) \in Nat /\ i \in 1 .. Len(C) /\ C[i] = cur
      /\ Len(node'[P].children) = Len(C) + 1
      /\ \A j \in 1 .. Len(C) + 1 :
            node'[P].children[j] = IF j < i + 1 THEN C[j] ELSE IF j = i + 1 THEN Right ELSE C[j - 1]
    BY DEF Split, Divided, Inserted
<1>6a. /\ \A j \in 1 .. i : j \in 1 .. Len(C) + 1 /\ node'[P].children[j] = C[j]
       /\ i + 1 \in 1 .. Len(C) + 1 /\ node'[P].children[i + 1] = Right
       /\ \A j \in i + 1 .. Len(C) : j + 1 \in 1 .. Len(C) + 1 /\ node'[P].children[j + 1] = C[j]
    <2>1. \A j \in 1 .. i : j \in 1 .. Len(C) + 1 /\ j < i + 1
        BY <1>6
    <2>2. i + 1 \in 1 .. Len(C) + 1 /\ ~ i + 1 < i + 1
        BY <1>6
    <2>3. \A j \in i + 1 .. Len(C) :
            j + 1 \in 1 .. Len(C) + 1 /\ ~ j + 1 < i + 1 /\ j + 1 # i + 1 /\ (j + 1) - 1 = j
        BY <1>6
    <2>4. ASSUME NEW j \in i + 1 .. Len(C)
          PROVE  node'[P].children[j + 1] = C[j]
        <3> DEFINE u == j + 1
        <3>1. u \in 1 .. Len(C) + 1 /\ ~ u < i + 1 /\ u # i + 1 /\ u - 1 = j
            BY <2>3
        <3> HIDE DEF u
        <3>2. node'[P].children[u] = C[u - 1]
            BY <1>6, <3>1
        <3> QED
            BY <3>1, <3>2 DEF u
    <2>5. node'[P].children[i + 1] = Right
        <3> DEFINE u == i + 1
        <3>1. u \in 1 .. Len(C) + 1 /\ ~ u < i + 1 /\ u = i + 1
            BY <2>2
        <3> HIDE DEF u
        <3>2. node'[P].children[u] = Right
            BY <1>6, <3>1
        <3> QED
            BY <3>1, <3>2
    <2> QED
        BY <1>6, <2>1, <2>2, <2>3, <2>4, <2>5
<1> HIDE DEF c, r, old
<1>7. \A e \in 1 .. Len(C) : \E j \in 1 .. Len(node'[P].children) : node'[P].children[j] = C[e]
    <2> TAKE e \in 1 .. Len(C)
    <2>1. e \in 1 .. i \/ e \in i + 1 .. Len(C)
        BY <1>6
    <2> QED
        BY <1>6, <1>6a, <2>1
<1>8. CASE n = cur
    <2>1. P \in InTree' /\ node'[n].parent = P
        BY <1>1, <1>4, <1>8
    <2>2. \E j \in 1 .. Len(node'[P].children) : node'[P].children[j] = n
        BY <1>6, <1>7, <1>8
    <2> QED
        BY <2>1, <2>2
<1>9. CASE n = Right
    <2>1. i + 1 \in 1 .. Len(node'[P].children) /\ node'[P].children[i + 1] = Right
        BY <1>6, <1>6a
    <2>2. P \in InTree' /\ node'[n].parent = P
        BY <1>1, <1>4, <1>9
    <2> QED
        BY <1>9, <2>1, <2>2
<1>10. CASE n = P
    <2>1. P \in InTree /\ P # root
        BY <1>5, <1>10
    <2>2. node[P].parent \in InTree \ {cur, P}
        BY <1>1, <1>3, <2>1
    <2> QED
        BY <1>1, <1>3, <1>4, <1>5, <1>10, <2>1, <2>2
<1>11. CASE n \in Moved(right)
    <2>1. node'[n].parent = Right
        BY <1>1, <1>4, <1>11
    <2>2. \E e \in 1 .. r : node'[Right].children[e] = n
        <3>1. PICK e \in 1 .. r : old[c + e] = n
            BY <1>2, <1>11
        <3>2. node'[Right].children[e] = old[c + e]
            BY <1>2
        <3> QED
            BY <3>1, <3>2
    <2> QED
        BY <1>1, <1>2, <2>1, <2>2
<1>12. CASE n \in InTree \ ({cur, P} \cup Moved(right))
    <2> DEFINE p == node[n].parent
    <2>1. n # root
        BY <1>1, <1>5, <1>12
    <2>2. p \in InTree /\ \E e \in 1 .. Len(node[p].children) : node[p].children[e] = n
        BY <1>3, <1>12, <2>1
    <2>3. node'[n].parent = p
        BY <1>4, <1>12
    <2> HIDE DEF p
    <2>4. CASE p = cur
        <3>1. PICK e \in 1 .. c + r : old[e] = n
            <4>1. \E e \in 1 .. Len(old) : old[e] = n
                BY <2>2, <2>4 DEF old
            <4> QED
                BY <1>2, <4>1
        <3>2. e \in 1 .. c
            <4>1. CASE e > c
                <5> DEFINE f == e - c
                <5>1. f \in 1 .. r /\ c + f = e
                    <6>1. c \in Nat /\ r \in Nat
                        BY <1>2
                    <6> QED
                        BY <4>1, <6>1
                <5> HIDE DEF f
                <5>2. old[c + f] \in Moved(right)
                    BY <1>2, <5>1
                <5> QED
                    BY <1>12, <3>1, <5>1, <5>2
            <4>2. c \in Nat /\ r \in Nat
                BY <1>2
            <4> QED
                BY <4>1, <4>2
        <3>3. node'[cur].children[e] = n /\ e \in 1 .. Len(node'[cur].children)
            BY <1>2, <3>1, <3>2
        <3> QED
            BY <1>1, <2>3, <2>4, <3>3
    <2>5. CASE p = P
        <3>1. P \in InTree /\ P \in InTree'
            BY <1>1, <2>2, <2>5
        <3>2. \E e \in 1 .. Len(node[P].children) : node[P].children[e] = n
            BY <2>2, <2>5
        <3>3. \E e \in 1 .. Len(node'[P].children) : node'[P].children[e] = n
            BY <1>5, <1>7, <3>1, <3>2
        <3> QED
            BY <2>3, <2>5, <3>1, <3>3
    <2>6. CASE p \notin {cur, P}
        BY <1>1, <1>4, <2>2, <2>3, <2>6
    <2> QED
        BY <2>4, <2>5, <2>6
<1> QED
    BY <1>1, <1>8, <1>9, <1>10, <1>11, <1>12

LEMMA SplitLinked3 ==
    ASSUME TreeInv, Paired, pc # "idle", NEW left, NEW right, NEW promoted, NEW s,
           NEW P, NEW K, NEW C, NEW i, Split(left, right, promoted, s, P, K, C, i),
           NEW p \in InTree'
    PROVE  Distinct(node'[p].children)
<1> DEFINE c == Len(left.children)
           r == Len(right.children)
           old == node[cur].children
<1>1. /\ InTree' = InTree \cup {Right, P} /\ Right \notin InTree
      /\ cur \in InTree /\ cur # Right
    BY Around
<1>2. /\ c \in Nat /\ r \in Nat /\ Len(old) = c + r
      /\ Len(node'[cur].children) = c /\ Len(node'[Right].children) = r
      /\ \A e \in 1 .. c : node'[cur].children[e] = old[e]
      /\ \A e \in 1 .. r : node'[Right].children[e] = old[c + e]
    BY ChildrenAfter
<1>3. \A x \in InTree : Distinct(node[x].children)
    BY DEF TreeInv, Linked, Distinct
<1>4. \A e, f \in 1 .. Len(old) : old[e] = old[f] => e = f
    BY <1>1, <1>3 DEF Distinct
<1> HIDE DEF c, r, old
<1>5. CASE p = cur
    <2> SUFFICES ASSUME NEW e \in 1 .. c, NEW f \in 1 .. c, old[e] = old[f]
                 PROVE  e = f
        BY <1>2, <1>5 DEF Distinct
    <2>1. e \in 1 .. Len(old) /\ f \in 1 .. Len(old)
        BY <1>2
    <2> QED
        BY <1>4, <2>1
<1>6. CASE p = Right
    <2> SUFFICES ASSUME NEW e \in 1 .. r, NEW f \in 1 .. r, old[c + e] = old[c + f]
                 PROVE  e = f
        <3>1. /\ Len(node'[p].children) = r
              /\ \A e \in 1 .. r : node'[p].children[e] = old[c + e]
            BY <1>2, <1>6
        <3> QED
            BY <3>1 DEF Distinct
    <2>1. c + e \in 1 .. Len(old) /\ c + f \in 1 .. Len(old)
        BY <1>2
    <2>2. c + e = c + f
        BY <1>4, <2>1
    <2> QED
        BY <1>2, <2>2
<1>7. CASE p = P
    <2>1. /\ C \in Seq(Nat) /\ Len(C) \in Nat /\ i \in 1 .. Len(C) /\ C[i] = cur
          /\ Inserted(node'[P].children, C, i + 1, Right)
        BY DEF Split, Divided
    <2>2. i + 1 \in 1 .. Len(C) + 1
        BY <2>1
    <2>3. Distinct(C) /\ \A j \in 1 .. Len(C) : C[j] # Right
        <3>1. CASE OnTop(P, K, C)
            <4>1. Len(C) = 1
                BY <3>1 DEF OnTop
            <4>2. \A j \in 1 .. Len(C) : j = i
                BY <2>1, <4>1
            <4> QED
                BY <1>1, <2>1, <4>2 DEF Distinct
        <3>2. CASE Beside(P, K, C)
            <4>1. P \in InTree /\ C = node[P].children
                BY <3>2 DEF Beside
            <4>2. \A j \in 1 .. Len(C) : C[j] \in InTree
                BY <4>1 DEF TreeInv, Linked
            <4> QED
                BY <1>1, <1>3, <4>1, <4>2
        <3> QED
            BY <3>1, <3>2 DEF Split
    <2> QED
        BY <1>7, <2>1, <2>2, <2>3, InsertedDistinct
<1>8. CASE p \in InTree \ {cur, P}
    <2>1. node'[p].children = node[p].children
        BY <1>8 DEF Split, Divided, Same
    <2> QED
        BY <1>3, <1>8, <2>1
<1> QED
    BY <1>1, <1>5, <1>6, <1>7, <1>8

LEMMA SplitLinked ==
    ASSUME TreeInv, Paired, pc # "idle", NEW left, NEW right, NEW promoted, NEW s,
           NEW P, NEW K, NEW C, NEW i, Split(left, right, promoted, s, P, K, C, i)
    PROVE  Linked' /\ root' # 0 /\ root' \in InTree'
<1>1. /\ InTree' = InTree \cup {Right, P}
      /\ \A x \in Moved(right) : node[x].parent = cur
      /\ cur = root => P \notin InTree
      /\ cur \in InTree
      /\ root \in InTree /\ 0 \notin InTree'
    BY Around
<1>2. root' # 0 /\ root' \in InTree' /\ node'[root'].parent = 0
    <2>1. CASE OnTop(P, K, C)
        BY <1>1, <2>1 DEF OnTop
    <2>2. CASE Beside(P, K, C)
        <3>1. root' = root /\ root # cur /\ root # 0
            BY <1>1, <2>2 DEF Beside
        <3>2. node[root].parent = 0 /\ cur # 0
            BY <1>1, <3>1 DEF TreeInv, Linked
        <3>3. root \notin Moved(right)
            BY <1>1, <3>2
        <3>4. CASE root = P
            BY <1>1, <2>2, <3>1, <3>2, <3>4 DEF Beside
        <3>5. CASE root # P
            BY <1>1, <3>1, <3>2, <3>3, <3>5 DEF Split, Divided
        <3> QED
            BY <1>1, <3>1, <3>4, <3>5
    <2> QED
        BY <2>1, <2>2 DEF Split
<1>3. \A p \in InTree' : \A j \in 1 .. Len(node'[p].children) :
            node'[p].children[j] \in InTree' /\ node'[node'[p].children[j]].parent = p
    BY SplitLinked1
<1>4. \A n \in InTree' \ {root'} :
        /\ node'[n].parent \in InTree'
        /\ \E j \in 1 .. Len(node'[node'[n].parent].children) :
                    node'[node'[n].parent].children[j] = n
    BY SplitLinked2
<1>5. \A p \in InTree' : \A j, h \in 1 .. Len(node'[p].children) :
            node'[p].children[j] = node'[p].children[h] => j = h
    BY SplitLinked3 DEF Distinct
<1> QED
    BY <1>2, <1>3, <1>4, <1>5 DEF Linked

LEMMA SplitShaped ==
    ASSUME TreeInv, Paired, pc # "idle", NEW left, NEW right, NEW promoted, NEW s,
           NEW P, NEW K, NEW C, NEW i, Split(left, right, promoted, s, P, K, C, i)
    PROVE  Shaped'
<1>1. InTree' = InTree \cup {Right, P}
    BY Around
<1> SUFFICES ASSUME NEW n \in InTree'
             PROVE  Len(node'[n].children) = IF node'[n].leaf THEN 0 ELSE Len(node'[n].keys) + 1
    BY DEF Shaped
<1>2. CASE n = cur
    BY <1>2 DEF Split, Divided, Same, Halved, HalvedChildren
<1>3. CASE n = Right
    BY <1>3 DEF Split, Divided, Same, Halved, HalvedChildren
<1>4. CASE n = P
    <2>1. /\ ~ node'[P].leaf /\ Len(C) = Len(K) + 1
          /\ Len(node'[P].keys) = Len(K) + 1 /\ Len(node'[P].children) = Len(C) + 1
        BY DEF Split, Divided, Inserted
    <2> QED
        BY <1>4, <2>1
<1>5. CASE n \in InTree \ {cur, P}
    <2>1. Same(node'[n], node[n])
        BY <1>5 DEF Split, Divided
    <2> QED
        BY <1>5, <2>1 DEF Same, TreeInv, Shaped
<1> QED
    BY <1>1, <1>2, <1>3, <1>4, <1>5

LEMMA SplitSized ==
    ASSUME TreeInv, Paired, pc # "idle", NEW left, NEW right, NEW promoted, NEW s,
           NEW P, NEW K, NEW C, NEW i, Split(left, right, promoted, s, P, K, C, i)
    PROVE  Sized'
<1>0. Order \in Nat /\ Order >= 2
    BY BPlusTreeAssumption DEF BPlusTreeAssumption
<1>1. InTree' = InTree \cup {Right, P} /\ cur \in InTree
    BY Around
<1>2. /\ Len(node'[P].keys) = Len(K) + 1 /\ Len(K) \in Nat /\ P # cur
      /\ ~ node'[P].leaf
    BY DEF Split, Divided, Inserted
<1>3. /\ Len(node'[cur].keys) \in Order \div 2 .. Order
      /\ Len(node'[Right].keys) \in Order \div 2 .. Order
    BY DEF Split, Divided, Same, Halved, HalvedKeys
<1>4. \A n \in InTree \ {cur, P} : Len(node'[n].keys) = Len(node[n].keys)
    BY DEF Split, Divided, Same
<1>5. \A n \in InTree \ {cur} :
        /\ Len(node[n].keys) <= Order
        /\ n # root => Len(node[n].keys) >= Order \div 2
    <2> TAKE n \in InTree \ {cur}
    <2>1. ~ Len(node[n].keys) > Order
        BY DEF TreeInv, Sized
    <2>2. Len(node[n].keys) \in Nat
        BY NodeFields DEF TreeInv
    <2>3. n # root => Len(node[n].keys) >= Order \div 2
        BY DEF TreeInv, Sized
    <2> QED
        BY <1>0, <2>1, <2>2, <2>3
<1>6. /\ Len(node'[P].keys) <= Order + 1
      /\ Len(node'[P].keys) > Order => pc' # "idle" /\ cur' = P
      /\ P # root' => Len(node'[P].keys) >= Order \div 2
      /\ \A n \in InTree : n # root' => n # root \/ n = cur
      /\ pc' # "idle" => pc' = "splitInternal" /\ cur' = P /\ Len(node'[P].keys) > Order
    <2>1. CASE OnTop(P, K, C)
        <3>1. Len(K) = 0 /\ root' = P /\ pc' = "idle" /\ cur = root
            BY <2>1 DEF OnTop
        <3>2. Len(node'[P].keys) <= Order + 1 /\ ~ Len(node'[P].keys) > Order
            BY <1>0, <1>2, <3>1
        <3> QED
            BY <3>1, <3>2
    <2>2. CASE Beside(P, K, C)
        <3>1. /\ K = node[P].keys /\ P \in InTree /\ root' = root /\ cur' = P
              /\ pc' = IF Len(node'[P].keys) > Order THEN "splitInternal" ELSE "idle"
            BY <2>2 DEF Beside
        <3>2. Len(K) <= Order /\ (P # root => Len(K) >= Order \div 2)
            BY <1>2, <1>5, <3>1
        <3>3. Len(node'[P].keys) <= Order + 1 /\ (P # root => Len(node'[P].keys) >= Order \div 2)
            BY <1>0, <1>2, <3>2
        <3> QED
            BY <3>1, <3>3
    <2> QED
        BY <2>1, <2>2 DEF Split
<1>7. ASSUME NEW n \in InTree'
      PROVE  /\ Len(node'[n].keys) = Order + 1 \/ Len(node'[n].keys) <= Order
             /\ Len(node'[n].keys) > Order => pc' # "idle" /\ n = cur'
             /\ n # root' => Len(node'[n].keys) >= Order \div 2
    <2>1. CASE n \in {cur, Right}
        BY <1>0, <1>3, <2>1
    <2>2. CASE n = P
        <3>1. Len(node'[P].keys) \in Nat
            BY <1>2
        <3>2. Len(node'[P].keys) = Order + 1 \/ Len(node'[P].keys) <= Order
            BY <1>0, <1>6, <3>1
        <3> QED
            BY <1>6, <2>2, <3>2
    <2>3. CASE n \in InTree \ {cur, P}
        <3>1. Len(node[n].keys) <= Order /\ (n # root => Len(node[n].keys) >= Order \div 2)
            BY <1>5, <2>3
        <3>2. Len(node[n].keys) \in Nat
            BY <2>3, NodeFields DEF TreeInv
        <3>3. ~ Len(node[n].keys) > Order
            BY <1>0, <3>1, <3>2
        <3>4. n # root' => n # root
            BY <1>6, <2>3
        <3> QED
            BY <1>4, <2>3, <3>1, <3>3, <3>4
    <2> QED
        BY <1>1, <2>1, <2>2, <2>3
<1>8. P \in InTree'
    BY <1>1
<1> QED
    BY <1>2, <1>6, <1>7, <1>8 DEF Sized

LEMMA SplitRanked ==
    ASSUME TreeInv, Paired, pc # "idle", NEW left, NEW right, NEW promoted, NEW s,
           NEW P, NEW K, NEW C, NEW i, Split(left, right, promoted, s, P, K, C, i)
    PROVE  Ranked'
<1>1. /\ InTree' = InTree \cup {Right, P} /\ Right \notin InTree
      /\ cur \in InTree /\ cur \notin Moved(right) /\ P \notin Moved(right)
      /\ \A x \in Moved(right) : x \in InTree /\ node[x].parent = cur
      /\ cur # root => node[cur].parent = P /\ P \in InTree
      /\ cur = root => P \notin InTree
      /\ root \in InTree /\ 0 \notin InTree'
    BY Around
<1>2. root # 0
    BY <1>1
<1>3. PICK rank : RankedBy(rank)
    BY <1>2 DEF TreeInv, Ranked
<1>4. /\ \A n \in InTree : rank[n] \in Nat
      /\ \A n \in InTree : rank[n] <= rank[root] /\ (node[n].leaf <=> rank[n] = 0)
      /\ \A n \in InTree \ {root} : rank[node[n].parent] = rank[n] + 1
    BY <1>3 DEF RankedBy
<1>5. \A n \in InTree \ {root} : node[n].parent \in InTree
    BY DEF TreeInv, Linked
<1>6. node[root].parent = 0 /\ cur # 0
    BY <1>1, <1>2 DEF TreeInv, Linked
<1> DEFINE f == [n \in InTree' |->
                    IF n \in InTree THEN rank[n] ELSE IF n = Right THEN rank[cur] ELSE rank[cur] + 1]
<1>7. /\ f \in [InTree' -> Nat]
      /\ \A n \in InTree : f[n] = rank[n]
      /\ f[Right] = rank[cur]
      /\ P \notin InTree => f[P] = rank[cur] + 1
    <2>1. P # Right
        BY DEF Split, Divided
    <2> QED
        BY <1>1, <1>4, <2>1
<1> HIDE DEF f
<1>8. /\ node'[cur].leaf = node[cur].leaf /\ node'[Right].leaf = node[cur].leaf
      /\ ~ node'[P].leaf /\ node'[cur].parent = P /\ node'[Right].parent = P
      /\ \A x \in InTree \ {cur, P} : node'[x].leaf = node[x].leaf
      /\ \A x \in InTree \ {cur, P} :
            node'[x].parent = IF x \in Moved(right) THEN Right ELSE node[x].parent
    BY DEF Split, Halved, Divided, Same
<1>9. P \in InTree => ~ node[P].leaf /\ root' = root /\ node'[P].parent = node[P].parent
    BY DEF Split, OnTop, Beside
<1>10. P \notin InTree => root' = P /\ cur = root
    BY DEF Split, OnTop, Beside
<1>11. ASSUME NEW n \in InTree'
       PROVE  f[n] <= f[root'] /\ (node'[n].leaf <=> f[n] = 0)
    <2>1. node'[n].leaf <=> f[n] = 0
        <3>1. CASE n = cur \/ n = Right
            BY <1>1, <1>4, <1>7, <1>8, <3>1
        <3>2. CASE n = P
            <4>1. CASE P \in InTree
                BY <1>4, <1>7, <1>8, <1>9, <3>2, <4>1
            <4>2. CASE P \notin InTree
                BY <1>1, <1>4, <1>7, <1>8, <3>2, <4>2
            <4> QED
                BY <4>1, <4>2
        <3>3. CASE n \in InTree \ {cur, P}
            BY <1>4, <1>7, <1>8, <3>3
        <3> QED
            BY <1>1, <3>1, <3>2, <3>3
    <2>2. f[n] <= f[root']
        <3>1. CASE P \in InTree
            BY <1>1, <1>4, <1>7, <1>9, <3>1
        <3>2. CASE P \notin InTree
            <4>1. f[root'] = rank[root] + 1 /\ rank[root] \in Nat
                BY <1>1, <1>4, <1>7, <1>10, <3>2
            <4>2. n \in InTree \/ n = Right => f[n] <= rank[root] /\ f[n] \in Nat
                BY <1>1, <1>4, <1>7
            <4> QED
                BY <1>1, <1>10, <3>2, <4>1, <4>2
        <3> QED
            BY <3>1, <3>2
    <2> QED
        BY <2>1, <2>2
<1>12. ASSUME NEW n \in InTree' \ {root'}
       PROVE  f[node'[n].parent] = f[n] + 1
    <2>1. CASE n = cur \/ n = Right
        <3>1. f[P] = rank[cur] + 1
            BY <1>1, <1>4, <1>7, <1>10
        <3> QED
            BY <1>1, <1>7, <1>8, <2>1, <3>1
    <2>2. CASE n = P
        <3>1. P \in InTree \ {root}
            BY <1>9, <1>10, <2>2
        <3> QED
            BY <1>4, <1>5, <1>7, <1>9, <2>2, <3>1
    <2>3. CASE n \in InTree \ {cur, P}
        <3>1. n # root
            BY <1>9, <1>10, <2>3
        <3>2. CASE n \in Moved(right)
            <4>1. rank[cur] = rank[n] + 1
                BY <1>1, <1>4, <2>3, <3>1, <3>2
            <4> QED
                BY <1>7, <1>8, <2>3, <3>2, <4>1
        <3>3. CASE n \notin Moved(right)
            BY <1>4, <1>5, <1>7, <1>8, <2>3, <3>1, <3>3
        <3> QED
            BY <3>2, <3>3
    <2> QED
        BY <1>1, <2>1, <2>2, <2>3
<1>13. \E g : /\ g \in [InTree' -> Nat]
              /\ \A n \in InTree' : g[n] <= g[root'] /\ (node'[n].leaf <=> g[n] = 0)
              /\ \A n \in InTree' \ {root'} : g[node'[n].parent] = g[n] + 1
    BY <1>7, <1>11, <1>12
<1> QED
    BY <1>13 DEF Ranked, RankedBy

--------------------------------------------------------------------------------
(* A split keeps every row *)

\* Where the records are after the split.
RecordsSplit(left, right, P) ==
    LET r == Len(left.records)
        t == Len(right.records)
        old == node[cur].records
    IN  /\ r \in Nat /\ t \in Nat /\ Len(old) = r + t
        /\ Len(node'[cur].records) = r /\ Len(node'[Right].records) = t
        /\ \A j \in 1 .. r : node'[cur].records[j] = old[j]
        /\ \A j \in 1 .. t : node'[Right].records[j] = old[r + j]
        /\ Len(node'[P].records) = 0
        /\ P \in InTree => Len(node[P].records) = 0
        /\ \A x \in InTree \ {cur, P} : node'[x].records = node[x].records

LEMMA RecordsAfter ==
    ASSUME TreeInv, Paired, pc # "idle", NEW left, NEW right, NEW promoted, NEW s,
           NEW P, NEW K, NEW C, NEW i, Split(left, right, promoted, s, P, K, C, i)
    PROVE  RecordsSplit(left, right, P)
<1>1. Len(left.records) \in Nat /\ Len(right.records) \in Nat
    BY DEF Split, Halved, Node
<1>2. P \in InTree => Len(node[P].records) = 0
    <2>1. P \in InTree => ~ node[P].leaf
        BY DEF Split, OnTop, Beside
    <2> QED
        BY <2>1 DEF Paired
<1>3. node'[cur].records = left.records /\ node'[Right].records = right.records
    BY DEF Split, Divided, Same
<1>4. /\ Len(node[cur].records) = Len(left.records) + Len(right.records)
      /\ \A j \in 1 .. Len(left.records) : left.records[j] = node[cur].records[j]
      /\ \A j \in 1 .. Len(right.records) :
            right.records[j] = node[cur].records[Len(left.records) + j]
    BY DEF Split, Halved, HalvedRecords
<1>5. /\ Len(node'[P].records) = 0
      /\ \A x \in InTree \ {cur, P} : node'[x].records = node[x].records
    BY DEF Split, Divided, Same
<1> QED
    BY <1>1, <1>2, <1>3, <1>4, <1>5 DEF RecordsSplit

\* Record j of n is record h of m.
CameFrom(left, n, j, m, h) ==
    /\ m \in InTree /\ h \in 1 .. Len(node[m].records)
    /\ node'[n].records[j] = node[m].records[h]
    /\ IF n = Right
       THEN m = cur /\ h = Len(left.records) + j
       ELSE m = n /\ h = j /\ (n = cur => j <= Len(left.records))

LEMMA AllCameFrom ==
    ASSUME TreeInv, Paired, pc # "idle", NEW left, NEW right, NEW promoted, NEW s,
           NEW P, NEW K, NEW C, NEW i, Split(left, right, promoted, s, P, K, C, i),
           NEW n \in InTree', NEW j \in 1 .. Len(node'[n].records)
    PROVE  \E m, h : CameFrom(left, n, j, m, h)
<1> DEFINE r == Len(left.records)
           t == Len(right.records)
           old == node[cur].records
<1>1. /\ r \in Nat /\ t \in Nat /\ Len(old) = r + t
      /\ Len(node'[cur].records) = r /\ Len(node'[Right].records) = t
      /\ \A e \in 1 .. r : node'[cur].records[e] = old[e]
      /\ \A e \in 1 .. t : node'[Right].records[e] = old[r + e]
      /\ Len(node'[P].records) = 0
      /\ \A x \in InTree \ {cur, P} : node'[x].records = node[x].records
    <2>1. RecordsSplit(left, right, P)
        BY RecordsAfter
    <2> QED
        BY <2>1 DEF RecordsSplit
<1>2. /\ InTree' = InTree \cup {Right, P} /\ Right \notin InTree
      /\ cur \in InTree /\ cur # Right
    BY Around
<1> HIDE DEF r, t, old
<1>3. CASE n = cur
    <2>1. j \in 1 .. r /\ j <= r
        BY <1>1, <1>3
    <2>2. j \in 1 .. Len(old) /\ node'[cur].records[j] = old[j]
        BY <1>1, <2>1
    <2> QED
        BY <1>2, <1>3, <2>1, <2>2 DEF CameFrom, old, r
<1>4. CASE n = Right
    <2>1. j \in 1 .. t
        BY <1>1, <1>4
    <2>2. r + j \in 1 .. Len(old) /\ node'[Right].records[j] = old[r + j]
        BY <1>1, <2>1
    <2> QED
        BY <1>2, <1>4, <2>1, <2>2 DEF CameFrom, old, r
<1>5. CASE n = P
    BY <1>1, <1>5
<1>6. CASE n \in InTree \ {cur, P}
    BY <1>1, <1>2, <1>6 DEF CameFrom
<1> QED
    BY <1>2, <1>3, <1>4, <1>5, <1>6

LEMMA SplitOnce ==
    ASSUME TreeInv, Paired, Once, pc # "idle", count' = count,
           NEW left, NEW right, NEW promoted, NEW s,
           NEW P, NEW K, NEW C, NEW i, Split(left, right, promoted, s, P, K, C, i)
    PROVE  Once'
<1> DEFINE r == Len(left.records)
           t == Len(right.records)
           old == node[cur].records
<1>1. /\ r \in Nat /\ t \in Nat /\ Len(old) = r + t
      /\ Len(node'[cur].records) = r /\ Len(node'[Right].records) = t
      /\ \A e \in 1 .. r : node'[cur].records[e] = old[e]
      /\ \A e \in 1 .. t : node'[Right].records[e] = old[r + e]
      /\ P \in InTree => Len(node[P].records) = 0
      /\ \A x \in InTree \ {cur, P} : node'[x].records = node[x].records
    <2>1. RecordsSplit(left, right, P)
        BY RecordsAfter
    <2> QED
        BY <2>1 DEF RecordsSplit
<1>2. /\ InTree' = InTree \cup {Right, P} /\ Right \notin InTree
      /\ cur \in InTree /\ cur # Right
    BY Around
<1> HIDE DEF old, t
<1>3. ASSUME NEW k \in Key, NEW e \in 1 .. count[k]
      PROVE  \E n \in InTree' : \E j \in 1 .. Len(node'[n].records) :
                node'[n].records[j] = [key |-> k, nth |-> e]
    <2>1. PICK n \in InTree : \E j \in 1 .. Len(node[n].records) :
                node[n].records[j] = [key |-> k, nth |-> e]
        BY DEF Once
    <2>2. PICK j \in 1 .. Len(node[n].records) : node[n].records[j] = [key |-> k, nth |-> e]
        BY <2>1
    <2> HIDE DEF r
    <2>3. CASE n = cur
        <3>1. j \in 1 .. Len(old) /\ old[j] = [key |-> k, nth |-> e]
            BY <2>2, <2>3 DEF old
        <3>2. CASE j <= r
            <4>1. j \in 1 .. r
                BY <1>1, <3>1, <3>2
            <4> QED
                BY <1>1, <1>2, <3>1, <4>1
        <3>3. CASE j > r
            <4> DEFINE f == j - r
            <4>1. f \in 1 .. t /\ r + f = j
                BY <1>1, <3>1, <3>3
            <4> HIDE DEF f
            <4>2. node'[Right].records[f] = [key |-> k, nth |-> e]
                BY <1>1, <3>1, <4>1
            <4> QED
                BY <1>1, <1>2, <4>1, <4>2
        <3> QED
            BY <1>1, <3>1, <3>2, <3>3
    <2>4. CASE n = P
        BY <1>1, <2>2, <2>4
    <2>5. CASE n \notin {cur, P}
        BY <1>1, <1>2, <2>2, <2>5
    <2> QED
        BY <2>3, <2>4, <2>5
<1>4. ASSUME NEW n \in InTree', NEW j \in 1 .. Len(node'[n].records)
      PROVE  node'[n].records[j].nth <= count[node'[n].records[j].key]
    <2>1. PICK m, h : CameFrom(left, n, j, m, h)
        BY AllCameFrom
    <2> QED
        BY <2>1 DEF CameFrom, Once
<1>5. ASSUME NEW m \in InTree', NEW n \in InTree', NEW e \in 1 .. Len(node'[m].records),
             NEW j \in 1 .. Len(node'[n].records), node'[m].records[e] = node'[n].records[j]
      PROVE  m = n /\ e = j
    <2>1. PICK x, f : CameFrom(left, m, e, x, f)
        BY AllCameFrom
    <2>2. PICK y, g : CameFrom(left, n, j, y, g)
        BY AllCameFrom
    <2>3. x = y /\ f = g
        <3>1. /\ x \in InTree /\ f \in 1 .. Len(node[x].records)
              /\ y \in InTree /\ g \in 1 .. Len(node[y].records)
              /\ node[x].records[f] = node[y].records[g]
            BY <1>5, <2>1, <2>2 DEF CameFrom
        <3>2. \A a, b \in InTree :
                \A c \in 1 .. Len(node[a].records) : \A d \in 1 .. Len(node[b].records) :
                    node[a].records[c] = node[b].records[d] => a = b /\ c = d
            BY DEF Once
        <3> QED
            BY <3>1, <3>2
    <2>4. /\ IF m = Right THEN x = cur /\ f = r + e ELSE x = m /\ f = e /\ (m = cur => e <= r)
          /\ IF n = Right THEN y = cur /\ g = r + j ELSE y = n /\ g = j /\ (n = cur => j <= r)
        BY <2>1, <2>2 DEF CameFrom
    <2> HIDE DEF r
    <2>5. e \in Nat /\ j \in Nat /\ e >= 1 /\ j >= 1
        OBVIOUS
    <2>6. CASE m = Right /\ n = Right
        BY <1>1, <2>3, <2>4, <2>5, <2>6
    <2>7. CASE m = Right /\ n # Right
        BY <1>1, <2>3, <2>4, <2>5, <2>7
    <2>8. CASE m # Right /\ n = Right
        BY <1>1, <2>3, <2>4, <2>5, <2>8
    <2>9. CASE m # Right /\ n # Right
        BY <2>3, <2>4, <2>9
    <2> QED
        BY <2>6, <2>7, <2>8, <2>9
<1> QED
    BY <1>3, <1>4, <1>5 DEF Once

LEMMA SplitPaired ==
    ASSUME TreeInv, Paired, pc # "idle", NEW left, NEW right, NEW promoted, NEW s,
           NEW P, NEW K, NEW C, NEW i, Split(left, right, promoted, s, P, K, C, i)
    PROVE  Paired'
<1>1. InTree' = InTree \cup {Right, P} /\ cur \in InTree
    BY Around
<1> SUFFICES ASSUME NEW n \in InTree'
             PROVE  /\ Len(node'[n].records) = IF node'[n].leaf THEN Len(node'[n].keys) ELSE 0
                    /\ \A j \in 1 .. Len(node'[n].records) :
                            node'[n].records[j].key = node'[n].keys[j]
    BY DEF Paired
<1>2. HalvedKeys(left, right, promoted, s) /\ HalvedRecords(left, right)
    BY DEF Split, Halved
<1>3. \A j \in 1 .. Len(node[cur].records) : node[cur].records[j].key = node[cur].keys[j]
    BY <1>1 DEF Paired
<1>4. /\ Len(left.records) = IF left.leaf THEN Len(left.keys) ELSE 0
      /\ \A j \in 1 .. Len(left.records) : left.records[j].key = left.keys[j]
    <2>1. Len(left.records) = IF left.leaf THEN Len(left.keys) ELSE 0
        BY DEF Split, Halved, HalvedRecords
    <2>2. ASSUME NEW j \in 1 .. Len(left.records)
          PROVE  left.records[j].key = left.keys[j]
        <3>1. Len(left.records) \in Nat /\ Len(right.records) \in Nat
            BY DEF Split, Halved, Node
        <3>2. /\ Len(node[cur].records) = Len(left.records) + Len(right.records)
              /\ left.records[j] = node[cur].records[j]
            BY <1>2 DEF HalvedRecords
        <3>2a. j \in 1 .. Len(node[cur].records)
            <4>1. \A a, b \in Nat : \A e \in 1 .. a : e \in 1 .. a + b
                OBVIOUS
            <4> QED
                BY <3>1, <3>2, <4>1
        <3>3. left.keys[j] = node[cur].keys[j]
            BY <1>2, <2>1 DEF HalvedKeys
        <3> QED
            BY <1>3, <3>2, <3>2a, <3>3
    <2> QED
        BY <2>1, <2>2
<1>5. /\ Len(right.records) = IF right.leaf THEN Len(right.keys) ELSE 0
      /\ \A j \in 1 .. Len(right.records) : right.records[j].key = right.keys[j]
    <2> DEFINE r == Len(left.records)
               t == Len(right.records)
    <2>1. r \in Nat /\ t \in Nat /\ Len(node[cur].records) = r + t
        BY <1>2 DEF Split, Halved, Node, HalvedRecords
    <2>2. right.leaf = node[cur].leaf /\ left.leaf = node[cur].leaf
        BY DEF Split, Halved
    <2>3. CASE node[cur].leaf
        <3>1. /\ r = Len(left.keys) /\ s = r
              /\ Len(node[cur].records) = Len(node[cur].keys)
              /\ Len(right.keys) = Len(node[cur].keys) - r
            BY <1>1, <1>2, <1>4, <2>2, <2>3 DEF HalvedKeys, Paired
        <3>2. \A j \in 1 .. t : right.records[j] = node[cur].records[r + j]
            BY <1>2 DEF HalvedRecords
        <3>3. \A j \in 1 .. Len(right.keys) : right.keys[j] = node[cur].keys[r + j]
            BY <1>2, <3>1 DEF HalvedKeys
        <3> HIDE DEF r, t
        <3>4. Len(right.keys) = t
            BY <2>1, <3>1
        <3>5. \A j \in 1 .. t : r + j \in 1 .. Len(node[cur].records)
            BY <2>1
        <3>6. \A j \in 1 .. t : right.records[j].key = right.keys[j]
            BY <1>3, <3>2, <3>3, <3>4, <3>5
        <3> QED
            BY <2>2, <2>3, <3>4, <3>6 DEF t
    <2>4. CASE ~ node[cur].leaf
        <3>1. r = 0 /\ Len(node[cur].records) = 0
            BY <1>1, <1>4, <2>2, <2>4 DEF Paired
        <3>2. t = 0
            BY <2>1, <3>1
        <3> QED
            BY <2>2, <2>4, <3>2
    <2> QED
        BY <2>3, <2>4
<1>6. CASE n = cur
    BY <1>4, <1>6 DEF Split, Divided, Same
<1>7. CASE n = Right
    BY <1>5, <1>7 DEF Split, Divided, Same
<1>8. CASE n = P
    BY <1>8 DEF Split, Divided
<1>9. CASE n \in InTree \ {cur, P}
    <2>1. Same(node'[n], node[n])
        BY <1>9 DEF Split, Divided
    <2> QED
        BY <1>9, <2>1 DEF Same, Paired
<1> QED
    BY <1>1, <1>6, <1>7, <1>8, <1>9

LEMMA SplitTypeOK ==
    ASSUME TreeInv, Paired, pc # "idle", count' = count, rows' = rows,
           NEW left, NEW right, NEW promoted, NEW s,
           NEW P, NEW K, NEW C, NEW i, Split(left, right, promoted, s, P, K, C, i)
    PROVE  TypeOK'
<1>1. /\ InTree' = InTree \cup {Right, P} /\ cur \in InTree /\ root \in InTree
      /\ node' \in Seq(Node)
    <2>1. InTree' = InTree \cup {Right, P} /\ cur \in InTree /\ root \in InTree
        BY Around
    <2>2. Divided(left, right, promoted, P, K, C, i)
        BY DEF Split
    <2>3. node' \in Seq(Node)
        BY <2>2 DEF Divided
    <2> QED
        BY <2>1, <2>3
<1>2. root' \in InTree' /\ cur' \in InTree' /\ pc' \in {"idle", "splitLeaf", "splitInternal"}
    BY <1>1 DEF Split, OnTop, Beside
<1>3. root' \in 0 .. Len(node') /\ cur' \in 0 .. Len(node')
    BY <1>1, <1>2 DEF InTree
<1> QED
    BY <1>1, <1>2, <1>3 DEF TreeInv, TypeOK

--------------------------------------------------------------------------------
(* A split keeps the order of the keys *)

\* The halves of an inner node have its children between the keys they had.
LEMMA InnerSplit ==
    ASSUME TreeInv, cur \in InTree, NEW left, NEW right, NEW promoted, NEW s,
           Halved(left, right, promoted, s), ~ node[cur].leaf
    PROVE  s = Len(left.keys) + 1 /\ s = Len(left.children)
<1>1. /\ Len(left.children) = Len(left.keys) + 1 /\ Len(right.children) = Len(right.keys) + 1
      /\ Len(node[cur].children) = Len(left.children) + Len(right.children)
    BY DEF Halved, HalvedChildren
<1>2. Len(right.keys) = Len(node[cur].keys) - s /\ s \in {Len(left.keys), Len(left.keys) + 1}
    BY DEF Halved, HalvedKeys
<1>3. Len(node[cur].children) = Len(node[cur].keys) + 1
    BY DEF TreeInv, Shaped
<1>4. Len(left.keys) \in Nat /\ Len(right.keys) \in Nat /\ Len(node[cur].keys) \in Nat
    BY NodeFields DEF TreeInv, Halved, Node
<1>5. \A a, b, c \in Nat : b = c - s /\ s \in {a, a + 1} /\ c + 1 = (a + 1) + (b + 1) => s = a + 1
    OBVIOUS
<1>6. Len(node[cur].keys) + 1 = (Len(left.keys) + 1) + (Len(right.keys) + 1)
    BY <1>1, <1>3
<1>7. s = Len(left.keys) + 1
    BY <1>2, <1>4, <1>5, <1>6
<1> QED
    BY <1>1, <1>7

\* The keys of the halves, the promoted one between them.
KeysSplit(left, right, promoted, lo, hi) ==
    /\ promoted \in Key
    /\ \A l \in lo[cur] : l <= promoted
    /\ \A h \in hi[cur] : promoted <= h
    /\ Sorted(left.keys) /\ Sorted(right.keys)
    /\ \A e \in 1 .. Len(left.keys) :
        /\ left.keys[e] \in Key /\ left.keys[e] <= promoted
        /\ \A l \in lo[cur] : l <= left.keys[e]
    /\ \A e \in 1 .. Len(right.keys) :
        /\ right.keys[e] \in Key /\ promoted <= right.keys[e]
        /\ \A h \in hi[cur] : right.keys[e] <= h

LEMMA KeysOfHalves ==
    ASSUME TreeInv, Ascending, cur \in InTree, NEW left, NEW right, NEW promoted, NEW s,
           Halved(left, right, promoted, s), NEW lo, NEW hi, KeysWithin(lo, hi)
    PROVE  KeysSplit(left, right, promoted, lo, hi)
<1> DEFINE m == Len(left.keys)
           q == Len(right.keys)
           old == node[cur].keys
<1>1. /\ m \in Nat /\ q \in Nat /\ Len(old) \in Nat
      /\ \A e \in 1 .. Len(old) : old[e] \in Key
    BY NodeFields DEF TreeInv, Halved, Node
<1>2. \A e \in 1 .. Len(old) :
        (\A l \in lo[cur] : l <= old[e]) /\ (\A h \in hi[cur] : old[e] <= h)
    BY DEF KeysWithin
<1>3. \A e, f \in 1 .. Len(old) : e <= f => old[e] <= old[f]
    BY DEF Ascending
<1>4. /\ promoted \in Key /\ promoted = old[m + 1] /\ m + 1 <= Len(old)
      /\ s \in {m, m + 1} /\ q = Len(old) - s
      /\ \A e \in 1 .. m : left.keys[e] = old[e]
      /\ \A e \in 1 .. q : right.keys[e] = old[s + e]
    BY DEF Halved, HalvedKeys
<1> HIDE DEF m, q, old
<1>5. m + 1 \in 1 .. Len(old) /\ s \in Nat
    BY <1>1, <1>4
<1>6. \A e \in 1 .. m : e \in 1 .. Len(old) /\ e <= m + 1
    BY <1>1, <1>4
<1>7. \A e \in 1 .. q : s + e \in 1 .. Len(old) /\ m + 1 <= s + e
    <2>1. \A e \in 1 .. q : s + e \in 1 .. Len(old)
        BY <1>1, <1>4, <1>5
    <2>2. \A e \in 1 .. q : m + 1 <= s + e
        BY <1>1, <1>4, <1>5
    <2> QED
        BY <2>1, <2>2
<1>8. /\ \A l \in lo[cur] : l <= promoted
      /\ \A h \in hi[cur] : promoted <= h
    BY <1>2, <1>4, <1>5
<1>9. \A e \in 1 .. m :
        /\ left.keys[e] \in Key /\ left.keys[e] <= promoted
        /\ \A l \in lo[cur] : l <= left.keys[e]
    BY <1>1, <1>2, <1>3, <1>4, <1>5, <1>6
<1>10. ASSUME NEW e \in 1 .. q
       PROVE  /\ right.keys[e] \in Key /\ promoted <= right.keys[e]
              /\ \A h \in hi[cur] : right.keys[e] <= h
    <2>1. right.keys[e] = old[s + e] /\ s + e \in 1 .. Len(old) /\ m + 1 <= s + e
        BY <1>4, <1>7
    <2> QED
        BY <1>1, <1>2, <1>3, <1>4, <1>5, <2>1
<1>11. Sorted(left.keys)
    BY <1>3, <1>4, <1>6 DEF Sorted, m
<1>12. Sorted(right.keys)
    <2> SUFFICES ASSUME NEW e \in 1 .. q, NEW f \in 1 .. q, e <= f
                 PROVE  old[s + e] <= old[s + f]
        BY <1>4 DEF Sorted, q
    <2>1. s + e \in 1 .. Len(old) /\ s + f \in 1 .. Len(old) /\ s + e <= s + f
        BY <1>5, <1>7
    <2> QED
        BY <1>3, <2>1
<1> QED
    BY <1>4, <1>8, <1>9, <1>10, <1>11, <1>12 DEF KeysSplit, m, q

LowerOf(lo, P) == IF P \in InTree THEN lo[P] ELSE {}
UpperOf(hi, P) == IF P \in InTree THEN hi[P] ELSE {}

\* The children of P before the split, and its keys, which are their separators.
Family(P, K, C, i, lo, hi) ==
    /\ Len(K) \in Nat /\ Len(C) = Len(K) + 1 /\ i \in 1 .. Len(C) /\ C[i] = cur
    /\ \A h \in 1 .. Len(C) :
        /\ C[h] \in InTree /\ (h # i => C[h] # cur)
        /\ lo[C[h]] = IF h = 1 THEN LowerOf(lo, P) ELSE {K[h - 1]}
        /\ hi[C[h]] = IF h = Len(C) THEN UpperOf(hi, P) ELSE {K[h]}

LEMMA FamilyOfP ==
    ASSUME TreeInv, Paired, pc # "idle", NEW left, NEW right, NEW promoted, NEW s,
           NEW P, NEW K, NEW C, NEW i, Split(left, right, promoted, s, P, K, C, i),
           NEW lo, NEW hi, LowerBy(lo), UpperBy(hi)
    PROVE  Family(P, K, C, i, lo, hi)
<1>1. /\ K \in Seq(Key) /\ Len(K) \in Nat /\ Len(C) = Len(K) + 1 /\ i \in 1 .. Len(C)
      /\ C[i] = cur
    BY DEF Split, Divided
<1>2. cur \in InTree /\ root \in InTree
    BY Around
<1>3. CASE OnTop(P, K, C)
    <2>1. Len(K) = 0 /\ P \notin InTree /\ cur = root
        BY <1>3 DEF OnTop
    <2>2. Len(C) = 1 /\ i = 1
        BY <1>1, <2>1
    <2>3. lo[cur] = {} /\ hi[cur] = {}
        BY <2>1 DEF LowerBy, UpperBy
    <2> QED
        BY <1>1, <1>2, <2>1, <2>2, <2>3 DEF Family, LowerOf, UpperOf
<1>4. CASE Beside(P, K, C)
    <2>1. P \in InTree /\ K = node[P].keys /\ C = node[P].children
        BY <1>4 DEF Beside
    <2>2. \A h \in 1 .. Len(C) : C[h] \in InTree /\ (h # i => C[h] # cur)
        BY <1>1, <2>1 DEF TreeInv, Linked
    <2>3. \A h \in 1 .. Len(C) :
            /\ lo[C[h]] = IF h = 1 THEN lo[P] ELSE {K[h - 1]}
            /\ hi[C[h]] = IF h = Len(C) THEN hi[P] ELSE {K[h]}
        <3>1. \A h \in 1 .. Len(node[P].children) :
                lo[node[P].children[h]] = IF h = 1 THEN lo[P] ELSE {node[P].keys[h - 1]}
            BY <2>1 DEF LowerBy
        <3>2. \A h \in 1 .. Len(node[P].children) :
                hi[node[P].children[h]] =
                    IF h = Len(node[P].children) THEN hi[P] ELSE {node[P].keys[h]}
            BY <2>1 DEF UpperBy
        <3> QED
            BY <2>1, <3>1, <3>2
    <2> QED
        BY <1>1, <2>1, <2>2, <2>3 DEF Family, LowerOf, UpperOf
<1> QED
    BY <1>3, <1>4 DEF Split

\* The promoted key comes between those of P that its place is between.
LEMMA PromotedInPlace ==
    ASSUME TreeInv, Paired, Ascending, pc # "idle", NEW left, NEW right, NEW promoted, NEW s,
           NEW P, NEW K, NEW C, NEW i, Split(left, right, promoted, s, P, K, C, i),
           NEW lo, NEW hi, LowerBy(lo), UpperBy(hi), KeysWithin(lo, hi)
    PROVE  /\ K \in Seq(Int) /\ Sorted(K)
           /\ \A h \in 1 .. Len(K) : h < i => K[h] <= promoted
           /\ \A h \in 1 .. Len(K) : h >= i => promoted <= K[h]
           /\ \A h \in 1 .. Len(K) :
                (\A l \in LowerOf(lo, P) : l <= K[h]) /\ (\A u \in UpperOf(hi, P) : K[h] <= u)
           /\ \A l \in LowerOf(lo, P) : l <= promoted
           /\ \A u \in UpperOf(hi, P) : promoted <= u
<1>0. Key \subseteq Int
    BY BPlusTreeAssumption DEF BPlusTreeAssumption
<1>1. Family(P, K, C, i, lo, hi)
    BY FamilyOfP
<1>2. cur \in InTree /\ Halved(left, right, promoted, s)
    BY Around DEF Split
<1>3. KeysSplit(left, right, promoted, lo, hi)
    BY <1>2, KeysOfHalves
<1>4. /\ promoted \in Int
      /\ \A l \in lo[cur] : l <= promoted
      /\ \A h \in hi[cur] : promoted <= h
    BY <1>0, <1>3 DEF KeysSplit
<1>5. K \in Seq(Key) /\ K \in Seq(Int) /\ \A h \in 1 .. Len(K) : K[h] \in Int
    <2>1. K \in Seq(Key)
        BY DEF Split, Divided
    <2>2. \A h \in 1 .. Len(K) : K[h] \in Int
        <3>1. \A h \in 1 .. Len(K) : K[h] \in Key
            BY <2>1
        <3> QED
            BY <1>0, <3>1
    <2>3. K \in [1 .. Len(K) -> Int] /\ Len(K) \in Nat
        BY <2>1, <2>2
    <2>4. K \in Seq(Int)
        BY <2>3
    <2> QED
        BY <2>1, <2>2, <2>4
<1>6. /\ Len(K) \in Nat /\ Len(C) = Len(K) + 1 /\ i \in 1 .. Len(C)
      /\ lo[cur] = IF i = 1 THEN LowerOf(lo, P) ELSE {K[i - 1]}
      /\ hi[cur] = IF i = Len(C) THEN UpperOf(hi, P) ELSE {K[i]}
    BY <1>1 DEF Family
<1>7. /\ Sorted(K)
      /\ \A h \in 1 .. Len(K) :
            (\A l \in LowerOf(lo, P) : l <= K[h]) /\ (\A u \in UpperOf(hi, P) : K[h] <= u)
      /\ LowerOf(lo, P) \subseteq Int /\ UpperOf(hi, P) \subseteq Int
    <2>1. CASE OnTop(P, K, C)
        BY <1>6, <2>1 DEF OnTop, Sorted, LowerOf, UpperOf
    <2>2. CASE Beside(P, K, C)
        <3>1. P \in InTree /\ K = node[P].keys
            BY <2>2 DEF Beside
        <3>2. Sorted(K)
            BY <3>1 DEF Ascending, Sorted
        <3>3. lo[P] \subseteq Int /\ hi[P] \subseteq Int
            BY <1>0, <3>1 DEF LowerBy, UpperBy
        <3> QED
            BY <3>1, <3>2, <3>3 DEF KeysWithin, LowerOf, UpperOf
    <2> QED
        BY <2>1, <2>2 DEF Split
<1>8. \A e, f \in 1 .. Len(K) : e <= f => K[e] <= K[f]
    BY <1>7 DEF Sorted
<1>9. ASSUME NEW h \in 1 .. Len(K), h < i
      PROVE  K[h] <= promoted
    <2>1. i # 1 /\ i - 1 \in 1 .. Len(K) /\ h <= i - 1
        BY <1>6, <1>9
    <2>2. K[i - 1] <= promoted
        BY <1>4, <1>6, <2>1
    <2>3. K[h] <= K[i - 1]
        BY <1>8, <2>1
    <2> QED
        BY <1>4, <1>5, <2>1, <2>2, <2>3
<1>10. ASSUME NEW h \in 1 .. Len(K), h >= i
       PROVE  promoted <= K[h]
    <2>1. i # Len(C) /\ i \in 1 .. Len(K)
        BY <1>6, <1>10
    <2>2. promoted <= K[i]
        BY <1>4, <1>6, <2>1
    <2>3. K[i] <= K[h]
        BY <1>8, <1>10, <2>1
    <2> QED
        BY <1>4, <1>5, <2>1, <2>2, <2>3
<1>11. ASSUME NEW l \in LowerOf(lo, P)
       PROVE  l <= promoted
    <2>1. CASE i = 1
        BY <1>4, <1>6, <2>1
    <2>2. CASE i # 1
        <3>1. i - 1 \in 1 .. Len(K)
            BY <1>6, <2>2
        <3>2. K[i - 1] <= promoted /\ l <= K[i - 1]
            BY <1>4, <1>6, <1>7, <2>2, <3>1
        <3> QED
            BY <1>4, <1>5, <1>7, <3>1, <3>2
    <2> QED
        BY <2>1, <2>2
<1>12. ASSUME NEW u \in UpperOf(hi, P)
       PROVE  promoted <= u
    <2>1. CASE i = Len(C)
        BY <1>4, <1>6, <2>1
    <2>2. CASE i # Len(C)
        <3>1. i \in 1 .. Len(K)
            BY <1>6, <2>2
        <3>2. promoted <= K[i] /\ K[i] <= u
            BY <1>4, <1>6, <1>7, <2>2, <3>1
        <3> QED
            BY <1>4, <1>5, <1>7, <3>1, <3>2
    <2> QED
        BY <2>1, <2>2
<1> QED
    BY <1>5, <1>7, <1>9, <1>10, <1>11, <1>12

LEMMA SplitAscending ==
    ASSUME TreeInv, Paired, Ascending, pc # "idle", NEW left, NEW right, NEW promoted, NEW s,
           NEW P, NEW K, NEW C, NEW i, Split(left, right, promoted, s, P, K, C, i),
           NEW lo, NEW hi, LowerBy(lo), UpperBy(hi), KeysWithin(lo, hi)
    PROVE  Ascending'
<1>0. Key \subseteq Int
    BY BPlusTreeAssumption DEF BPlusTreeAssumption
<1>1. InTree' = InTree \cup {Right, P} /\ cur \in InTree
    BY Around
<1>2. KeysSplit(left, right, promoted, lo, hi)
    BY <1>1, KeysOfHalves DEF Split
<1> SUFFICES ASSUME NEW n \in InTree'
             PROVE  Sorted(node'[n].keys)
    BY DEF Ascending, Sorted
<1>3. CASE n = cur
    <2>1. node'[n].keys = left.keys
        BY <1>3 DEF Split, Divided, Same
    <2> QED
        BY <1>2, <2>1 DEF KeysSplit
<1>4. CASE n = Right
    <2>1. node'[n].keys = right.keys
        BY <1>4 DEF Split, Divided, Same
    <2> QED
        BY <1>2, <2>1 DEF KeysSplit
<1>5. CASE n = P
    <2>1. /\ K \in Seq(Int) /\ Sorted(K)
          /\ \A h \in 1 .. Len(K) : h < i => K[h] <= promoted
          /\ \A h \in 1 .. Len(K) : h >= i => promoted <= K[h]
        BY PromotedInPlace
    <2>2. Inserted(node'[P].keys, K, i, promoted) /\ i \in 1 .. Len(K) + 1
        BY DEF Split, Divided
    <2>3. promoted \in Int
        BY <1>0, <1>2 DEF KeysSplit
    <2> QED
        BY <1>5, <2>1, <2>2, <2>3, InsertedSorted
<1>6. CASE n \in InTree \ {cur, P}
    <2>1. node'[n].keys = node[n].keys
        BY <1>6 DEF Split, Divided, Same
    <2> QED
        BY <1>6, <2>1 DEF Ascending, Sorted
<1> QED
    BY <1>1, <1>3, <1>4, <1>5, <1>6

--------------------------------------------------------------------------------
(* A split keeps every key where the separators lead *)

\* The separators after the split: the promoted key comes between the halves.
Rebound(lo, hi, lo2, hi2, P, promoted) ==
    /\ lo2 \in [InTree' -> SUBSET Key] /\ hi2 \in [InTree' -> SUBSET Key]
    /\ lo2[Right] = {promoted} /\ hi2[cur] = {promoted} /\ hi2[Right] = hi[cur]
    /\ \A x \in InTree : lo2[x] = lo[x]
    /\ \A x \in InTree \ {cur} : hi2[x] = hi[x]
    /\ lo2[P] = LowerOf(lo, P) /\ hi2[P] = UpperOf(hi, P)

LEMMA Rebounding ==
    ASSUME TreeInv, Paired, pc # "idle", NEW left, NEW right, NEW promoted, NEW s,
           NEW P, NEW K, NEW C, NEW i, Split(left, right, promoted, s, P, K, C, i),
           NEW lo, NEW hi, LowerBy(lo), UpperBy(hi)
    PROVE  \E lo2, hi2 : Rebound(lo, hi, lo2, hi2, P, promoted)
<1>1. /\ InTree' = InTree \cup {Right, P} /\ Right \notin InTree
      /\ cur \in InTree /\ P # cur /\ P # Right /\ promoted \in Key
    <2>1. InTree' = InTree \cup {Right, P} /\ Right \notin InTree /\ cur \in InTree
        BY Around
    <2>2. P # cur /\ P # Right /\ promoted \in Key
        BY DEF Split, Divided, Halved, HalvedKeys
    <2> QED
        BY <2>1, <2>2
<1>2. lo \in [InTree -> SUBSET Key] /\ hi \in [InTree -> SUBSET Key]
    BY DEF LowerBy, UpperBy
<1> DEFINE lo2 == [x \in InTree' |->
                    IF x = Right THEN {promoted} ELSE IF x \in InTree THEN lo[x] ELSE {}]
           hi2 == [x \in InTree' |->
                    IF x = cur THEN {promoted} ELSE IF x = Right THEN hi[cur]
                    ELSE IF x \in InTree THEN hi[x] ELSE {}]
<1>3. lo2 \in [InTree' -> SUBSET Key] /\ hi2 \in [InTree' -> SUBSET Key]
    BY <1>1, <1>2
<1>4. /\ lo2[Right] = {promoted} /\ hi2[cur] = {promoted} /\ hi2[Right] = hi[cur]
      /\ \A x \in InTree : lo2[x] = lo[x]
      /\ \A x \in InTree \ {cur} : hi2[x] = hi[x]
    BY <1>1
<1>5. lo2[P] = LowerOf(lo, P) /\ hi2[P] = UpperOf(hi, P)
    BY <1>1 DEF LowerOf, UpperOf
<1> HIDE DEF lo2, hi2
<1> QED
    BY <1>3, <1>4, <1>5 DEF Rebound

\* The children of the halves, between the promoted key and those of the node.
ChildrenBetween(left, right, promoted, lo, hi) ==
    /\ \A j \in 1 .. Len(left.children) :
        /\ left.children[j] \in InTree /\ left.children[j] # cur
        /\ lo[left.children[j]] = IF j = 1 THEN lo[cur] ELSE {left.keys[j - 1]}
        /\ hi[left.children[j]] = IF j = Len(left.children) THEN {promoted} ELSE {left.keys[j]}
    /\ \A j \in 1 .. Len(right.children) :
        /\ right.children[j] \in InTree /\ right.children[j] # cur
        /\ lo[right.children[j]] = IF j = 1 THEN {promoted} ELSE {right.keys[j - 1]}
        /\ hi[right.children[j]] = IF j = Len(right.children) THEN hi[cur] ELSE {right.keys[j]}

LEMMA ChildrenSplit ==
    ASSUME TreeInv, Paired, pc # "idle", NEW left, NEW right, NEW promoted, NEW s,
           NEW P, NEW K, NEW C, NEW i, Split(left, right, promoted, s, P, K, C, i),
           NEW lo, NEW hi, LowerBy(lo), UpperBy(hi)
    PROVE  ChildrenBetween(left, right, promoted, lo, hi)
<1>1. /\ cur \in InTree /\ \A x \in InTree : node[x].parent # x
      /\ Halved(left, right, promoted, s)
    BY Around DEF Split
<1> DEFINE c == Len(left.children)
           r == Len(right.children)
           old == node[cur].children
           key == node[cur].keys
<1>2. CASE node[cur].leaf
    BY <1>2 DEF Split, Halved, HalvedChildren, ChildrenBetween
<1>3. CASE ~ node[cur].leaf
    <2>1. c = Len(left.keys) + 1 /\ r = Len(right.keys) + 1 /\ s = c
        BY <1>1, <1>3, InnerSplit DEF Halved, HalvedChildren
    <2>2. /\ Len(old) = c + r
          /\ \A j \in 1 .. c : left.children[j] = old[j]
          /\ \A j \in 1 .. r : right.children[j] = old[c + j]
        BY <1>1 DEF Halved, HalvedChildren
    <2>3. /\ promoted = key[c]
          /\ \A j \in 1 .. Len(left.keys) : left.keys[j] = key[j]
          /\ \A j \in 1 .. Len(right.keys) : right.keys[j] = key[c + j]
        BY <1>1, <2>1 DEF Halved, HalvedKeys
    <2>4. \A j \in 1 .. Len(old) : old[j] \in InTree /\ old[j] # cur
        BY <1>1 DEF TreeInv, Linked
    <2>5. \A j \in 1 .. Len(old) : lo[old[j]] = IF j = 1 THEN lo[cur] ELSE {key[j - 1]}
        BY <1>1 DEF LowerBy
    <2>6. \A j \in 1 .. Len(old) : hi[old[j]] = IF j = Len(old) THEN hi[cur] ELSE {key[j]}
        BY <1>1 DEF UpperBy
    <2>7. c \in Nat /\ r \in Nat /\ Len(left.keys) \in Nat /\ Len(right.keys) \in Nat
        BY <1>1 DEF Halved, Node
    <2>8. c >= 1 /\ r >= 1 /\ Len(left.keys) = c - 1 /\ Len(right.keys) = r - 1
        BY <2>1, <2>7
    <2> HIDE DEF c, r, old, key
    <2>9. \A j \in 1 .. c : j \in 1 .. Len(old) /\ j # Len(old)
        BY <2>2, <2>7, <2>8
    <2>10. \A j \in 1 .. r : c + j \in 1 .. Len(old) /\ c + j # 1 /\ (c + j = Len(old) <=> j = r)
        BY <2>2, <2>7, <2>8
    <2>11. ASSUME NEW j \in 1 .. c
           PROVE  /\ left.children[j] \in InTree /\ left.children[j] # cur
                  /\ lo[left.children[j]] = IF j = 1 THEN lo[cur] ELSE {left.keys[j - 1]}
                  /\ hi[left.children[j]] = IF j = c THEN {promoted} ELSE {left.keys[j]}
        <3>1. left.children[j] = old[j] /\ j \in 1 .. Len(old) /\ j # Len(old)
            BY <2>2, <2>9
        <3>2. lo[old[j]] = IF j = 1 THEN lo[cur] ELSE {left.keys[j - 1]}
            <4>1. j # 1 => j - 1 \in 1 .. Len(left.keys)
                BY <2>7, <2>8
            <4> QED
                BY <2>3, <2>5, <3>1, <4>1
        <3>3. hi[old[j]] = IF j = c THEN {promoted} ELSE {left.keys[j]}
            <4>1. j # c => j \in 1 .. Len(left.keys)
                BY <2>7, <2>8
            <4> QED
                BY <2>3, <2>6, <3>1, <4>1
        <3> QED
            BY <2>4, <3>1, <3>2, <3>3
    <2>12. ASSUME NEW j \in 1 .. r
           PROVE  /\ right.children[j] \in InTree /\ right.children[j] # cur
                  /\ lo[right.children[j]] = IF j = 1 THEN {promoted} ELSE {right.keys[j - 1]}
                  /\ hi[right.children[j]] = IF j = r THEN hi[cur] ELSE {right.keys[j]}
        <3> DEFINE e == c + j
        <3>1. /\ right.children[j] = old[e] /\ e \in 1 .. Len(old) /\ e # 1
              /\ e = Len(old) <=> j = r
            BY <2>2, <2>10
        <3>2. (j = 1 => e - 1 = c) /\ (j # 1 => j - 1 \in 1 .. Len(right.keys) /\ e - 1 = c + (j - 1))
            BY <2>7, <2>8
        <3>3. j # r => j \in 1 .. Len(right.keys) /\ right.keys[j] = key[e]
            <4>1. j # r => j \in 1 .. Len(right.keys)
                BY <2>7, <2>8
            <4> QED
                BY <2>3, <4>1
        <3> HIDE DEF e
        <3>4. lo[old[e]] = {key[e - 1]}
            BY <2>5, <3>1
        <3>5. hi[old[e]] = IF j = r THEN hi[cur] ELSE {right.keys[j]}
            BY <2>6, <3>1, <3>3
        <3>6. lo[old[e]] = IF j = 1 THEN {promoted} ELSE {right.keys[j - 1]}
            <4>1. CASE j = 1
                BY <2>3, <3>2, <3>4, <4>1
            <4>2. CASE j # 1
                <5>1. right.keys[j - 1] = key[c + (j - 1)]
                    BY <2>3, <3>2, <4>2
                <5> QED
                    BY <3>2, <3>4, <4>2, <5>1
            <4> QED
                BY <4>1, <4>2
        <3> QED
            BY <2>4, <3>1, <3>5, <3>6
    <2> QED
        BY <2>11, <2>12 DEF c, r, ChildrenBetween
<1> QED
    BY <1>2, <1>3

\* The children of P after the split.
FamilyBetween(lo2, hi2, P) ==
    \A j \in 1 .. Len(node'[P].children) :
        /\ lo2[node'[P].children[j]] = IF j = 1 THEN lo2[P] ELSE {node'[P].keys[j - 1]}
        /\ hi2[node'[P].children[j]] =
                IF j = Len(node'[P].children) THEN hi2[P] ELSE {node'[P].keys[j]}

LEMMA FamilyAfter ==
    ASSUME TreeInv, Paired, pc # "idle", NEW left, NEW right, NEW promoted, NEW s,
           NEW P, NEW K, NEW C, NEW i, Split(left, right, promoted, s, P, K, C, i),
           NEW lo, NEW hi, LowerBy(lo), UpperBy(hi),
           NEW lo2, NEW hi2, Rebound(lo, hi, lo2, hi2, P, promoted)
    PROVE  FamilyBetween(lo2, hi2, P)
<1> SUFFICES ASSUME NEW j \in 1 .. Len(node'[P].children)
             PROVE  /\ lo2[node'[P].children[j]] = IF j = 1 THEN lo2[P] ELSE {node'[P].keys[j - 1]}
                    /\ hi2[node'[P].children[j]] =
                            IF j = Len(node'[P].children) THEN hi2[P] ELSE {node'[P].keys[j]}
    BY DEF FamilyBetween
<1> DEFINE D == node'[P].children
           T == node'[P].keys
<1>1. /\ Len(K) \in Nat /\ Len(C) = Len(K) + 1 /\ i \in 1 .. Len(C) /\ C[i] = cur
      /\ \A h \in 1 .. Len(C) :
            /\ C[h] \in InTree /\ (h # i => C[h] # cur)
            /\ lo[C[h]] = IF h = 1 THEN LowerOf(lo, P) ELSE {K[h - 1]}
            /\ hi[C[h]] = IF h = Len(C) THEN UpperOf(hi, P) ELSE {K[h]}
    <2>1. Family(P, K, C, i, lo, hi)
        BY FamilyOfP
    <2> QED
        BY <2>1 DEF Family
<1>2. /\ lo2[Right] = {promoted} /\ hi2[cur] = {promoted} /\ hi2[Right] = hi[cur]
      /\ \A x \in InTree : lo2[x] = lo[x]
      /\ \A x \in InTree \ {cur} : hi2[x] = hi[x]
      /\ lo2[P] = LowerOf(lo, P) /\ hi2[P] = UpperOf(hi, P)
    BY DEF Rebound
<1>3. Inserted(T, K, i, promoted) /\ Inserted(D, C, i + 1, Right)
    BY DEF Split, Divided
<1> HIDE DEF D, T
<1>4. i \in 1 .. Len(K) + 1 /\ i + 1 \in 1 .. Len(C) + 1 /\ Len(C) \in Nat
    BY <1>1
<1>4a. Moves(T, K, i, promoted) /\ Moves(D, C, i + 1, Right)
    BY <1>1, <1>3, <1>4, InsertedIs
<1>5. /\ Len(T) = Len(K) + 1 /\ T[i] = promoted
      /\ \A h \in 1 .. Len(K) : h < i => T[h] = K[h]
      /\ \A h \in 1 .. Len(K) : h >= i => T[h + 1] = K[h]
    BY <1>4a DEF Moves
<1>6. /\ Len(D) = Len(C) + 1 /\ D[i + 1] = Right
      /\ \A h \in 1 .. Len(C) : h < i + 1 => D[h] = C[h]
      /\ \A h \in 1 .. Len(D) : h < i + 1 => h \in 1 .. Len(C)
      /\ \A h \in 1 .. Len(D) : h > i + 1 => h - 1 \in 1 .. Len(C) /\ D[h] = C[h - 1]
    BY <1>4a DEF Moves
<1>7. j \in 1 .. Len(D)
    BY DEF D
<1>8. CASE j < i + 1
    <2>1. D[j] = C[j] /\ j \in 1 .. Len(C) /\ j <= i /\ j # Len(D)
        BY <1>4, <1>6, <1>7, <1>8
    <2>2. lo2[D[j]] = IF j = 1 THEN LowerOf(lo, P) ELSE {K[j - 1]}
        <3>1. C[j] \in InTree /\ lo[C[j]] = IF j = 1 THEN LowerOf(lo, P) ELSE {K[j - 1]}
            BY <1>1, <2>1
        <3>2. lo2[C[j]] = lo[C[j]]
            BY <1>2, <3>1
        <3> QED
            BY <2>1, <3>1, <3>2
    <2>3. j # 1 => T[j - 1] = K[j - 1]
        <3> SUFFICES ASSUME j # 1
                     PROVE  T[j - 1] = K[j - 1]
            OBVIOUS
        <3>1. j - 1 \in 1 .. Len(K) /\ j - 1 < i
            BY <1>1, <2>1
        <3> QED
            BY <1>5, <3>1
    <2>4. hi2[D[j]] = {T[j]}
        <3>1. CASE j = i
            BY <1>1, <1>2, <1>5, <2>1, <3>1
        <3>2. CASE j # i
            <4>1. j < i /\ j # Len(C) /\ j \in 1 .. Len(K)
                BY <1>1, <2>1, <3>2
            <4>2. hi2[C[j]] = {K[j]}
                BY <1>1, <1>2, <2>1, <3>2, <4>1
            <4> QED
                BY <1>5, <2>1, <4>1, <4>2
        <3> QED
            BY <3>1, <3>2
    <2> QED
        BY <1>2, <2>1, <2>2, <2>3, <2>4 DEF D, T
<1>9. CASE j = i + 1
    <2>1. D[j] = Right /\ j # 1 /\ j - 1 = i
        BY <1>1, <1>6, <1>9
    <2>2. lo2[D[j]] = {T[j - 1]}
        BY <1>2, <1>5, <2>1
    <2>3. hi2[D[j]] = IF i = Len(C) THEN UpperOf(hi, P) ELSE {K[i]}
        BY <1>1, <1>2, <2>1
    <2>4. i = Len(C) <=> j = Len(D)
        BY <1>4, <1>6, <1>9
    <2>5. i # Len(C) => T[j] = K[i]
        <3> SUFFICES ASSUME i # Len(C)
                     PROVE  T[j] = K[i]
            OBVIOUS
        <3>1. i \in 1 .. Len(K) /\ i >= i
            BY <1>1
        <3> QED
            BY <1>5, <1>9, <3>1
    <2> QED
        BY <1>2, <2>1, <2>2, <2>3, <2>4, <2>5 DEF D, T
<1>10. CASE j > i + 1
    <2> DEFINE h == j - 1
    <2>1. h \in 1 .. Len(C) /\ D[j] = C[h] /\ h > i /\ h # 1 /\ j # 1 /\ j = h + 1
        <3>1. j - 1 \in 1 .. Len(C) /\ D[j] = C[j - 1]
            BY <1>6, <1>7, <1>10
        <3>2. j - 1 > i /\ j - 1 # 1 /\ j # 1 /\ j = (j - 1) + 1
            BY <1>1, <1>7, <1>10
        <3> QED
            BY <3>1, <3>2
    <2> HIDE DEF h
    <2>2. lo2[D[j]] = {K[h - 1]} /\ hi2[D[j]] = IF h = Len(C) THEN UpperOf(hi, P) ELSE {K[h]}
        <3>1. h # i
            BY <1>1, <2>1
        <3>2. /\ C[h] \in InTree \ {cur} /\ lo[C[h]] = {K[h - 1]}
              /\ hi[C[h]] = IF h = Len(C) THEN UpperOf(hi, P) ELSE {K[h]}
            BY <1>1, <2>1, <3>1
        <3>3. lo2[C[h]] = lo[C[h]] /\ hi2[C[h]] = hi[C[h]]
            BY <1>2, <3>2
        <3> QED
            BY <2>1, <3>2, <3>3
    <2>3. T[h] = K[h - 1]
        <3> DEFINE g == h - 1
        <3>1. g \in 1 .. Len(K) /\ g >= i /\ g + 1 = h
            BY <1>1, <2>1
        <3> HIDE DEF g
        <3>2. T[g + 1] = K[g]
            BY <1>5, <3>1
        <3> QED
            BY <3>1, <3>2 DEF g
    <2>4. h = Len(C) <=> j = Len(D)
        <3>1. h \in Nat /\ Len(C) \in Nat /\ Len(D) = Len(C) + 1 /\ j = h + 1
            BY <1>4, <1>6, <2>1
        <3>2. \A a, b \in Nat : a = b <=> a + 1 = b + 1
            OBVIOUS
        <3> QED
            BY <3>1, <3>2
    <2>5. h # Len(C) => T[j] = K[h]
        <3> SUFFICES ASSUME h # Len(C)
                     PROVE  T[j] = K[h]
            OBVIOUS
        <3>1. h \in 1 .. Len(K) /\ h >= i
            BY <1>1, <2>1
        <3> QED
            BY <1>5, <2>1, <3>1
    <2> QED
        BY <1>2, <2>1, <2>2, <2>3, <2>4, <2>5 DEF D, T, h
<1> QED
    BY <1>1, <1>7, <1>6, <1>8, <1>9, <1>10

LEMMA SplitBounds ==
    ASSUME TreeInv, Paired, pc # "idle", NEW left, NEW right, NEW promoted, NEW s,
           NEW P, NEW K, NEW C, NEW i, Split(left, right, promoted, s, P, K, C, i),
           NEW lo, NEW hi, LowerBy(lo), UpperBy(hi),
           NEW lo2, NEW hi2, Rebound(lo, hi, lo2, hi2, P, promoted)
    PROVE  LowerBy(lo2)' /\ UpperBy(hi2)'
<1>1. /\ InTree' = InTree \cup {Right, P} /\ Right \notin InTree
      /\ cur \in InTree /\ root \in InTree /\ 0 \notin InTree'
      /\ cur # root => node[cur].parent = P
    BY Around
<1>2. /\ lo2 \in [InTree' -> SUBSET Key] /\ hi2 \in [InTree' -> SUBSET Key]
      /\ lo2[Right] = {promoted} /\ hi2[cur] = {promoted} /\ hi2[Right] = hi[cur]
      /\ \A x \in InTree : lo2[x] = lo[x]
      /\ \A x \in InTree \ {cur} : hi2[x] = hi[x]
      /\ lo2[P] = LowerOf(lo, P) /\ hi2[P] = UpperOf(hi, P)
    BY DEF Rebound
<1>3. lo2[root'] = {} /\ hi2[root'] = {}
    <2>1. CASE OnTop(P, K, C)
        BY <1>2, <2>1 DEF OnTop, LowerOf, UpperOf
    <2>2. CASE Beside(P, K, C)
        BY <1>1, <1>2, <2>2 DEF Beside, LowerBy, UpperBy
    <2> QED
        BY <2>1, <2>2 DEF Split
<1>3a. ChildrenBetween(left, right, promoted, lo, hi)
    BY ChildrenSplit
<1>3b. FamilyBetween(lo2, hi2, P)
    BY FamilyAfter
<1>4. ASSUME NEW p \in InTree', NEW j \in 1 .. Len(node'[p].children)
      PROVE  /\ lo2[node'[p].children[j]] = IF j = 1 THEN lo2[p] ELSE {node'[p].keys[j - 1]}
             /\ hi2[node'[p].children[j]] =
                    IF j = Len(node'[p].children) THEN hi2[p] ELSE {node'[p].keys[j]}
    <2>1. CASE p = cur
        <3>1. node'[p].children = left.children /\ node'[p].keys = left.keys
            BY <2>1 DEF Split, Divided, Same
        <3>2. /\ left.children[j] \in InTree /\ left.children[j] # cur
              /\ lo[left.children[j]] = IF j = 1 THEN lo[cur] ELSE {left.keys[j - 1]}
              /\ hi[left.children[j]] =
                    IF j = Len(left.children) THEN {promoted} ELSE {left.keys[j]}
            BY <1>3a, <3>1 DEF ChildrenBetween
        <3>3. /\ lo2[left.children[j]] = lo[left.children[j]]
              /\ hi2[left.children[j]] = hi[left.children[j]]
              /\ lo2[cur] = lo[cur] /\ hi2[cur] = {promoted}
            BY <1>1, <1>2, <3>2
        <3>4. /\ lo2[left.children[j]] = IF j = 1 THEN lo2[cur] ELSE {left.keys[j - 1]}
              /\ hi2[left.children[j]] =
                    IF j = Len(left.children) THEN hi2[cur] ELSE {left.keys[j]}
            BY <3>2, <3>3
        <3> QED
            BY <2>1, <3>1, <3>4
    <2>2. CASE p = Right
        <3>1. node'[p].children = right.children /\ node'[p].keys = right.keys
            BY <2>2 DEF Split, Divided, Same
        <3>2. /\ right.children[j] \in InTree /\ right.children[j] # cur
              /\ lo[right.children[j]] = IF j = 1 THEN {promoted} ELSE {right.keys[j - 1]}
              /\ hi[right.children[j]] =
                    IF j = Len(right.children) THEN hi[cur] ELSE {right.keys[j]}
            BY <1>3a, <3>1 DEF ChildrenBetween
        <3>3. /\ lo2[right.children[j]] = lo[right.children[j]]
              /\ hi2[right.children[j]] = hi[right.children[j]]
              /\ lo2[Right] = {promoted} /\ hi2[Right] = hi[cur]
            BY <1>1, <1>2, <3>2
        <3>4. /\ lo2[right.children[j]] = IF j = 1 THEN lo2[Right] ELSE {right.keys[j - 1]}
              /\ hi2[right.children[j]] =
                    IF j = Len(right.children) THEN hi2[Right] ELSE {right.keys[j]}
            BY <3>2, <3>3
        <3> QED
            BY <2>2, <3>1, <3>4
    <2>3. CASE p = P
        BY <1>3b, <2>3 DEF FamilyBetween
    <2>4. CASE p \in InTree \ {cur, P}
        <3>1. node'[p].children = node[p].children /\ node'[p].keys = node[p].keys
            BY <2>4 DEF Split, Divided, Same
        <3>2. /\ node[p].children[j] \in InTree /\ node[node[p].children[j]].parent = p
              /\ node[root].parent = 0
            BY <1>1, <2>4, <3>1 DEF TreeInv, Linked
        <3>3. node[p].children[j] # cur
            <4>1. p # 0
                BY <1>1, <2>4
            <4> QED
                BY <1>1, <2>4, <3>2, <4>1
        <3>4. lo[node[p].children[j]] = IF j = 1 THEN lo[p] ELSE {node[p].keys[j - 1]}
            BY <2>4, <3>1 DEF LowerBy
        <3>5. hi[node[p].children[j]] =
                    IF j = Len(node[p].children) THEN hi[p] ELSE {node[p].keys[j]}
            BY <2>4, <3>1 DEF UpperBy
        <3> QED
            BY <1>2, <2>4, <3>1, <3>2, <3>3, <3>4, <3>5
    <2> QED
        BY <1>1, <2>1, <2>2, <2>3, <2>4
<1>5. LowerBy(lo2)'
    <2>1. \A p \in InTree' : \A j \in 1 .. Len(node'[p].children) :
            lo2[node'[p].children[j]] = IF j = 1 THEN lo2[p] ELSE {node'[p].keys[j - 1]}
        BY <1>4
    <2> QED
        BY <1>2, <1>3, <2>1 DEF LowerBy
<1>6. UpperBy(hi2)'
    <2>1. \A p \in InTree' : \A j \in 1 .. Len(node'[p].children) :
            hi2[node'[p].children[j]] =
                IF j = Len(node'[p].children) THEN hi2[p] ELSE {node'[p].keys[j]}
        BY <1>4
    <2> QED
        BY <1>2, <1>3, <2>1 DEF UpperBy
<1> QED
    BY <1>5, <1>6

LEMMA SplitWithin ==
    ASSUME TreeInv, Paired, Ascending, pc # "idle", NEW left, NEW right, NEW promoted, NEW s,
           NEW P, NEW K, NEW C, NEW i, Split(left, right, promoted, s, P, K, C, i),
           NEW lo, NEW hi, LowerBy(lo), UpperBy(hi), KeysWithin(lo, hi),
           NEW lo2, NEW hi2, Rebound(lo, hi, lo2, hi2, P, promoted)
    PROVE  KeysWithin(lo2, hi2)'
<1>1. InTree' = InTree \cup {Right, P} /\ cur \in InTree
    BY Around
<1>2. KeysSplit(left, right, promoted, lo, hi)
    BY <1>1, KeysOfHalves DEF Split
<1>3. /\ lo2[Right] = {promoted} /\ hi2[cur] = {promoted} /\ hi2[Right] = hi[cur]
      /\ \A x \in InTree : lo2[x] = lo[x]
      /\ \A x \in InTree \ {cur} : hi2[x] = hi[x]
      /\ lo2[P] = LowerOf(lo, P) /\ hi2[P] = UpperOf(hi, P)
    BY DEF Rebound
<1>4. ASSUME NEW n \in InTree', NEW e \in 1 .. Len(node'[n].keys)
      PROVE  (\A l \in lo2[n] : l <= node'[n].keys[e]) /\ (\A h \in hi2[n] : node'[n].keys[e] <= h)
    <2>1. CASE n = cur
        <3>1. node'[n].keys = left.keys
            BY <2>1 DEF Split, Divided, Same
        <3> QED
            BY <1>1, <1>2, <1>3, <2>1, <3>1 DEF KeysSplit
    <2>2. CASE n = Right
        <3>1. node'[n].keys = right.keys
            BY <2>2 DEF Split, Divided, Same
        <3> QED
            BY <1>1, <1>2, <1>3, <2>2, <3>1 DEF KeysSplit
    <2>3. CASE n = P
        <3>1. /\ Inserted(node'[P].keys, K, i, promoted)
              /\ Len(K) \in Nat /\ i \in 1 .. Len(K) + 1
            BY DEF Split, Divided
        <3>2. node'[P].keys[e] = promoted \/ \E h \in 1 .. Len(K) : node'[P].keys[e] = K[h]
            <4>1. /\ e \in 1 .. Len(node'[P].keys) /\ node'[P].keys[i] = promoted
                  /\ \A h \in 1 .. Len(K) : h < i => node'[P].keys[h] = K[h]
                  /\ \A h \in 1 .. Len(node'[P].keys) : h < i => h \in 1 .. Len(K)
                  /\ \A h \in 1 .. Len(node'[P].keys) :
                        h > i => h - 1 \in 1 .. Len(K) /\ node'[P].keys[h] = K[h - 1]
                <5>1. Moves(node'[P].keys, K, i, promoted)
                    BY <3>1, InsertedIs
                <5> QED
                    BY <2>3, <5>1 DEF Moves
            <4>2. e < i \/ e = i \/ e > i
                BY <3>1
            <4> QED
                BY <4>1, <4>2
        <3>3. /\ \A h \in 1 .. Len(K) :
                    (\A l \in LowerOf(lo, P) : l <= K[h]) /\ (\A u \in UpperOf(hi, P) : K[h] <= u)
              /\ \A l \in LowerOf(lo, P) : l <= promoted
              /\ \A u \in UpperOf(hi, P) : promoted <= u
            BY PromotedInPlace
        <3> QED
            BY <1>3, <2>3, <3>2, <3>3
    <2>4. CASE n \in InTree \ {cur, P}
        <3>1. node'[n].keys = node[n].keys
            BY <2>4 DEF Split, Divided, Same
        <3> QED
            BY <1>3, <2>4, <3>1 DEF KeysWithin
    <2> QED
        BY <1>1, <2>1, <2>2, <2>3, <2>4
<1> QED
    BY <1>4 DEF KeysWithin

\* The node that n was part of.
Origin(n) == IF n = Right THEN cur ELSE n

LEMMA LeavesAfter ==
    ASSUME TreeInv, Paired, Ascending, pc # "idle", NEW left, NEW right, NEW promoted, NEW s,
           NEW P, NEW K, NEW C, NEW i, Split(left, right, promoted, s, P, K, C, i),
           NEW lo, NEW hi, LowerBy(lo), UpperBy(hi), KeysWithin(lo, hi),
           NEW lo2, NEW hi2, Rebound(lo, hi, lo2, hi2, P, promoted),
           NEW n \in Leaves'
    PROVE  /\ Origin(n) \in Leaves
           /\ \A k \in Key :
                Within(lo2, hi2, n, k) =>
                    /\ Within(lo, hi, Origin(n), k)
                    /\ n = cur => k < promoted
                    /\ n = Right => promoted <= k
           /\ \A e \in 1 .. Len(node'[n].keys) :
                \E f \in 1 .. Len(node[Origin(n)].keys) :
                    node'[n].keys[e] = node[Origin(n)].keys[f]
<1>0. Key \subseteq Int
    BY BPlusTreeAssumption DEF BPlusTreeAssumption
<1>1. /\ InTree' = InTree \cup {Right, P} /\ Right \notin InTree /\ cur \in InTree
      /\ cur # Right
    BY Around
<1>2. KeysSplit(left, right, promoted, lo, hi)
    BY <1>1, KeysOfHalves DEF Split
<1>3. /\ lo2[Right] = {promoted} /\ hi2[cur] = {promoted} /\ hi2[Right] = hi[cur]
      /\ \A x \in InTree : lo2[x] = lo[x]
      /\ \A x \in InTree \ {cur} : hi2[x] = hi[x]
    BY DEF Rebound
<1>4. n \in InTree' /\ node'[n].leaf
    BY DEF Leaves
<1>5. n # P
    BY <1>4 DEF Split, Divided
<1>6. /\ promoted \in Int /\ lo[cur] \subseteq Int /\ hi[cur] \subseteq Int
      /\ \A l \in lo[cur] : l <= promoted
      /\ \A h \in hi[cur] : promoted <= h
    BY <1>0, <1>1, <1>2 DEF KeysSplit, LowerBy, UpperBy
<1>7. HalvedKeys(left, right, promoted, s)
    BY DEF Split, Halved
<1>7a. /\ Len(left.keys) \in Nat /\ Len(right.keys) \in Nat /\ Len(node[cur].keys) \in Nat
    BY <1>1, NodeFields DEF TreeInv, Split, Halved, Node
<1>8. CASE n = cur
    <2>1. node'[n].keys = left.keys /\ Origin(n) = cur /\ node[cur].leaf
        BY <1>1, <1>4, <1>8 DEF Split, Divided, Same, Halved, Origin
    <2>2. ASSUME NEW k \in Key, Within(lo2, hi2, n, k)
          PROVE  Within(lo, hi, cur, k) /\ k < promoted
        <3>1. k < promoted /\ k \in Int /\ \A l \in lo[cur] : l <= k
            BY <1>0, <1>1, <1>3, <1>8, <2>2 DEF Within
        <3>2. \A h \in hi[cur] : k < h
            BY <1>6, <3>1
        <3> QED
            BY <3>1, <3>2 DEF Within
    <2>3. \A e \in 1 .. Len(left.keys) :
            e \in 1 .. Len(node[cur].keys) /\ left.keys[e] = node[cur].keys[e]
        <3>1. \A e \in 1 .. Len(left.keys) : left.keys[e] = node[cur].keys[e]
            BY <1>7 DEF HalvedKeys
        <3>2. Len(left.keys) + 1 <= Len(node[cur].keys)
            BY <1>7 DEF HalvedKeys
        <3>3. \A a, b \in Nat : a + 1 <= b => \A e \in 1 .. a : e \in 1 .. b
            OBVIOUS
        <3> QED
            BY <1>7a, <3>1, <3>2, <3>3
    <2> QED
        BY <1>1, <1>8, <2>1, <2>2, <2>3 DEF Leaves
<1>9. CASE n = Right
    <2>1. node'[n].keys = right.keys /\ Origin(n) = cur /\ node[cur].leaf
        BY <1>1, <1>4, <1>9 DEF Split, Divided, Same, Halved, Origin
    <2>2. ASSUME NEW k \in Key, Within(lo2, hi2, n, k)
          PROVE  Within(lo, hi, cur, k) /\ promoted <= k
        <3>1. promoted <= k /\ k \in Int /\ \A h \in hi[cur] : k < h
            BY <1>0, <1>1, <1>3, <1>9, <2>2 DEF Within
        <3>2. \A l \in lo[cur] : l <= k
            BY <1>6, <3>1
        <3> QED
            BY <3>1, <3>2 DEF Within
    <2>3. \A e \in 1 .. Len(right.keys) :
            s + e \in 1 .. Len(node[cur].keys) /\ right.keys[e] = node[cur].keys[s + e]
        <3>1. \A e \in 1 .. Len(right.keys) : right.keys[e] = node[cur].keys[s + e]
            BY <1>7 DEF HalvedKeys
        <3>2. Len(right.keys) = Len(node[cur].keys) - s /\ s \in Nat
            BY <1>7, <1>7a DEF HalvedKeys
        <3>3. \A a, b, c \in Nat : a = b - c => \A e \in 1 .. a : c + e \in 1 .. b
            OBVIOUS
        <3> QED
            BY <1>7a, <3>1, <3>2, <3>3
    <2> QED
        BY <1>1, <1>9, <2>1, <2>2, <2>3 DEF Leaves
<1>10. CASE n \in InTree \ {cur, P}
    <2>1. node'[n].keys = node[n].keys /\ Origin(n) = n /\ node[n].leaf /\ n # Right
        BY <1>1, <1>4, <1>10 DEF Split, Divided, Same, Origin
    <2>2. \A k \in Key : Within(lo2, hi2, n, k) => Within(lo, hi, n, k)
        BY <1>3, <1>10 DEF Within
    <2> QED
        BY <1>10, <2>1, <2>2 DEF Leaves
<1> QED
    BY <1>1, <1>4, <1>5, <1>8, <1>9, <1>10

LEMMA SplitLed ==
    ASSUME TreeInv, Paired, Ascending, pc # "idle", NEW left, NEW right, NEW promoted, NEW s,
           NEW P, NEW K, NEW C, NEW i, Split(left, right, promoted, s, P, K, C, i),
           NEW lo, NEW hi, LowerBy(lo), UpperBy(hi), KeysWithin(lo, hi),
           Apart(lo, hi), Led(lo, hi),
           NEW lo2, NEW hi2, Rebound(lo, hi, lo2, hi2, P, promoted)
    PROVE  Apart(lo2, hi2)' /\ Led(lo2, hi2)'
<1>0. Key \subseteq Int
    BY BPlusTreeAssumption DEF BPlusTreeAssumption
<1>1. /\ InTree' = InTree \cup {Right, P} /\ Right \notin InTree /\ cur \in InTree
      /\ cur # Right
    BY Around
<1>2. \A n \in Leaves' :
        /\ Origin(n) \in Leaves
        /\ \A k \in Key :
                Within(lo2, hi2, n, k) =>
                    /\ Within(lo, hi, Origin(n), k)
                    /\ n = cur => k < promoted
                    /\ n = Right => promoted <= k
        /\ \A e \in 1 .. Len(node'[n].keys) :
                \E f \in 1 .. Len(node[Origin(n)].keys) :
                    node'[n].keys[e] = node[Origin(n)].keys[f]
    BY LeavesAfter
<1>3. promoted \in Key
    BY DEF Split, Halved, HalvedKeys
<1>4. ASSUME NEW m \in Leaves', NEW n \in Leaves', NEW k \in Key,
             Within(lo2, hi2, m, k), Within(lo2, hi2, n, k)
      PROVE  m = n
    <2>1. Within(lo, hi, Origin(m), k) /\ Within(lo, hi, Origin(n), k)
        BY <1>2, <1>4
    <2>2. Origin(m) = Origin(n)
        BY <1>2, <2>1 DEF Apart
    <2>3. k \in Int /\ promoted \in Int
        BY <1>0, <1>3
    <2>4. ~ (m = cur /\ n = Right) /\ ~ (m = Right /\ n = cur)
        BY <1>2, <1>4, <2>3
    <2> QED
        BY <2>2, <2>4 DEF Origin
<1>5. ASSUME NEW m \in Leaves', NEW n \in Leaves', NEW e \in 1 .. Len(node'[m].keys),
             Within(lo2, hi2, n, node'[m].keys[e])
      PROVE  \E j \in 1 .. Len(node'[n].keys) : node'[n].keys[j] = node'[m].keys[e]
    <2> DEFINE k == node'[m].keys[e]
    <2>1. PICK f \in 1 .. Len(node[Origin(m)].keys) : k = node[Origin(m)].keys[f]
        BY <1>2
    <2>2. k \in Key
        <3>1. Origin(m) \in InTree
            BY <1>2 DEF Leaves
        <3>2. node[Origin(m)].keys \in Seq(Key)
            BY <3>1, NodeFields DEF TreeInv
        <3> QED
            BY <2>1, <3>2
    <2>3. Within(lo, hi, Origin(n), k) /\ (n = cur => k < promoted) /\ (n = Right => promoted <= k)
        BY <1>2, <1>5, <2>2
    <2>4. Origin(m) \in Leaves /\ Origin(n) \in Leaves
        BY <1>2
    <2> HIDE DEF k
    <2>5. PICK g \in 1 .. Len(node[Origin(n)].keys) : node[Origin(n)].keys[g] = k
        BY <2>1, <2>3, <2>4 DEF Led
    <2>6. HalvedKeys(left, right, promoted, s)
        BY DEF Split, Halved
    <2>7. /\ Len(left.keys) \in Nat /\ Len(right.keys) \in Nat /\ Len(node[cur].keys) \in Nat
          /\ \A x \in 1 .. Len(node[cur].keys) : node[cur].keys[x] \in Int
        <3>1. node[cur].keys \in Seq(Key)
            BY <1>1, NodeFields DEF TreeInv
        <3>2. \A x \in 1 .. Len(node[cur].keys) : node[cur].keys[x] \in Key
            BY <3>1
        <3> QED
            <4>1. left \in Node /\ right \in Node
                BY DEF Split, Halved
            <4>2. Len(left.keys) \in Nat /\ Len(right.keys) \in Nat
                BY <4>1 DEF Node
            <4>3. Len(node[cur].keys) \in Nat
                BY <3>1
            <4>4. \A x \in 1 .. Len(node[cur].keys) : node[cur].keys[x] \in Int
                BY <1>0, <3>2
            <4> QED
                BY <4>2, <4>3, <4>4
    <2> DEFINE a == Len(left.keys)
               old == node[cur].keys
    <2>8. /\ a \in Nat /\ Len(old) \in Nat /\ promoted = old[a + 1] /\ a + 1 \in 1 .. Len(old)
          /\ \A x, y \in 1 .. Len(old) : x <= y => old[x] <= old[y]
        BY <1>1, <2>6, <2>7 DEF HalvedKeys, Ascending
    <2>9. \A x \in 1 .. a : left.keys[x] = old[x]
        BY <2>6 DEF HalvedKeys
    <2>10. CASE n = cur
        <3>1. node'[n].keys = left.keys /\ g \in 1 .. Len(old) /\ old[g] = k /\ k < promoted
            BY <1>1, <2>3, <2>5, <2>10 DEF Split, Divided, Same, Origin
        <3> HIDE DEF a, old
        <3>2. ~ a + 1 <= g
            <4> SUFFICES ASSUME a + 1 <= g
                         PROVE  FALSE
                OBVIOUS
            <4>1. promoted <= k
                BY <2>8, <3>1
            <4>2. k \in Int /\ promoted \in Int
                BY <1>0, <1>3, <2>2
            <4> QED
                BY <3>1, <4>1, <4>2
        <3>3. g \in 1 .. a
            BY <2>8, <3>1, <3>2
        <3>4. left.keys[g] = k
            BY <2>9, <3>1, <3>3
        <3> QED
            BY <3>1, <3>3, <3>4 DEF a, k
    <2>11. CASE n = Right
        <3>1. /\ node'[n].keys = right.keys /\ g \in 1 .. Len(old) /\ old[g] = k /\ promoted <= k
              /\ node[cur].leaf
            BY <1>1, <2>3, <2>4, <2>5, <2>11 DEF Split, Divided, Same, Origin, Leaves
        <3>2. s = a /\ Len(right.keys) = Len(old) - a
            BY <2>6, <3>1 DEF HalvedKeys
        <3>3. \A x \in 1 .. Len(right.keys) : right.keys[x] = old[a + x]
            BY <2>6, <3>2 DEF HalvedKeys
        <3>4. PICK q \in Nat : q = Len(right.keys)
            BY <2>7
        <3> HIDE DEF a, old
        <3>5. CASE g <= a
            <4>1. k <= promoted
                BY <2>8, <3>1, <3>5
            <4>2. k = promoted
                BY <1>0, <1>3, <2>2, <3>1, <4>1
            <4>3. 1 \in 1 .. q
                BY <2>8, <3>2, <3>4
            <4> QED
                BY <2>8, <3>1, <3>3, <3>4, <4>2, <4>3 DEF k
        <3>6. CASE g > a
            <4> DEFINE x == g - a
            <4>1. x \in 1 .. q /\ a + x = g
                BY <2>8, <3>1, <3>2, <3>4, <3>6
            <4> HIDE DEF x
            <4>2. right.keys[x] = k
                BY <3>1, <3>3, <3>4, <4>1
            <4> QED
                BY <3>1, <3>4, <4>1, <4>2 DEF k
        <3> QED
            BY <2>8, <3>1, <3>5, <3>6
    <2>12. CASE n \notin {cur, Right}
        <3>1. n \in InTree \ {cur, P}
            BY <1>1, <2>12 DEF Leaves, Split, Divided
        <3>2. node'[n].keys = node[n].keys /\ Origin(n) = n
            BY <2>12, <3>1 DEF Split, Divided, Same, Origin
        <3> QED
            BY <2>5, <3>2 DEF k
    <2> QED
        BY <2>10, <2>11, <2>12
<1>6. Apart(lo2, hi2)'
    BY <1>4 DEF Apart, Within
<1>7. Led(lo2, hi2)'
    BY <1>5 DEF Led, Within
<1> QED
    BY <1>6, <1>7

--------------------------------------------------------------------------------
(* findLeaf *)

\* One step down leads on to where the separators say.
LEMMA ChildLeads ==
    ASSUME TreeInv, root # 0, NEW rank, RankedBy(rank), NEW k \in Key,
           NEW lo, NEW hi, LowerBy(lo), UpperBy(hi), NEW n \in InTree, ~ node[n].leaf
    PROVE  /\ Child(n, k) \in InTree /\ rank[n] = rank[Child(n, k)] + 1
           /\ Within(lo, hi, n, k) => Within(lo, hi, Child(n, k), k)
<1>0. Key \subseteq Int
    BY BPlusTreeAssumption DEF BPlusTreeAssumption
<1> DEFINE keys == node[n].keys
           stops == {j \in DOMAIN keys : k < keys[j]}
           i == StopsAt(keys, stops)
           c == node[n].children[i]
<1>1. /\ keys \in Seq(Key) /\ Len(keys) \in Nat /\ DOMAIN keys = 1 .. Len(keys)
      /\ Len(node[n].children) = Len(keys) + 1
    BY NodeFields DEF TreeInv, Shaped
<1>2. \A j \in 1 .. Len(keys) : keys[j] \in Int
    <2>1. \A j \in 1 .. Len(keys) : keys[j] \in Key
        BY <1>1
    <2> QED
        BY <1>0, <2>1
<1>3. /\ i \in 1 .. Len(keys) + 1
      /\ \A j \in 1 .. i - 1 : j \notin stops
      /\ i <= Len(keys) => i \in stops
    <2> HIDE DEF keys, stops
    <2> QED
        BY <1>1, Stops
<1>4. Child(n, k) = c
    BY DEF Child, Turn
<1>5. i \in 1 .. Len(node[n].children)
    BY <1>1, <1>3
<1>6. /\ i # 1 => i - 1 \in 1 .. Len(keys) /\ ~ k < keys[i - 1]
      /\ i # Len(keys) + 1 => k < keys[i]
    <2> HIDE DEF i
    <2>1. i # 1 => i - 1 \in 1 .. Len(keys) /\ i - 1 \in 1 .. i - 1
        BY <1>1, <1>3
    <2>2. i # 1 => i - 1 \notin stops
        BY <1>3, <2>1
    <2>3. i # Len(keys) + 1 => i \in stops
        BY <1>1, <1>3
    <2> QED
        BY <1>1, <2>1, <2>2, <2>3
<1> HIDE DEF i
<1>7. c \in InTree /\ node[c].parent = n /\ node[root].parent = 0
    BY <1>5 DEF TreeInv, Linked
<1>8. c # root
    BY <1>7 DEF InTree
<1>9. rank[n] = rank[c] + 1
    BY <1>7, <1>8 DEF RankedBy
<1>10. lo[c] = IF i = 1 THEN lo[n] ELSE {keys[i - 1]}
    BY <1>5 DEF LowerBy
<1>11. hi[c] = IF i = Len(keys) + 1 THEN hi[n] ELSE {keys[i]}
    BY <1>1, <1>5 DEF UpperBy
<1>12. ASSUME Within(lo, hi, n, k)
       PROVE  Within(lo, hi, c, k)
    <2> HIDE DEF keys, c
    <2>1. ASSUME NEW l \in lo[c]
          PROVE  l <= k
        <3>1. CASE i = 1
            BY <1>10, <1>12, <3>1 DEF Within
        <3>2. CASE i # 1
            <4>1. l = keys[i - 1] /\ l \in Int /\ k \in Int
                BY <1>0, <1>2, <1>6, <1>10, <3>2
            <4> QED
                BY <1>6, <3>2, <4>1
        <3> QED
            BY <3>1, <3>2
    <2>2. ASSUME NEW h \in hi[c]
          PROVE  k < h
        <3>1. CASE i = Len(keys) + 1
            BY <1>11, <1>12, <3>1 DEF Within
        <3>2. CASE i # Len(keys) + 1
            BY <1>6, <1>11, <3>2
        <3> QED
            BY <3>1, <3>2
    <2> QED
        BY <2>1, <2>2 DEF Within
<1> QED
    BY <1>4, <1>7, <1>9, <1>12

\* findLeaf ends in the leaf that the separators lead to.
LEMMA FoundLeaf ==
    ASSUME TreeInv, root # 0, NEW k \in Key, NEW lo, NEW hi, LowerBy(lo), UpperBy(hi)
    PROVE  FindLeaf(k) \in Leaves /\ Within(lo, hi, FindLeaf(k), k)
<1>1. PICK rank : RankedBy(rank)
    BY DEF TreeInv, Ranked
<1>2. /\ \A n \in InTree : rank[n] \in Nat /\ (node[n].leaf <=> rank[n] = 0)
      /\ \A n \in InTree : rank[n] <= rank[root]
      /\ InTree = 1 .. Len(node) /\ root \in InTree
    BY <1>1 DEF RankedBy, InTree, TreeInv, TypeOK
<1>3. \A n \in InTree : ~ node[n].leaf =>
            /\ Child(n, k) \in InTree /\ rank[n] = rank[Child(n, k)] + 1
            /\ Within(lo, hi, n, k) => Within(lo, hi, Child(n, k), k)
    BY <1>1, ChildLeads
<1> DEFINE Next1(f, n) == IF node[n].leaf THEN n ELSE f[Child(n, k)]
           Upto(f, r) == /\ f \in [InTree -> InTree]
                         /\ \A n \in InTree : rank[n] <= r => f[n] = Next1(f, n)
           None == {r \in Nat : ~ \E f : Upto(f, r)}
<1>4. None = {}
    <2> SUFFICES ASSUME None # {}
                 PROVE  FALSE
        OBVIOUS
    <2>1. PICK r \in None : \A x \in None : r <= x
        <3>1. None \in SUBSET Nat
            OBVIOUS
        <3> HIDE DEF None
        <3> QED
            BY <3>1, LeastNat
    <2>2. r \in Nat /\ ~ \E f : Upto(f, r)
        BY <2>1
    <2>3. CASE r = 0
        <3> DEFINE f == [n \in InTree |-> n]
        <3>1. f \in [InTree -> InTree]
            OBVIOUS
        <3>2. \A n \in InTree : rank[n] <= r => node[n].leaf /\ f[n] = n
            BY <1>2, <2>3
        <3>3. Upto(f, r)
            BY <3>1, <3>2
        <3> QED
            BY <2>2, <3>3
    <2>4. CASE r # 0
        <3>1. r - 1 \in Nat /\ ~ r <= r - 1
            BY <2>2, <2>4
        <3>2. r - 1 \notin None
            BY <2>1, <3>1
        <3>3. PICK f : Upto(f, r - 1)
            BY <3>1, <3>2
        <3> DEFINE g == [n \in InTree |-> Next1(f, n)]
        <3>4. g \in [InTree -> InTree]
            BY <1>3, <3>3
        <3>5. ASSUME NEW n \in InTree, rank[n] <= r
              PROVE  g[n] = Next1(g, n)
            <4>1. CASE node[n].leaf
                BY <4>1
            <4>2. CASE ~ node[n].leaf
                <5>1. Child(n, k) \in InTree /\ rank[Child(n, k)] <= r - 1
                    BY <1>2, <1>3, <2>2, <3>5, <4>2
                <5>2. f[Child(n, k)] = Next1(f, Child(n, k))
                    BY <3>3, <5>1
                <5>3. g[Child(n, k)] = Next1(f, Child(n, k)) /\ g[n] = f[Child(n, k)]
                    BY <4>2, <5>1
                <5> QED
                    BY <4>2, <5>2, <5>3
            <4> QED
                BY <4>1, <4>2
        <3> HIDE DEF g
        <3>6. Upto(g, r)
            BY <3>4, <3>5
        <3> QED
            BY <2>2, <3>6
    <2> QED
        BY <2>3, <2>4
<1>5. \E f : f = [n \in 1 .. Len(node) |-> Next1(f, n)]
    <2>1. rank[root] \in Nat
        BY <1>2
    <2>2. PICK f : Upto(f, rank[root])
        BY <1>4, <2>1
    <2>3. f \in [InTree -> InTree] /\ \A n \in InTree : f[n] = Next1(f, n)
        BY <1>2, <2>2
    <2>4. f = [n \in InTree |-> f[n]]
        BY <2>3
    <2>5. f = [n \in InTree |-> Next1(f, n)]
        BY <2>3, <2>4
    <2> QED
        BY <1>2, <2>5
<1>6. PICK g : g = [n \in 1 .. Len(node) |-> Next1(g, n)] /\ FindLeaf(k) = g[root]
    BY <1>5 DEF FindLeaf
<1> DEFINE Good(n) == g[n] \in Leaves /\ (Within(lo, hi, n, k) => Within(lo, hi, g[n], k))
           Bad == {rank[n] : n \in {m \in InTree : ~ Good(m)}}
<1>7. \A n \in InTree : g[n] = Next1(g, n)
    BY <1>2, <1>6
<1>8. Bad = {}
    <2> SUFFICES ASSUME Bad # {}
                 PROVE  FALSE
        OBVIOUS
    <2>1. PICK r \in Bad : \A x \in Bad : r <= x
        <3>1. Bad \in SUBSET Nat
            BY <1>2
        <3> HIDE DEF Bad
        <3> QED
            BY <3>1, LeastNat
    <2>2. PICK n \in InTree : ~ Good(n) /\ r = rank[n]
        BY <2>1
    <2>3. ~ node[n].leaf
        <3> SUFFICES ASSUME node[n].leaf
                     PROVE  FALSE
            OBVIOUS
        <3>1. g[n] = n /\ n \in Leaves
            BY <1>7 DEF Leaves
        <3> QED
            BY <2>2, <3>1
    <2> DEFINE c == Child(n, k)
    <2>4. /\ c \in InTree /\ rank[n] = rank[c] + 1 /\ g[n] = g[c]
          /\ Within(lo, hi, n, k) => Within(lo, hi, c, k)
        BY <1>3, <1>7, <2>3
    <2> HIDE DEF c
    <2>5. Good(c)
        <3>1. rank[c] \in Nat /\ ~ rank[n] <= rank[c]
            BY <1>2, <2>4
        <3>2. rank[c] \notin Bad
            BY <2>1, <2>2, <3>1
        <3> QED
            BY <2>4, <3>2
    <2> QED
        BY <2>2, <2>4, <2>5
<1>9. Good(root)
    BY <1>2, <1>8
<1>10. Within(lo, hi, root, k)
    BY DEF Within, LowerBy, UpperBy
<1> QED
    BY <1>6, <1>9, <1>10

--------------------------------------------------------------------------------
(* insert, before it splits *)

\* m is n with r in its place.
Placed(m, n, r, i) ==
    /\ m \in Node /\ m.leaf = n.leaf /\ m.children = n.children /\ m.parent = n.parent
    /\ i \in 1 .. Len(n.keys) + 1
    /\ Inserted(m.keys, n.keys, i, r.key) /\ Inserted(m.records, n.records, i, r)
    /\ \A j \in 1 .. Len(n.keys) : j < i => ~ r.key <= n.keys[j]
    /\ i <= Len(n.keys) => r.key <= n.keys[i]

LEMMA PutIs ==
    ASSUME NEW n \in Node, Len(n.records) = Len(n.keys), NEW r \in Record
    PROVE  \E i : Placed(PutInLeaf(n, r), n, r, i)
<1> DEFINE stops == {j \in DOMAIN n.keys : r.key <= n.keys[j]}
           i == StopsAt(n.keys, stops)
<1>1. /\ n.keys \in Seq(Key) /\ n.records \in Seq(Record) /\ n.children \in Seq(Nat)
      /\ Len(n.keys) \in Nat /\ DOMAIN n.keys = 1 .. Len(n.keys) /\ r.key \in Key
    BY DEF Node, Record
<1>2. /\ i \in 1 .. Len(n.keys) + 1
      /\ \A j \in 1 .. i - 1 : j \notin stops
      /\ i <= Len(n.keys) => i \in stops
    <2> HIDE DEF stops
    <2> QED
        BY <1>1, Stops
<1>3. PutInLeaf(n, r) = [n EXCEPT !.keys = InsertAt(@, i, r.key), !.records = InsertAt(@, i, r)]
    BY DEF PutInLeaf
<1>4. \A j \in 1 .. Len(n.keys) : j < i => ~ r.key <= n.keys[j]
    <2> TAKE j \in 1 .. Len(n.keys)
    <2>1. j < i => j \in 1 .. i - 1
        BY <1>1, <1>2
    <2> QED
        BY <1>1, <1>2, <2>1
<1>5. i <= Len(n.keys) => r.key <= n.keys[i]
    BY <1>2
<1> HIDE DEF i
<1>6. InsertAt(n.keys, i, r.key) \in Seq(Key) /\ Inserted(InsertAt(n.keys, i, r.key), n.keys, i, r.key)
    BY <1>1, <1>2, Insertion
<1>7. InsertAt(n.records, i, r) \in Seq(Record) /\ Inserted(InsertAt(n.records, i, r), n.records, i, r)
    <2>1. i \in 1 .. Len(n.records) + 1
        BY <1>2
    <2> QED
        BY <1>1, <2>1, Insertion
<1> DEFINE m == PutInLeaf(n, r)
<1>8. /\ m \in Node /\ m.leaf = n.leaf /\ m.children = n.children /\ m.parent = n.parent
      /\ m.keys = InsertAt(n.keys, i, r.key) /\ m.records = InsertAt(n.records, i, r)
    BY <1>3, <1>6, <1>7 DEF Node
<1> HIDE DEF m
<1>9. Placed(m, n, r, i)
    BY <1>2, <1>4, <1>5, <1>6, <1>7, <1>8 DEF Placed
<1> QED
    BY <1>9 DEF m

\* A row of key k goes into the leaf l.
Put(l, k, i) ==
    /\ l \in Leaves
    /\ k \in Key /\ NewRecord(k) \in Record
    /\ node' \in Seq(Node) /\ InTree' = InTree /\ root' = root
    /\ Placed(node'[l], node[l], NewRecord(k), i)
    /\ \A x \in InTree \ {l} : node'[x] = node[x]
    /\ count' = [count EXCEPT ![k] = @ + 1] /\ rows' = rows + 1
    /\ count[k] + 1 <= MaxRows /\ rows + 1 <= MaxRows
    /\ pc = "idle" /\ cur' = l
    /\ pc' = IF Len(node'[l].keys) > Order THEN "splitLeaf" ELSE "idle"

LEMMA InsertPuts ==
    ASSUME TreeHolds, NEW k \in Key, Insert(k), NEW lo, NEW hi, LowerBy(lo), UpperBy(hi)
    PROVE  \E l, i : Put(l, k, i) /\ Within(lo, hi, l, k)
<1> DEFINE l == FindLeaf(k)
           r == NewRecord(k)
<1>1. /\ pc = "idle" /\ root # 0 /\ rows < MaxRows /\ rows' = rows + 1
      /\ count' = [count EXCEPT ![k] = @ + 1]
      /\ node' = [node EXCEPT ![l] = PutInLeaf(node[l], r)]
      /\ cur' = l /\ root' = root
      /\ pc' = IF Len(node[l].keys) + 1 > Order THEN "splitLeaf" ELSE "idle"
    BY DEF Insert, Count
<1>2. l \in Leaves /\ Within(lo, hi, l, k)
    BY <1>1, FoundLeaf DEF TreeHolds
<1> HIDE DEF l
<1>3. l \in InTree /\ node[l].leaf
    BY <1>2 DEF Leaves
<1>4. /\ node \in Seq(Node) /\ InTree = 1 .. Len(node) /\ node[l] \in Node
      /\ count \in [Key -> 0 .. MaxRows] /\ rows \in 0 .. MaxRows /\ MaxRows \in Nat
    BY <1>3, BPlusTreeAssumption DEF TreeHolds, TreeInv, TypeOK, InTree, BPlusTreeAssumption
<1>5. count[k] \in Nat /\ count[k] + 1 <= MaxRows /\ rows + 1 <= MaxRows
    <2>1. count[k] \in Nat /\ count[k] <= rows
        BY <1>4 DEF TreeHolds, Counted
    <2> QED
        BY <1>1, <1>4, <2>1
<1>6. r \in Record
    BY <1>4, <1>5 DEF NewRecord, Record
<1>7. Len(node[l].records) = Len(node[l].keys)
    BY <1>3 DEF TreeHolds, Paired
<1>8. PICK i : Placed(PutInLeaf(node[l], r), node[l], r, i)
    BY <1>4, <1>6, <1>7, PutIs
<1> HIDE DEF r
<1>9. /\ node' \in Seq(Node) /\ InTree' = InTree /\ node'[l] = PutInLeaf(node[l], r)
      /\ \A x \in InTree \ {l} : node'[x] = node[x]
    <2>1. PutInLeaf(node[l], r) \in Node
        BY <1>8 DEF Placed
    <2> QED
        BY <1>1, <1>3, <1>4, <2>1 DEF InTree
<1>10. Len(node'[l].keys) = Len(node[l].keys) + 1
    BY <1>8, <1>9 DEF Placed, Inserted
<1>11. Put(l, k, i)
    BY <1>1, <1>2, <1>5, <1>6, <1>8, <1>9, <1>10 DEF Put, r
<1> QED
    BY <1>2, <1>11

LEMMA PutTree ==
    ASSUME TreeHolds, NEW l, NEW k, NEW i, Put(l, k, i)
    PROVE  TreeInv'
<1>0. Order \in Nat /\ Order >= 2 /\ MaxRows \in Nat
    BY BPlusTreeAssumption DEF BPlusTreeAssumption
<1>1. /\ InTree' = InTree /\ root' = root /\ cur' = l /\ pc = "idle" /\ l \in InTree /\ node[l].leaf
      /\ pc' = IF Len(node'[l].keys) > Order THEN "splitLeaf" ELSE "idle"
      /\ node' \in Seq(Node) /\ k \in Key
    BY DEF Put, Leaves
<1>2. \A x \in InTree :
        /\ node'[x].leaf = node[x].leaf /\ node'[x].children = node[x].children
        /\ node'[x].parent = node[x].parent
    BY DEF Put, Placed
<1>3. \A x \in InTree \ {l} : node'[x].keys = node[x].keys
    BY DEF Put
<1>4. Len(node'[l].keys) = Len(node[l].keys) + 1 /\ Len(node[l].keys) \in Nat
    BY <1>1, NodeFields DEF Put, Placed, Inserted, TreeHolds, TreeInv
<1>5. TypeOK'
    <2>1. /\ count \in [Key -> 0 .. MaxRows] /\ rows \in 0 .. MaxRows
          /\ count' = [count EXCEPT ![k] = @ + 1] /\ rows' = rows + 1
          /\ count[k] + 1 <= MaxRows /\ rows + 1 <= MaxRows
        BY DEF Put, TreeHolds, TreeInv, TypeOK
    <2>2. count' \in [Key -> 0 .. MaxRows] /\ rows' \in 0 .. MaxRows
        BY <1>0, <1>1, <2>1
    <2>3. cur' \in 0 .. Len(node') /\ pc' \in {"idle", "splitLeaf", "splitInternal"}
        BY <1>1 DEF InTree
    <2>4. root' \in 0 .. Len(node')
        <3>1. root = 0 \/ root \in InTree
            BY DEF TreeHolds, TreeInv, TypeOK, InTree
        <3>2. Len(node') \in Nat
            BY <1>1
        <3> QED
            BY <1>1, <3>1, <3>2 DEF InTree
    <2> QED
        BY <1>1, <2>2, <2>3, <2>4 DEF TypeOK
<1>6. Linked'
    <2>1. root # 0
        BY <1>1 DEF TreeHolds, TreeInv, Linked, InTree
    <2>2. /\ \A p \in InTree : \A j \in 1 .. Len(node[p].children) :
                node[p].children[j] \in InTree /\ node[node[p].children[j]].parent = p
          /\ \A n \in InTree \ {root} :
                /\ node[n].parent \in InTree
                /\ \E j \in 1 .. Len(node[node[n].parent].children) :
                        node[node[n].parent].children[j] = n
          /\ \A p \in InTree : \A j, h \in 1 .. Len(node[p].children) :
                node[p].children[j] = node[p].children[h] => j = h
          /\ node[root].parent = 0
        BY <2>1 DEF TreeHolds, TreeInv, Linked
    <2>3. root \in InTree
        BY <2>1 DEF TreeHolds, TreeInv, TypeOK, InTree
    <2>4. \A p \in InTree : \A j \in 1 .. Len(node'[p].children) :
                node'[p].children[j] \in InTree /\ node'[node'[p].children[j]].parent = p
        BY <1>2, <2>2
    <2>5. \A n \in InTree \ {root} :
                /\ node'[n].parent \in InTree
                /\ \E j \in 1 .. Len(node'[node'[n].parent].children) :
                        node'[node'[n].parent].children[j] = n
        BY <1>2, <2>2
    <2>6. \A p \in InTree : \A j, h \in 1 .. Len(node'[p].children) :
                node'[p].children[j] = node'[p].children[h] => j = h
        BY <1>2, <2>2
    <2> QED
        BY <1>1, <1>2, <2>1, <2>2, <2>3, <2>4, <2>5, <2>6 DEF Linked
<1>7. Shaped'
    <2>1. \A x \in InTree :
            Len(node'[x].children) = IF node'[x].leaf THEN 0 ELSE Len(node'[x].keys) + 1
        BY <1>1, <1>2, <1>3 DEF TreeHolds, TreeInv, Shaped
    <2> QED
        BY <1>1, <2>1 DEF Shaped
<1>8. Sized'
    <2>1. \A x \in InTree :
            /\ Len(node[x].keys) <= Order /\ Len(node[x].keys) \in Nat
            /\ x # root => Len(node[x].keys) >= Order \div 2
        <3> TAKE x \in InTree
        <3>1. Len(node[x].keys) \in Nat
            BY NodeFields DEF TreeHolds, TreeInv
        <3>2. ~ Len(node[x].keys) > Order /\ (x # root => Len(node[x].keys) >= Order \div 2)
            BY <1>1 DEF TreeHolds, TreeInv, Sized
        <3> QED
            BY <1>0, <3>1, <3>2
    <2>2. \A x \in InTree \ {l} : ~ Len(node[x].keys) > Order
        BY <1>0, <2>1
    <2>3. /\ Len(node'[l].keys) = Order + 1 \/ Len(node'[l].keys) <= Order
          /\ l # root => Len(node'[l].keys) >= Order \div 2
        BY <1>0, <1>1, <1>4, <2>1
    <2>4. \A x \in InTree :
            /\ Len(node'[x].keys) = Order + 1 \/ Len(node'[x].keys) <= Order
            /\ Len(node'[x].keys) > Order => pc' # "idle" /\ x = cur'
            /\ x # root' => Len(node'[x].keys) >= Order \div 2
        <3> TAKE x \in InTree
        <3>1. CASE x = l
            BY <1>1, <2>3, <3>1
        <3>2. CASE x # l
            BY <1>1, <1>3, <2>1, <2>2, <3>2
        <3> QED
            BY <3>1, <3>2
    <2>5. pc' # "idle" =>
            /\ cur' \in InTree /\ Len(node'[cur'].keys) > Order
            /\ node'[cur'].leaf <=> pc' = "splitLeaf"
        BY <1>1, <1>2
    <2> QED
        BY <1>1, <2>4, <2>5 DEF Sized
<1>9. Ranked'
    <2>1. CASE root = 0
        BY <1>1, <2>1 DEF Ranked
    <2>2. CASE root # 0
        <3>1. PICK rank : RankedBy(rank)
            BY <2>2 DEF TreeHolds, TreeInv, Ranked
        <3>2. /\ rank \in [InTree' -> Nat]
              /\ \A n \in InTree' : rank[n] <= rank[root'] /\ (node'[n].leaf <=> rank[n] = 0)
              /\ \A n \in InTree' \ {root'} : rank[node'[n].parent] = rank[n] + 1
            BY <1>1, <1>2, <3>1 DEF RankedBy
        <3> QED
            BY <3>2 DEF Ranked, RankedBy
    <2> QED
        BY <2>1, <2>2
<1> QED
    BY <1>5, <1>6, <1>7, <1>8, <1>9 DEF TreeInv

LEMMA PutRows ==
    ASSUME TreeHolds, NEW l, NEW k, NEW i, Put(l, k, i)
    PROVE  Paired' /\ Once' /\ Counted'
<1> DEFINE r == NewRecord(k)
           old == node[l].records
           new == node'[l].records
<1>1. /\ InTree' = InTree /\ l \in InTree /\ node[l].leaf /\ node'[l].leaf /\ k \in Key
      /\ \A x \in InTree \ {l} : node'[x] = node[x]
      /\ count' = [count EXCEPT ![k] = @ + 1] /\ rows' = rows + 1
    BY DEF Put, Placed, Leaves
<1>2. r = [key |-> k, nth |-> count[k] + 1] /\ r.key = k
    BY DEF NewRecord
<1>3. /\ Len(old) = Len(node[l].keys) /\ Len(old) \in Nat
      /\ \A j \in 1 .. Len(old) : old[j].key = node[l].keys[j]
    BY <1>1, NodeFields DEF TreeHolds, TreeInv, Paired
<1>4. /\ i \in 1 .. Len(old) + 1
      /\ Inserted(node'[l].keys, node[l].keys, i, k) /\ Inserted(new, old, i, r)
    BY <1>2, <1>3 DEF Put, Placed
<1> HIDE DEF r, new, old
<1>5. /\ Len(new) = Len(old) + 1 /\ i \in 1 .. Len(new) /\ new[i] = r
      /\ \A j \in 1 .. Len(old) : j < i => j \in 1 .. Len(new) /\ new[j] = old[j]
      /\ \A j \in 1 .. Len(old) : j >= i => j + 1 \in 1 .. Len(new) /\ new[j + 1] = old[j]
      /\ \A h \in 1 .. Len(new) : h < i => h \in 1 .. Len(old)
      /\ \A h \in 1 .. Len(new) : h > i => h - 1 \in 1 .. Len(old) /\ new[h] = old[h - 1]
    <2>1. Len(old) \in Nat /\ i \in 1 .. Len(old) + 1 /\ Inserted(new, old, i, r)
        BY <1>3, <1>4
    <2>2. Moves(new, old, i, r)
        BY <2>1, InsertedIs
    <2> QED
        BY <2>2 DEF Moves
<1>6. /\ \A j \in 1 .. Len(old) : \E h \in 1 .. Len(new) : new[h] = old[j]
      /\ \A h \in 1 .. Len(new) : new[h] = r \/ \E j \in 1 .. Len(old) : new[h] = old[j]
    <2>1. \A j \in 1 .. Len(old) : j < i \/ j >= i
        BY <1>4
    <2>2. \A h \in 1 .. Len(new) : h < i \/ h = i \/ h > i
        BY <1>4
    <2> QED
        BY <1>5, <2>1, <2>2
<1>7. Paired'
    <2>1. ASSUME NEW h \in 1 .. Len(new)
          PROVE  new[h].key = node'[l].keys[h]
        <3>1. h \in 1 .. Len(old) + 1 /\ (h < i => h \in 1 .. Len(old)) /\ (h > i => h - 1 \in 1 .. Len(old))
            BY <1>5
        <3>2. new[h] = IF h < i THEN old[h] ELSE IF h = i THEN r ELSE old[h - 1]
            BY <1>4, <3>1 DEF Inserted
        <3>3. node'[l].keys[h] =
                IF h < i THEN node[l].keys[h] ELSE IF h = i THEN k ELSE node[l].keys[h - 1]
            BY <1>3, <1>4, <3>1 DEF Inserted
        <3>4. h < i \/ h = i \/ h > i
            BY <1>4
        <3> QED
            BY <1>2, <1>3, <3>1, <3>2, <3>3, <3>4
    <2>2. Len(new) = Len(node'[l].keys)
        BY <1>3, <1>4 DEF Inserted
    <2> SUFFICES ASSUME NEW n \in InTree
                 PROVE  /\ Len(node'[n].records) = IF node'[n].leaf THEN Len(node'[n].keys) ELSE 0
                        /\ \A h \in 1 .. Len(node'[n].records) :
                                node'[n].records[h].key = node'[n].keys[h]
        BY <1>1 DEF Paired
    <2>3. CASE n = l
        BY <1>1, <2>1, <2>2, <2>3 DEF new
    <2>4. CASE n # l
        BY <1>1, <2>4 DEF TreeHolds, Paired
    <2> QED
        BY <2>3, <2>4
<1>8. /\ count \in [Key -> 0 .. MaxRows] /\ \A c \in Key : count[c] \in Nat
      /\ rows \in Nat /\ \A c \in Key : count[c] <= rows
    BY DEF TreeHolds, TreeInv, TypeOK, Counted
<1>9. /\ \A c \in Key \ {k} : count'[c] = count[c]
      /\ count'[k] = count[k] + 1
    BY <1>1, <1>8
<1>10. Counted'
    <2> SUFFICES ASSUME NEW c \in Key
                 PROVE  count'[c] <= rows'
        BY DEF Counted
    <2> QED
        BY <1>1, <1>8, <1>9
<1>11. /\ \A c \in Key : \A e \in 1 .. count[c] :
            \E n \in InTree : \E j \in 1 .. Len(node[n].records) :
                node[n].records[j] = [key |-> c, nth |-> e]
       /\ \A n \in InTree : \A j \in 1 .. Len(node[n].records) :
            node[n].records[j].nth <= count[node[n].records[j].key]
       /\ \A m, n \in InTree :
            \A e \in 1 .. Len(node[m].records) : \A j \in 1 .. Len(node[n].records) :
                node[m].records[e] = node[n].records[j] => m = n /\ e = j
    BY DEF TreeHolds, Once
<1>12. ASSUME NEW n \in InTree, NEW j \in 1 .. Len(node[n].records)
       PROVE  /\ node[n].records[j].key \in Key /\ node[n].records[j].nth \in Nat
              /\ node[n].records[j] # r
              /\ node[n].records[j].nth <= count'[node[n].records[j].key]
    <2>1. node[n].records[j] \in Record
        <3>1. node[n].records \in Seq(Record)
            BY NodeFields DEF TreeHolds, TreeInv
        <3> QED
            BY <3>1
    <2>2. node[n].records[j].key \in Key /\ node[n].records[j].nth \in Nat
        BY <2>1 DEF Record
    <2>3. node[n].records[j].nth <= count[node[n].records[j].key]
        BY <1>11
    <2>4. node[n].records[j] # r
        <3> SUFFICES ASSUME node[n].records[j] = r
                     PROVE  FALSE
            OBVIOUS
        <3>1. count[k] + 1 <= count[k]
            BY <1>2, <2>3
        <3> QED
            BY <1>1, <1>8, <3>1
    <2>5. node[n].records[j].nth <= count'[node[n].records[j].key]
        <3>1. CASE node[n].records[j].key = k
            <4>1. node[n].records[j].nth <= count[k] /\ count[k] \in Nat
                BY <1>1, <1>8, <2>3, <3>1
            <4> QED
                BY <1>9, <2>2, <3>1, <4>1
        <3>2. CASE node[n].records[j].key # k
            BY <1>9, <2>2, <2>3, <3>2
        <3> QED
            BY <3>1, <3>2
    <2> QED
        BY <2>2, <2>4, <2>5
<1>13. ASSUME NEW n \in InTree', NEW h \in 1 .. Len(node'[n].records)
       PROVE  \/ node'[n].records[h] = r /\ n = l
              \/ \E j \in 1 .. Len(node[n].records) : node'[n].records[h] = node[n].records[j]
    <2>1. CASE n = l
        BY <1>6, <2>1 DEF new, old
    <2>2. CASE n # l
        <3>1. node'[n] = node[n]
            BY <1>1, <2>2
        <3> QED
            BY <3>1
    <2> QED
        BY <2>1, <2>2
<1>14. ASSUME NEW c \in Key, NEW e \in 1 .. count'[c]
       PROVE  \E n \in InTree' : \E j \in 1 .. Len(node'[n].records) :
                    node'[n].records[j] = [key |-> c, nth |-> e]
    <2>1. CASE c = k /\ e = count[k] + 1
        BY <1>1, <1>2, <1>5, <2>1 DEF new
    <2>2. CASE ~ (c = k /\ e = count[k] + 1)
        <3>1. e \in 1 .. count[c]
            <4>1. CASE c = k
                BY <1>8, <1>9, <2>2, <4>1
            <4>2. CASE c # k
                BY <1>9, <4>2
            <4> QED
                BY <4>1, <4>2
        <3>2. PICK n \in InTree : \E j \in 1 .. Len(node[n].records) :
                    node[n].records[j] = [key |-> c, nth |-> e]
            BY <1>11, <3>1
        <3>3. CASE n = l
            <4>1. PICK j \in 1 .. Len(old) : old[j] = [key |-> c, nth |-> e]
                BY <3>2, <3>3 DEF old
            <4>2. PICK h \in 1 .. Len(new) : new[h] = [key |-> c, nth |-> e]
                BY <1>6, <4>1
            <4> QED
                BY <1>1, <4>2 DEF new
        <3>4. CASE n # l
            BY <1>1, <3>2, <3>4
        <3> QED
            BY <3>3, <3>4
    <2> QED
        BY <2>1, <2>2
<1>15. ASSUME NEW n \in InTree', NEW h \in 1 .. Len(node'[n].records)
       PROVE  node'[n].records[h].nth <= count'[node'[n].records[h].key]
    <2>1. CASE node'[n].records[h] = r
        <3>1. node'[n].records[h].nth = count[k] + 1 /\ node'[n].records[h].key = k
            BY <1>2, <2>1
        <3> QED
            BY <1>1, <1>8, <1>9, <3>1
    <2>2. CASE \E j \in 1 .. Len(node[n].records) : node'[n].records[h] = node[n].records[j]
        BY <1>1, <1>12, <2>2
    <2> QED
        BY <1>13, <2>1, <2>2
<1>16. Distinct(new)
    <2>1. Distinct(old) /\ \A j \in 1 .. Len(old) : old[j] # r
        BY <1>1, <1>11, <1>12 DEF Distinct, old
    <2> QED
        BY <1>3, <1>4, <2>1, InsertedDistinct
<1>17. ASSUME NEW m \in InTree', NEW n \in InTree',
              NEW e \in 1 .. Len(node'[m].records), NEW j \in 1 .. Len(node'[n].records),
              node'[m].records[e] = node'[n].records[j]
       PROVE  m = n /\ e = j
    <2>1. CASE m = l /\ n = l
        BY <1>16, <1>17, <2>1 DEF Distinct, new
    <2>2. CASE m # l /\ n # l
        <3>1. node'[m] = node[m] /\ node'[n] = node[n] /\ m \in InTree /\ n \in InTree
            BY <1>1, <2>2
        <3>2. /\ e \in 1 .. Len(node[m].records) /\ j \in 1 .. Len(node[n].records)
              /\ node[m].records[e] = node[n].records[j]
            BY <1>17, <3>1
        <3> QED
            BY <1>11, <3>1, <3>2
    <2>3. CASE m = l /\ n # l
        <3>1. node'[n].records = node[n].records /\ n \in InTree
            BY <1>1, <2>3
        <3>2. node[n].records[j] # r
            BY <1>12, <3>1
        <3>3. PICK f \in 1 .. Len(node[m].records) : node'[m].records[e] = node[m].records[f]
            BY <1>13, <1>17, <3>1, <3>2
        <3>4. m = n
            BY <1>1, <1>11, <1>17, <3>1, <3>3
        <3> QED
            BY <2>3, <3>4
    <2>4. CASE m # l /\ n = l
        <3>1. node'[m].records = node[m].records /\ m \in InTree
            BY <1>1, <2>4
        <3>2. node[m].records[e] # r
            BY <1>12, <3>1
        <3>3. PICK f \in 1 .. Len(node[n].records) : node'[n].records[j] = node[n].records[f]
            BY <1>13, <1>17, <3>1, <3>2
        <3>4. m = n
            BY <1>1, <1>11, <1>17, <3>1, <3>3
        <3> QED
            BY <2>4, <3>4
    <2> QED
        BY <2>1, <2>2, <2>3, <2>4
<1>18. Once'
    BY <1>14, <1>15, <1>17 DEF Once
<1> QED
    BY <1>7, <1>10, <1>18

LEMMA PutOrder ==
    ASSUME TreeHolds, NEW l, NEW k, NEW i, Put(l, k, i),
           NEW lo, NEW hi, LowerBy(lo), UpperBy(hi), KeysWithin(lo, hi), Apart(lo, hi), Led(lo, hi),
           Within(lo, hi, l, k)
    PROVE  Ascending' /\ Bounded'
<1> DEFINE old == node[l].keys
           new == node'[l].keys
<1>0. Key \subseteq Int
    BY BPlusTreeAssumption DEF BPlusTreeAssumption
<1>1. /\ InTree' = InTree /\ root' = root /\ l \in Leaves /\ l \in InTree /\ node[l].leaf /\ k \in Key
      /\ k \in Int
      /\ \A x \in InTree \ {l} : node'[x] = node[x]
    BY <1>0 DEF Put, Leaves
<1>2. \A x \in InTree : node'[x].leaf = node[x].leaf /\ node'[x].children = node[x].children
    BY DEF Put, Placed
<1>3. /\ old \in Seq(Key) /\ Len(old) \in Nat /\ \A j \in 1 .. Len(old) : old[j] \in Int
    <2>1. old \in Seq(Key) /\ Len(old) \in Nat
        BY <1>1, NodeFields DEF TreeHolds, TreeInv
    <2>2. \A j \in 1 .. Len(old) : old[j] \in Key
        BY <2>1
    <2> QED
        BY <1>0, <2>1, <2>2
<1>4. old \in Seq(Int)
    <2>1. old \in [1 .. Len(old) -> Int]
        BY <1>3
    <2> QED
        BY <1>3, <2>1
<1>5. /\ i \in 1 .. Len(old) + 1 /\ Inserted(new, old, i, k)
      /\ \A j \in 1 .. Len(old) : j < i => ~ k <= old[j]
      /\ i <= Len(old) => k <= old[i]
    BY DEF Put, Placed, NewRecord
<1>6. Sorted(old)
    BY <1>1 DEF TreeHolds, Ascending, Sorted
<1> HIDE DEF old, new
<1>7. Sorted(new)
    <2>1. \A j \in 1 .. Len(old) : j < i => old[j] <= k
        BY <1>1, <1>3, <1>5
    <2>2. \A j \in 1 .. Len(old) : j >= i => k <= old[j]
        <3> SUFFICES ASSUME NEW j \in 1 .. Len(old), j >= i
                     PROVE  k <= old[j]
            OBVIOUS
        <3>1. i \in 1 .. Len(old) /\ i <= Len(old) /\ i <= j
            BY <1>3, <1>5
        <3>2. k <= old[i] /\ old[i] <= old[j]
            BY <1>5, <1>6, <3>1 DEF Sorted
        <3> QED
            BY <1>1, <1>3, <3>1, <3>2
    <2> QED
        BY <1>1, <1>4, <1>5, <1>6, <2>1, <2>2, InsertedSorted
<1>8. Ascending'
    <2> SUFFICES ASSUME NEW n \in InTree
                 PROVE  Sorted(node'[n].keys)
        BY <1>1 DEF Ascending, Sorted
    <2>1. CASE n = l
        BY <1>7, <2>1 DEF new
    <2>2. CASE n # l
        BY <1>1, <2>2 DEF TreeHolds, Ascending, Sorted
    <2> QED
        BY <2>1, <2>2
<1>9. /\ \A j \in 1 .. Len(old) : \E h \in 1 .. Len(new) : new[h] = old[j]
      /\ \A h \in 1 .. Len(new) : new[h] = k \/ \E j \in 1 .. Len(old) : new[h] = old[j]
      /\ \E h \in 1 .. Len(new) : new[h] = k
    <2>1. /\ i \in 1 .. Len(new) /\ new[i] = k
          /\ \A j \in 1 .. Len(old) : j < i => j \in 1 .. Len(new) /\ new[j] = old[j]
          /\ \A j \in 1 .. Len(old) : j >= i => j + 1 \in 1 .. Len(new) /\ new[j + 1] = old[j]
          /\ \A h \in 1 .. Len(new) : h < i => h \in 1 .. Len(old)
          /\ \A h \in 1 .. Len(new) : h > i => h - 1 \in 1 .. Len(old) /\ new[h] = old[h - 1]
        <3>1. Len(old) \in Nat /\ i \in 1 .. Len(old) + 1 /\ Inserted(new, old, i, k)
            BY <1>3, <1>5
        <3> QED
            <4>1. Moves(new, old, i, k)
                BY <3>1, InsertedIs
            <4> QED
                BY <4>1 DEF Moves
    <2>2. \A j \in 1 .. Len(old) : j < i \/ j >= i
        BY <1>5
    <2>3. \A h \in 1 .. Len(new) : h < i \/ h = i \/ h > i
        BY <1>5
    <2> QED
        BY <2>1, <2>2, <2>3
<1>10. Len(node[l].children) = 0
    BY <1>1 DEF TreeHolds, TreeInv, Shaped
<1>11. \A p \in InTree : \A j \in 1 .. Len(node'[p].children) :
            p # l /\ j \in 1 .. Len(node[p].children) /\ node'[p] = node[p]
    <2> TAKE p \in InTree
    <2> TAKE j \in 1 .. Len(node'[p].children)
    <2>1. p # l
        BY <1>2, <1>10
    <2> QED
        BY <1>1, <2>1
<1>12. LowerBy(lo)'
    <2>1. \A p \in InTree : \A j \in 1 .. Len(node'[p].children) :
            lo[node'[p].children[j]] = IF j = 1 THEN lo[p] ELSE {node'[p].keys[j - 1]}
        <3> TAKE p \in InTree
        <3> TAKE j \in 1 .. Len(node'[p].children)
        <3>1. j \in 1 .. Len(node[p].children) /\ node'[p] = node[p]
            BY <1>11
        <3>2. lo[node[p].children[j]] = IF j = 1 THEN lo[p] ELSE {node[p].keys[j - 1]}
            BY <3>1 DEF LowerBy
        <3> QED
            BY <3>1, <3>2
    <2>2. lo \in [InTree' -> SUBSET Key] /\ lo[root'] = {}
        BY <1>1 DEF LowerBy
    <2> QED
        BY <1>1, <2>1, <2>2 DEF LowerBy
<1>13. UpperBy(hi)'
    <2>1. \A p \in InTree : \A j \in 1 .. Len(node'[p].children) :
            hi[node'[p].children[j]] =
                IF j = Len(node'[p].children) THEN hi[p] ELSE {node'[p].keys[j]}
        <3> TAKE p \in InTree
        <3> TAKE j \in 1 .. Len(node'[p].children)
        <3>1. j \in 1 .. Len(node[p].children) /\ node'[p] = node[p]
            BY <1>11
        <3>2. hi[node[p].children[j]] =
                IF j = Len(node[p].children) THEN hi[p] ELSE {node[p].keys[j]}
            BY <3>1 DEF UpperBy
        <3> QED
            BY <3>1, <3>2
    <2>2. hi \in [InTree' -> SUBSET Key] /\ hi[root'] = {}
        BY <1>1 DEF UpperBy
    <2> QED
        BY <1>1, <2>1, <2>2 DEF UpperBy
<1>14. /\ \A x \in lo[l] : x <= k
       /\ \A h \in hi[l] : k <= h
    <2>1. /\ \A x \in lo[l] : x <= k
          /\ \A h \in hi[l] : k < h
        BY DEF Within
    <2>2. hi[l] \subseteq Int
        BY <1>0, <1>1 DEF UpperBy
    <2>3. \A h \in hi[l] : k <= h
        BY <1>1, <2>1, <2>2
    <2> QED
        BY <2>1, <2>3
<1>15. KeysWithin(lo, hi)'
    <2> SUFFICES ASSUME NEW n \in InTree, NEW e \in 1 .. Len(node'[n].keys)
                 PROVE  /\ \A x \in lo[n] : x <= node'[n].keys[e]
                        /\ \A h \in hi[n] : node'[n].keys[e] <= h
        BY <1>1 DEF KeysWithin
    <2>1. CASE n = l
        <3>1. node'[n].keys[e] = k \/ \E j \in 1 .. Len(old) : node'[n].keys[e] = old[j]
            BY <1>9, <2>1 DEF new
        <3> QED
            BY <1>14, <2>1, <3>1 DEF KeysWithin, old
    <2>2. CASE n # l
        BY <1>1, <2>2 DEF KeysWithin
    <2> QED
        BY <2>1, <2>2
<1>16. Leaves' = Leaves
    BY <1>1, <1>2 DEF Leaves
<1>17. Apart(lo, hi)'
    BY <1>16 DEF Apart, Within
<1>18. Led(lo, hi)'
    <2> SUFFICES ASSUME NEW m \in Leaves, NEW n \in Leaves, NEW e \in 1 .. Len(node'[m].keys),
                        Within(lo, hi, n, node'[m].keys[e])
                 PROVE  \E j \in 1 .. Len(node'[n].keys) : node'[n].keys[j] = node'[m].keys[e]
        BY <1>16 DEF Led, Within
    <2>1. m \in InTree /\ n \in InTree
        BY DEF Leaves
    <2>2. \A j \in 1 .. Len(node[n].keys) :
            \E h \in 1 .. Len(node'[n].keys) : node'[n].keys[h] = node[n].keys[j]
        <3>1. CASE n = l
            BY <1>9, <3>1 DEF new, old
        <3>2. CASE n # l
            BY <1>1, <2>1, <3>2
        <3> QED
            BY <3>1, <3>2
    <2>3. CASE \E f \in 1 .. Len(node[m].keys) : node'[m].keys[e] = node[m].keys[f]
        <3>1. PICK f \in 1 .. Len(node[m].keys) : node'[m].keys[e] = node[m].keys[f]
            BY <2>3
        <3>2. PICK j \in 1 .. Len(node[n].keys) : node[n].keys[j] = node[m].keys[f]
            BY <3>1 DEF Led
        <3> QED
            BY <2>2, <3>1, <3>2
    <2>4. CASE ~ \E f \in 1 .. Len(node[m].keys) : node'[m].keys[e] = node[m].keys[f]
        <3>1. m = l
            BY <1>1, <2>1, <2>4
        <3>2. node'[m].keys[e] = k
            BY <1>9, <2>4, <3>1 DEF new, old
        <3>3. n = l
            BY <1>1, <3>2 DEF Apart
        <3> QED
            BY <1>9, <3>2, <3>3 DEF new
    <2> QED
        BY <2>3, <2>4
<1>19. Bounded'
    BY <1>12, <1>13, <1>15, <1>17, <1>18 DEF Bounded
<1> QED
    BY <1>8, <1>19

LEMMA InsertStep ==
    ASSUME TreeHolds, NEW k \in Key, Insert(k)
    PROVE  TreeHolds'
<1>1. root # 0
    BY DEF Insert
<1>2. PICK lo, hi : /\ LowerBy(lo) /\ UpperBy(hi) /\ KeysWithin(lo, hi)
                    /\ Apart(lo, hi) /\ Led(lo, hi)
    BY <1>1 DEF TreeHolds, Bounded
<1>3. PICK l, i : Put(l, k, i) /\ Within(lo, hi, l, k)
    BY <1>2, InsertPuts
<1>4. TreeInv'
    BY <1>3, PutTree
<1>5. Paired' /\ Once' /\ Counted'
    BY <1>3, PutRows
<1>6. Ascending' /\ Bounded'
    BY <1>2, <1>3, PutOrder
<1> QED
    BY <1>4, <1>5, <1>6 DEF TreeHolds

LEMMA InsertFirstStep ==
    ASSUME TreeHolds, NEW k \in Key, InsertFirst(k)
    PROVE  TreeHolds'
<1> DEFINE r == NewRecord(k)
           n == PutInLeaf(FirstLeaf, r)
<1>0. /\ Order \in Nat /\ Order >= 2 /\ Order \div 2 \in Nat /\ MaxRows \in Nat
      /\ Key \subseteq Int
    BY BPlusTreeAssumption DEF BPlusTreeAssumption
<1>1. /\ pc = "idle" /\ root = 0 /\ rows < MaxRows /\ rows' = rows + 1
      /\ count' = [count EXCEPT ![k] = @ + 1]
      /\ node' = <<n>> /\ root' = 1 /\ pc' = pc /\ cur' = cur
    BY DEF InsertFirst, Count
<1>2. /\ node = <<>> /\ InTree = {} /\ cur = 0
      /\ count \in [Key -> 0 .. MaxRows] /\ rows \in 0 .. MaxRows
    <2>1. node = <<>>
        BY <1>1 DEF TreeHolds, TreeInv, Linked
    <2> QED
        BY <2>1 DEF TreeHolds, TreeInv, TypeOK, InTree
<1>3. \A c \in Key : count[c] = 0
    <2> SUFFICES ASSUME NEW c \in Key, count[c] # 0
                 PROVE  FALSE
        OBVIOUS
    <2>1. 1 \in 1 .. count[c]
        BY <1>2
    <2>2. \E x \in InTree : \E j \in 1 .. Len(node[x].records) :
                node[x].records[j] = [key |-> c, nth |-> 1]
        BY <2>1 DEF TreeHolds, Once
    <2> QED
        BY <1>2, <2>2
<1>4. r = [key |-> k, nth |-> 1] /\ r \in Record /\ r.key = k /\ r.nth = 1
    BY <1>0, <1>1, <1>2, <1>3 DEF NewRecord, Record
<1>5. /\ FirstLeaf \in Node /\ FirstLeaf.leaf /\ FirstLeaf.keys = <<>> /\ FirstLeaf.children = <<>>
      /\ FirstLeaf.records = <<>> /\ FirstLeaf.parent = 0
    BY DEF FirstLeaf, Node
<1> HIDE DEF r
<1>6. PICK i : Placed(n, FirstLeaf, r, i)
    <2>1. Len(FirstLeaf.records) = Len(FirstLeaf.keys)
        BY <1>5
    <2> QED
        BY <1>4, <1>5, <2>1, PutIs
<1> HIDE DEF n
<1>7. /\ n \in Node /\ n.leaf /\ n.children = <<>> /\ n.parent = 0
      /\ Len(n.keys) = 1 /\ n.keys[1] = k /\ Len(n.records) = 1 /\ n.records[1] = r
    <2>1. /\ n \in Node /\ n.leaf = FirstLeaf.leaf /\ n.children = FirstLeaf.children
          /\ n.parent = FirstLeaf.parent
          /\ i \in 1 .. Len(FirstLeaf.keys) + 1
          /\ Inserted(n.keys, FirstLeaf.keys, i, r.key) /\ Inserted(n.records, FirstLeaf.records, i, r)
        BY <1>6 DEF Placed
    <2>2. i = 1
        BY <1>5, <2>1
    <2>3. /\ Len(n.keys) = 1 /\ n.keys[1] = k /\ Len(n.records) = 1 /\ n.records[1] = r
        BY <1>4, <1>5, <2>1, <2>2 DEF Inserted
    <2> QED
        BY <1>5, <2>1, <2>3
<1>8. InTree' = {1} /\ node'[1] = n /\ Len(node') = 1 /\ node' \in Seq(Node)
    BY <1>1, <1>7 DEF InTree
<1>9. /\ count'[k] = 1 /\ \A c \in Key \ {k} : count'[c] = 0
      /\ count' \in [Key -> 0 .. MaxRows] /\ rows' \in 0 .. MaxRows /\ 1 <= rows'
    BY <1>0, <1>1, <1>2, <1>3
<1>10. TypeOK'
    BY <1>1, <1>2, <1>8, <1>9 DEF TypeOK
<1>11. Linked' /\ Shaped'
    BY <1>1, <1>7, <1>8 DEF Linked, Shaped
<1>12. Sized'
    <2>1. 1 <= Order /\ ~ 1 > Order
        BY <1>0
    <2>2. \A x \in InTree' : x = root' /\ Len(node'[x].keys) = 1
        BY <1>1, <1>7, <1>8
    <2>3. pc' = "idle"
        BY <1>1
    <2> QED
        BY <2>1, <2>2, <2>3 DEF Sized
<1>13. Ranked'
    <2> DEFINE f == [x \in {1} |-> 0]
    <2>1. /\ f \in [InTree' -> Nat]
          /\ \A x \in InTree' : f[x] <= f[root'] /\ (node'[x].leaf <=> f[x] = 0)
          /\ \A x \in InTree' \ {root'} : f[node'[x].parent] = f[x] + 1
        BY <1>1, <1>7, <1>8
    <2> HIDE DEF f
    <2> QED
        BY <2>1 DEF Ranked, RankedBy
<1>14. Paired'
    BY <1>4, <1>7, <1>8 DEF Paired
<1>15. Once'
    <2>1. ASSUME NEW c \in Key, NEW e \in 1 .. count'[c]
          PROVE  \E x \in InTree' : \E j \in 1 .. Len(node'[x].records) :
                    node'[x].records[j] = [key |-> c, nth |-> e]
        <3>1. c = k /\ e = 1
            BY <1>9
        <3>2. node'[1].records[1] = [key |-> c, nth |-> e] /\ 1 \in 1 .. Len(node'[1].records)
            BY <1>4, <1>7, <1>8, <3>1
        <3> QED
            BY <1>8, <3>2
    <2>2. ASSUME NEW x \in InTree', NEW j \in 1 .. Len(node'[x].records)
          PROVE  /\ x = 1 /\ j = 1
                 /\ node'[x].records[j].nth <= count'[node'[x].records[j].key]
        <3>1. x = 1 /\ j = 1
            <4>1. x = 1 /\ Len(node'[x].records) = 1
                BY <1>7, <1>8
            <4> QED
                BY <4>1
        <3>2. node'[1].records[1] = r
            BY <1>7, <1>8
        <3> QED
            BY <1>4, <1>9, <3>1, <3>2
    <2> QED
        BY <2>1, <2>2 DEF Once
<1>16. Counted'
    <2>1. \A c \in Key : count'[c] = 0 \/ count'[c] = 1
        BY <1>9
    <2>2. 0 <= rows' /\ 1 <= rows'
        BY <1>9
    <2>3. \A c \in Key : count'[c] <= rows'
        BY <2>1, <2>2
    <2> QED
        BY <2>3 DEF Counted
<1>17. Ascending'
    <2>1. \A a, b \in 1 .. Len(node'[1].keys) : a = 1 /\ b = 1
        <3>1. Len(node'[1].keys) = 1
            BY <1>7, <1>8
        <3> QED
            BY <3>1
    <2>2. node'[1].keys[1] <= node'[1].keys[1]
        BY <1>0, <1>7, <1>8
    <2> QED
        BY <1>8, <2>1, <2>2 DEF Ascending
<1>18. Bounded'
    <2> DEFINE f == [x \in {1} |-> {}]
    <2>1. f \in [InTree' -> SUBSET Key] /\ f[root'] = {} /\ f[1] = {}
        BY <1>1, <1>8
    <2> HIDE DEF f
    <2>2. \A p \in InTree' : Len(node'[p].children) = 0
        BY <1>7, <1>8
    <2>3. LowerBy(f)' /\ UpperBy(f)'
        BY <2>1, <2>2 DEF LowerBy, UpperBy
    <2>4. KeysWithin(f, f)'
        BY <1>8, <2>1 DEF KeysWithin
    <2>5. Apart(f, f)' /\ Led(f, f)'
        <3>1. \A x \in Leaves' : x = 1
            BY <1>8 DEF Leaves
        <3> QED
            BY <3>1 DEF Apart, Led, Within
    <2> QED
        BY <2>3, <2>4, <2>5 DEF Bounded
<1> QED
    BY <1>10, <1>11, <1>12, <1>13, <1>14, <1>15, <1>16, <1>17, <1>18 DEF TreeHolds, TreeInv

LEMMA EmptyHolds ==
    ASSUME node = <<>>, root = 0, cur = 0, pc = "idle", count = [k \in Key |-> 0], rows = 0
    PROVE  TreeHolds
<1>0. MaxRows \in Nat
    BY BPlusTreeAssumption DEF BPlusTreeAssumption
<1>1. InTree = {} /\ Len(node) = 0
    BY DEF InTree
<1>2. TypeOK
    BY <1>0, <1>1 DEF TypeOK
<1>3. Linked /\ Shaped /\ Sized /\ Ranked
    BY <1>1 DEF Linked, Shaped, Sized, Ranked
<1>4. Paired /\ Once /\ Ascending /\ Bounded /\ Counted
    BY <1>1 DEF Paired, Once, Ascending, Bounded, Counted
<1> QED
    BY <1>2, <1>3, <1>4 DEF TreeHolds, TreeInv

LEMMA ClearStep ==
    ASSUME Clear
    PROVE  TreeHolds'
<1>1. /\ node' = <<>> /\ root' = 0 /\ cur' = 0 /\ pc' = "idle"
      /\ count' = [k \in Key |-> 0] /\ rows' = 0
    BY DEF Clear
<1>0. MaxRows \in Nat
    BY BPlusTreeAssumption DEF BPlusTreeAssumption
<1>2. InTree' = {} /\ Len(node') = 0
    BY <1>1 DEF InTree
<1>3. TypeOK'
    BY <1>0, <1>1, <1>2 DEF TypeOK
<1>4. Linked' /\ Shaped' /\ Sized' /\ Ranked'
    BY <1>1, <1>2 DEF Linked, Shaped, Sized, Ranked
<1>5. Paired' /\ Once' /\ Ascending' /\ Bounded' /\ Counted'
    BY <1>1, <1>2 DEF Paired, Once, Ascending, Bounded, Counted
<1> QED
    BY <1>3, <1>4, <1>5 DEF TreeHolds, TreeInv

LEMMA SplitStep ==
    ASSUME TreeHolds, SplitLeaf \/ SplitInternal
    PROVE  TreeHolds'
<1>1. /\ pc # "idle" /\ count' = count /\ rows' = rows
      /\ TreeInv /\ Paired /\ Once /\ Ascending /\ Bounded /\ Counted
    BY DEF SplitLeaf, SplitInternal, TreeHolds
<1>2. PICK left, right, promoted, s :
            Halved(left, right, promoted, s) /\ Divide(left, right, promoted)
    BY <1>1, LeafHalves, InnerHalves
<1>3. PICK P, K, C, i : Split(left, right, promoted, s, P, K, C, i)
    <2>1. CASE left.parent = 0
        <3>1. NewRoot(left, right, promoted)
            BY <1>2, <2>1 DEF Divide
        <3> QED
            BY <1>1, <1>2, <2>1, <3>1, NewRootIs DEF Split
    <2>2. CASE left.parent # 0
        <3>1. IntoParent(left, right, promoted)
            BY <1>2, <2>2 DEF Divide
        <3> QED
            BY <1>1, <1>2, <2>2, <3>1, IntoParentIs DEF Split
    <2> QED
        BY <2>1, <2>2
<1>4. root # 0
    BY <1>1 DEF TreeInv, Linked
<1>5. PICK lo, hi : /\ LowerBy(lo) /\ UpperBy(hi) /\ KeysWithin(lo, hi)
                    /\ Apart(lo, hi) /\ Led(lo, hi)
    BY <1>1, <1>4 DEF Bounded
<1>6. PICK lo2, hi2 : Rebound(lo, hi, lo2, hi2, P, promoted)
    BY <1>1, <1>3, <1>5, Rebounding
<1>7. TypeOK' /\ Linked' /\ Shaped' /\ Sized' /\ Ranked'
    BY <1>1, <1>3, SplitTypeOK, SplitLinked, SplitShaped, SplitSized, SplitRanked
<1>8. Paired' /\ Once'
    BY <1>1, <1>3, SplitPaired, SplitOnce
<1>9. Ascending'
    BY <1>1, <1>3, <1>5, SplitAscending
<1>10. LowerBy(lo2)' /\ UpperBy(hi2)'
    BY <1>1, <1>3, <1>5, <1>6, SplitBounds
<1>11. KeysWithin(lo2, hi2)'
    BY <1>1, <1>3, <1>5, <1>6, SplitWithin
<1>12. Apart(lo2, hi2)' /\ Led(lo2, hi2)'
    BY <1>1, <1>3, <1>5, <1>6, SplitLed
<1>13. Bounded'
    BY <1>10, <1>11, <1>12 DEF Bounded
<1>14. Counted'
    BY <1>1 DEF Counted
<1> QED
    BY <1>7, <1>8, <1>9, <1>13, <1>14 DEF TreeHolds, TreeInv

LEMMA StutterStep ==
    ASSUME TreeHolds, UNCHANGED vars
    PROVE  TreeHolds'
<1>1. /\ node' = node /\ root' = root /\ pc' = pc /\ cur' = cur /\ count' = count /\ rows' = rows
    BY DEF vars
<1>2. InTree' = InTree /\ Leaves' = Leaves
    BY <1>1 DEF InTree, Leaves
<1>3. TypeOK' /\ Linked' /\ Shaped' /\ Sized'
    BY <1>1, <1>2 DEF TreeHolds, TreeInv, TypeOK, Linked, Shaped, Sized
<1>3a. Ranked'
    <2>1. \A rank : RankedBy(rank) => RankedBy(rank)'
        BY <1>1, <1>2 DEF RankedBy
    <2> QED
        BY <1>1, <2>1 DEF TreeHolds, TreeInv, Ranked
<1>4. Paired' /\ Once' /\ Ascending' /\ Counted'
    BY <1>1, <1>2 DEF TreeHolds, Paired, Once, Ascending, Counted
<1>5. Bounded'
    <2>1. ASSUME NEW lo, LowerBy(lo)
          PROVE  LowerBy(lo)'
        <3>1. node' = node /\ root' = root /\ InTree' = InTree
            BY <1>1, <1>2
        <3>2. lo \in [InTree' -> SUBSET Key] /\ lo[root'] = {}
            BY <2>1, <3>1 DEF LowerBy
        <3>3. ASSUME NEW p \in InTree', NEW i \in 1 .. Len(node'[p].children)
              PROVE  lo[node'[p].children[i]] = IF i = 1 THEN lo[p] ELSE {node'[p].keys[i - 1]}
            <4>1. p \in InTree /\ i \in 1 .. Len(node[p].children)
                BY <3>1
            <4>2. lo[node[p].children[i]] = IF i = 1 THEN lo[p] ELSE {node[p].keys[i - 1]}
                BY <2>1, <4>1 DEF LowerBy
            <4> QED
                BY <3>1, <4>2
        <3> QED
            BY <3>2, <3>3 DEF LowerBy
    <2>2. \A hi : UpperBy(hi) => UpperBy(hi)'
        BY <1>1, <1>2 DEF UpperBy
    <2>3. \A lo, hi : KeysWithin(lo, hi) => KeysWithin(lo, hi)'
        BY <1>1, <1>2 DEF KeysWithin
    <2>4. \A lo, hi : Apart(lo, hi) => Apart(lo, hi)'
        BY <1>1, <1>2 DEF Apart, Within
    <2>5. \A lo, hi : Led(lo, hi) => Led(lo, hi)'
        BY <1>1, <1>2 DEF Led, Within
    <2> QED
        BY <1>1, <2>1, <2>2, <2>3, <2>4, <2>5 DEF TreeHolds, Bounded
<1> QED
    BY <1>3, <1>3a, <1>4, <1>5 DEF TreeHolds, TreeInv

\* insert, the splits it causes and clear keep the invariant: it holds at every
\* step, splits under way included.
THEOREM TreeAlwaysHolds == Spec => []TreeHolds
<1>1. Init => TreeHolds
    BY EmptyHolds DEF Init
<1>2. TreeHolds /\ [Next]_vars => TreeHolds'
    <2> SUFFICES ASSUME TreeHolds, [Next]_vars
                 PROVE  TreeHolds'
        OBVIOUS
    <2>1. CASE \E k \in Key : InsertFirst(k)
        BY <2>1, InsertFirstStep
    <2>2. CASE \E k \in Key : Insert(k)
        BY <2>2, InsertStep
    <2>3. CASE SplitLeaf \/ SplitInternal
        BY <2>3, SplitStep
    <2>4. CASE Clear
        BY <2>4, ClearStep
    <2>5. CASE UNCHANGED vars
        BY <2>5, StutterStep
    <2> QED
        BY <2>1, <2>2, <2>3, <2>4, <2>5 DEF Next
<1> QED
    BY <1>1, <1>2, PTL DEF Spec

--------------------------------------------------------------------------------
(* What the tree promises *)

\* insert and its splits only ever put keys, records and nodes that exist into a
\* node; root and the node to split exist, also after clear.
THEOREM TreeTyped == Spec => []TypeOK
<1>1. TreeHolds => TypeOK
    BY DEF TreeHolds, TreeInv
<1> QED
    BY <1>1, TreeAlwaysHolds, PTL

\* Parent pointers and children agree whenever no insert is under way.
THEOREM ParentsKnowTheirChildren == Spec => []ParentsAgree
<1>1. TreeHolds => ParentsAgree
    <2> SUFFICES ASSUME TreeHolds, Through
                 PROVE  /\ node[root].parent = 0
                        /\ \A p \in InTree : \A i \in 1 .. Len(node[p].children) :
                                node[node[p].children[i]].parent = p
                        /\ \A n \in InTree \ {root} :
                                \E i \in 1 .. Len(node[node[n].parent].children) :
                                    node[node[n].parent].children[i] = n
        BY DEF ParentsAgree
    <2> QED
        BY DEF TreeHolds, TreeInv, Linked, Through
<1> QED
    BY <1>1, TreeAlwaysHolds, PTL

\* The depth of a node is what its rank lacks to that of the root.
LEMMA DepthIs ==
    ASSUME TreeInv, root # 0, NEW rank, RankedBy(rank), NEW d,
           d = [n \in InTree |-> IF n = root THEN 0 ELSE d[node[n].parent] + 1]
    PROVE  \A n \in InTree : d[n] = rank[root] - rank[n]
<1>1. /\ \A n \in InTree : rank[n] \in Nat /\ rank[n] <= rank[root]
      /\ \A n \in InTree \ {root} : rank[node[n].parent] = rank[n] + 1
      /\ \A n \in InTree \ {root} : node[n].parent \in InTree
      /\ root \in InTree
    <2>1. root \in InTree
        BY DEF TreeInv, TypeOK, InTree
    <2>2. \A n \in InTree \ {root} : node[n].parent \in InTree
        BY DEF TreeInv, Linked
    <2> QED
        BY <2>1, <2>2 DEF RankedBy
<1>2. \A n \in InTree : d[n] = IF n = root THEN 0 ELSE d[node[n].parent] + 1
    OBVIOUS
<1> DEFINE Bad == {rank[root] - rank[n] : n \in {m \in InTree : d[m] # rank[root] - rank[m]}}
<1>3. Bad = {}
    <2> SUFFICES ASSUME Bad # {}
                 PROVE  FALSE
        OBVIOUS
    <2>1. PICK r \in Bad : \A x \in Bad : r <= x
        <3>1. Bad \in SUBSET Nat
            BY <1>1
        <3> HIDE DEF Bad
        <3> QED
            BY <3>1, LeastNat
    <2>2. PICK n \in InTree : d[n] # rank[root] - rank[n] /\ r = rank[root] - rank[n]
        BY <2>1
    <2>3. n # root
        BY <1>1, <1>2, <2>2
    <2> DEFINE p == node[n].parent
    <2>4. p \in InTree /\ rank[p] = rank[n] + 1 /\ d[n] = d[p] + 1
        BY <1>1, <1>2, <2>3
    <2> HIDE DEF p
    <2>5. ~ r <= rank[root] - rank[p]
        BY <1>1, <2>2, <2>4
    <2>6. rank[root] - rank[p] \notin Bad
        BY <2>1, <2>5
    <2>7. d[p] = rank[root] - rank[p]
        BY <2>4, <2>6
    <2> QED
        BY <1>1, <2>2, <2>4, <2>7
<1> QED
    BY <1>3

\* All leaves are equally deep, and no node is too long or, but for the root, too
\* short, whenever no insert is under way.
THEOREM TreeIsBalanced == Spec => []Balanced
<1>1. TreeHolds => Balanced
    <2> SUFFICES ASSUME TreeHolds, Through
                 PROVE  Balanced
        BY DEF Balanced
    <2>0. pc = "idle" /\ root # 0 /\ TreeInv /\ Order \in Nat
        BY BPlusTreeAssumption DEF Through, TreeHolds, BPlusTreeAssumption
    <2>1. PICK rank : RankedBy(rank)
        BY <2>0 DEF TreeInv, Ranked
    <2>2. /\ \A n \in InTree : rank[n] \in Nat /\ (node[n].leaf <=> rank[n] = 0)
          /\ \A n \in InTree : rank[n] <= rank[root]
          /\ \A n \in InTree \ {root} : rank[node[n].parent] = rank[n] + 1
          /\ \A n \in InTree \ {root} : node[n].parent \in InTree
          /\ root \in InTree
        <3>1. root \in InTree
            BY <2>0 DEF TreeInv, TypeOK, InTree
        <3>2. \A n \in InTree \ {root} : node[n].parent \in InTree
            BY <2>0 DEF TreeInv, Linked
        <3> QED
            BY <2>1, <3>1, <3>2 DEF RankedBy
    <2>3. \E d : d = [n \in InTree |-> IF n = root THEN 0 ELSE d[node[n].parent] + 1]
        <3> DEFINE d == [n \in InTree |-> rank[root] - rank[n]]
        <3>1. \A n \in InTree : d[n] = IF n = root THEN 0 ELSE d[node[n].parent] + 1
            BY <2>2
        <3>2. d = [n \in InTree |-> IF n = root THEN 0 ELSE d[node[n].parent] + 1]
            BY <3>1
        <3> QED
            BY <3>2
    <2>4. \A n \in InTree :
            /\ Len(node[n].keys) <= Order
            /\ ~ node[n].leaf => Len(node[n].children) = Len(node[n].keys) + 1
            /\ n # root => Len(node[n].keys) >= Order \div 2
        <3> TAKE n \in InTree
        <3>1. Len(node[n].keys) \in Nat
            BY <2>0, NodeFields
        <3>2. ~ Len(node[n].keys) > Order /\ (n # root => Len(node[n].keys) >= Order \div 2)
            BY <2>0 DEF TreeInv, Sized
        <3>3. ~ node[n].leaf => Len(node[n].children) = Len(node[n].keys) + 1
            BY <2>0 DEF TreeInv, Shaped
        <3> QED
            BY <2>0, <3>1, <3>2, <3>3
    <2> DEFINE depth == CHOOSE d : d = [n \in InTree |-> IF n = root THEN 0 ELSE d[node[n].parent] + 1]
    <2>5. depth = [n \in InTree |-> IF n = root THEN 0 ELSE depth[node[n].parent] + 1]
        BY <2>3
    <2> HIDE DEF depth
    <2>6. \A n \in InTree : depth[n] = rank[root] - rank[n]
        BY <2>0, <2>1, <2>5, DepthIs
    <2>7. \A l, m \in Leaves : depth[l] = depth[m]
        <3>1. \A l \in Leaves : depth[l] = rank[root]
            BY <2>2, <2>6 DEF Leaves
        <3> QED
            BY <3>1
    <2> QED
        BY <2>4, <2>7 DEF Balanced, depth
<1> QED
    BY <1>1, TreeAlwaysHolds, PTL

\* The keys of a leaf are in order and those of its records, whenever no insert
\* is under way.
THEOREM LeavesAreSorted == Spec => []LeavesSorted
<1>1. TreeHolds => LeavesSorted
    <2> SUFFICES ASSUME TreeHolds, NEW l \in Leaves
                 PROVE  /\ Len(node[l].keys) = Len(node[l].records)
                        /\ \A i \in 1 .. Len(node[l].keys) :
                                node[l].keys[i] = node[l].records[i].key
                        /\ \A i \in 2 .. Len(node[l].keys) : node[l].keys[i - 1] <= node[l].keys[i]
        BY DEF LeavesSorted
    <2>1. l \in InTree /\ node[l].leaf
        BY DEF Leaves
    <2>2. Len(node[l].keys) \in Nat
        BY <2>1, NodeFields DEF TreeHolds, TreeInv
    <2>3. /\ Len(node[l].records) = Len(node[l].keys)
          /\ \A i \in 1 .. Len(node[l].keys) : node[l].keys[i] = node[l].records[i].key
        BY <2>1 DEF TreeHolds, Paired
    <2>4. ASSUME NEW i \in 2 .. Len(node[l].keys)
          PROVE  node[l].keys[i - 1] <= node[l].keys[i]
        <3>1. i - 1 \in 1 .. Len(node[l].keys) /\ i \in 1 .. Len(node[l].keys) /\ i - 1 <= i
            BY <2>2
        <3> QED
            BY <2>1, <3>1 DEF TreeHolds, Ascending
    <2> QED
        BY <2>3, <2>4
<1> QED
    BY <1>1, TreeAlwaysHolds, PTL

\* Whenever no insert is under way, each row is in one leaf.
THEOREM NoRowLostOrDoubled == Spec => []EachRowOnce
<1>1. TreeHolds => EachRowOnce
    <2> SUFFICES ASSUME TreeHolds, NEW k \in Key, NEW i \in 1 .. count[k]
                 PROVE  \E l \in Leaves :
                            /\ \E j \in 1 .. Len(node[l].records) :
                                node[l].records[j].key = k /\ node[l].records[j].nth = i
                            /\ \A m \in Leaves \ {l} : \A j \in 1 .. Len(node[m].records) :
                                node[m].records[j].key # k \/ node[m].records[j].nth # i
        BY DEF EachRowOnce
    <2>1. PICK l \in InTree : \E j \in 1 .. Len(node[l].records) :
                node[l].records[j] = [key |-> k, nth |-> i]
        BY DEF TreeHolds, Once
    <2>2. PICK j \in 1 .. Len(node[l].records) : node[l].records[j] = [key |-> k, nth |-> i]
        BY <2>1
    <2>3. l \in Leaves
        <3>1. Len(node[l].records) # 0
            BY <2>2
        <3> QED
            BY <3>1 DEF TreeHolds, Paired, Leaves
    <2>4. ASSUME NEW m \in Leaves \ {l}, NEW h \in 1 .. Len(node[m].records),
                 node[m].records[h].key = k, node[m].records[h].nth = i
          PROVE  FALSE
        <3>1. m \in InTree
            BY DEF Leaves
        <3>2. node[m].records \in Seq(Record)
            BY <3>1, NodeFields DEF TreeHolds, TreeInv
        <3>3. node[m].records[h] \in Record
            BY <3>2
        <3>4. node[m].records[h] = [key |-> k, nth |-> i]
            BY <2>4, <3>3 DEF Record
        <3> QED
            BY <2>2, <3>1, <3>4 DEF TreeHolds, Once
    <2> QED
        BY <2>2, <2>3, <2>4
<1> QED
    BY <1>1, TreeAlwaysHolds, PTL

\* Whenever no insert is under way, search finds a row of each key that has rows
\* and nothing for a key that has none.
THEOREM SearchFindsARow == Spec => []SearchFinds
<1>1. TreeHolds => SearchFinds
    <2> SUFFICES ASSUME TreeHolds, Through, NEW k \in Key
                 PROVE  IF count[k] = 0 THEN Search(k) = {} ELSE \E r \in Search(k) : r.key = k
        BY DEF SearchFinds
    <2>1. root # 0 /\ TreeInv
        BY DEF Through, TreeHolds
    <2>2. PICK lo, hi : /\ LowerBy(lo) /\ UpperBy(hi) /\ KeysWithin(lo, hi)
                        /\ Apart(lo, hi) /\ Led(lo, hi)
        BY <2>1 DEF TreeHolds, Bounded
    <2> DEFINE l == FindLeaf(k)
               r == node[l].records
               stops == {j \in DOMAIN r : r[j].key = k}
               i == StopsAt(r, stops)
    <2>3. l \in Leaves /\ Within(lo, hi, l, k)
        BY <2>1, <2>2, FoundLeaf
    <2>4. Search(k) = IF i <= Len(r) THEN {r[i]} ELSE {}
        BY <2>1 DEF Search
    <2> HIDE DEF l
    <2>5. /\ l \in InTree /\ node[l].leaf
          /\ r \in Seq(Record) /\ Len(r) \in Nat /\ DOMAIN r = 1 .. Len(r)
        <3>1. l \in InTree /\ node[l].leaf
            BY <2>3 DEF Leaves
        <3>2. r \in Seq(Record) /\ Len(r) \in Nat
            BY <2>1, <3>1, NodeFields DEF TreeInv
        <3> QED
            BY <3>1, <3>2
    <2>6. /\ i \in 1 .. Len(r) + 1
          /\ \A j \in 1 .. i - 1 : j \notin stops
          /\ i <= Len(r) => i \in stops
        <3> HIDE DEF r, stops
        <3> QED
            BY <2>5, Stops
    <2> HIDE DEF i
    <2>7. i <= Len(r) => i \in 1 .. Len(r) /\ r[i].key = k
        BY <2>5, <2>6
    <2>8. CASE count[k] = 0
        <3>1. ~ i <= Len(r)
            <4> SUFFICES ASSUME i <= Len(r)
                         PROVE  FALSE
                OBVIOUS
            <4>1. i \in 1 .. Len(r) /\ r[i].key = k
                BY <2>7
            <4>2. r[i] \in Record
                BY <2>5, <4>1
            <4>3. r[i].nth >= 1 /\ r[i].nth \in Nat
                BY <4>2 DEF Record
            <4>4. r[i].nth <= count[k]
                BY <2>5, <4>1 DEF TreeHolds, Once
            <4> QED
                BY <2>8, <4>3, <4>4
        <3> QED
            BY <2>4, <2>8, <3>1
    <2>9. CASE count[k] # 0
        <3>1. 1 \in 1 .. count[k]
            <4>1. count[k] \in Nat
                BY <2>1 DEF TreeInv, TypeOK
            <4> QED
                BY <2>9, <4>1
        <3>2. PICK m \in InTree : \E j \in 1 .. Len(node[m].records) :
                    node[m].records[j] = [key |-> k, nth |-> 1]
            BY <3>1 DEF TreeHolds, Once
        <3>3. PICK j \in 1 .. Len(node[m].records) : node[m].records[j] = [key |-> k, nth |-> 1]
            BY <3>2
        <3>4. m \in Leaves /\ j \in 1 .. Len(node[m].keys) /\ node[m].keys[j] = k
            <4>1. Len(node[m].records) # 0
                BY <3>3
            <4>2. node[m].leaf /\ Len(node[m].records) = Len(node[m].keys)
                BY <4>1 DEF TreeHolds, Paired
            <4>3. node[m].records[j].key = node[m].keys[j]
                BY DEF TreeHolds, Paired
            <4> QED
                BY <3>3, <4>2, <4>3 DEF Leaves
        <3>5. PICK e \in 1 .. Len(node[l].keys) : node[l].keys[e] = k
            BY <2>2, <2>3, <3>4 DEF Led
        <3>6. e \in 1 .. Len(r) /\ r[e].key = k
            BY <2>5, <3>5 DEF TreeHolds, Paired
        <3>7. i <= Len(r)
            <4>1. e \in stops
                BY <2>5, <3>6
            <4>2. ~ e \in 1 .. i - 1
                BY <2>6, <4>1
            <4> HIDE DEF r, stops
            <4> QED
                BY <2>5, <2>6, <3>6, <4>2
        <3> QED
            BY <2>4, <2>7, <2>9, <3>7
    <2> QED
        BY <2>8, <2>9
<1> QED
    BY <1>1, TreeAlwaysHolds, PTL

================================================================================

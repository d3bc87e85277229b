------------------------------- MODULE BPlusTree -------------------------------
(***************************************************************************)
(* Indexing/BPlusTree: the index that Table keeps on its first INT column, *)
(* under insert, search and clear.                                         *)
(*                                                                         *)
(* A node is known by a number, which stands for its address; 0 is         *)
(* nullptr.  insert runs to its end before anyone looks at the tree: its   *)
(* recursion is one step per node it splits, and properties speak of the   *)
(* tree when it is through.                                                *)
(*                                                                         *)
(* A record leads to a row by page and offset.  Here it names the row by   *)
(* how many rows of its key came before.                                   *)
(***************************************************************************)
EXTENDS Integers, SequencesExt

CONSTANTS
    Order,     \* BPlusTree::order
    Key,       \* values of the first column
    MaxRows    \* bound: rows inserted

ASSUME BPlusTreeAssumption ==
    /\ Order \in Nat /\ Order >= 2
    /\ Key \subseteq Int
    /\ MaxRows \in Nat

VARIABLES
    node,   \* the nodes, in the order in which they were made
    root,   \* BPlusTree::root
    pc,     \* what insert has to do next
    cur,    \* the node it has to do it to
    count,  \* how many rows each key has
    rows    \* rows inserted since the last clear, for MaxRows

vars == <<node, root, pc, cur, count, rows>>

Record == [key : Key, nth : 1 .. MaxRows]

Node == [leaf : BOOLEAN, keys : Seq(Key), children : Seq(Nat), records : Seq(Record),
         parent : Nat]

TypeOK ==
    /\ node \in Seq(Node)
    /\ root \in 0 .. Len(node)
    /\ pc \in {"idle", "splitLeaf", "splitInternal"}
    /\ cur \in 0 .. Len(node)
    /\ count \in [Key -> 0 .. MaxRows]
    /\ rows \in 0 .. MaxRows

Init ==
    /\ node = <<>>
    /\ root = 0
    /\ pc = "idle"
    /\ cur = 0
    /\ count = [k \in Key |-> 0]
    /\ rows = 0

--------------------------------------------------------------------------------
(* findLeaf and search *)

\* Where a loop over s stops: at the first of some positions, or past the end.
StopsAt(s, stops) ==
    CHOOSE i \in 1 .. Len(s) + 1 :
        /\ \A j \in 1 .. i - 1 : j \notin stops
        /\ i <= Len(s) => i \in stops

\* Mutant: a key equal to a separator goes left.
Turn_Strict(keys, k) == StopsAt(keys, {i \in DOMAIN keys : k <= keys[i]})

\* Which child to look for k in: right of every separator k is not below.
Turn(keys, k) == StopsAt(keys, {i \in DOMAIN keys : k < keys[i]})

Child(n, k) == node[n].children[Turn(node[n].keys, k)]

FindLeaf(k) ==
    LET from[n \in 1 .. Len(node)] == IF node[n].leaf THEN n ELSE from[Child(n, k)]
    IN  from[root]

\* The records search may return: the first with that key in its leaf, or none.
Search(k) ==
    IF root = 0 THEN {}
    ELSE LET r == node[FindLeaf(k)].records
             i == StopsAt(r, {j \in DOMAIN r : r[j].key = k})
         IN  IF i <= Len(r) THEN {r[i]} ELSE {}

--------------------------------------------------------------------------------
(* insert *)

NewRecord(k) == [key |-> k, nth |-> count[k] + 1]

FirstLeaf == [leaf |-> TRUE, keys |-> <<>>, children |-> <<>>, records |-> <<>>, parent |-> 0]

\* Mutant: a row goes to the end of its leaf.
PutInLeaf_AtEnd(n, r) ==
    [n EXCEPT !.keys = Append(@, r.key), !.records = Append(@, r)]

\* A row goes before those of its key that its leaf has.
PutInLeaf(n, r) ==
    LET i == StopsAt(n.keys, {j \in DOMAIN n.keys : r.key <= n.keys[j]})
    IN  [n EXCEPT !.keys = InsertAt(@, i, r.key), !.records = InsertAt(@, i, r)]

Count(k) ==
    /\ rows < MaxRows
    /\ rows' = rows + 1
    /\ count' = [count EXCEPT ![k] = @ + 1]

InsertFirst(k) ==
    /\ pc = "idle"
    /\ root = 0
    /\ Count(k)
    /\ node' = <<PutInLeaf(FirstLeaf, NewRecord(k))>>
    /\ root' = 1
    /\ UNCHANGED <<pc, cur>>

Insert(k) ==
    /\ pc = "idle"
    /\ root # 0
    /\ Count(k)
    /\ LET l == FindLeaf(k)
       IN  /\ node' = [node EXCEPT ![l] = PutInLeaf(@, NewRecord(k))]
           /\ cur' = l
           /\ pc' = IF Len(node[l].keys) + 1 > Order THEN "splitLeaf" ELSE "idle"
    /\ UNCHANGED root

--------------------------------------------------------------------------------
(* Splits *)

Right == Len(node) + 1

\* Mutant: the children that moved to the right node keep their parent.
Adopted_Not(s, moved) == s

\* The children that moved to the right node learn of it.
Adopted(s, moved) ==
    [n \in DOMAIN s |-> IF n \in ToSet(moved) THEN [s[n] EXCEPT !.parent = Right] ELSE s[n]]

\* No parent: left and right get a new root above them.
NewRoot(left, right, promoted) ==
    LET top == [FirstLeaf EXCEPT !.leaf = FALSE, !.keys = <<promoted>>,
                                 !.children = <<cur, Right>>]
        below == [node EXCEPT ![cur] = [left EXCEPT !.parent = Right + 1]]
    IN  /\ node' = Adopted(below \o <<[right EXCEPT !.parent = Right + 1], top>>, right.children)
        /\ root' = Right + 1
        /\ pc' = "idle"
        /\ UNCHANGED cur

\* The parent with the promoted key and the right node.
Above(p, promoted) ==
    LET children == node[p].children
        i == StopsAt(children, {j \in DOMAIN children : children[j] = cur})
    IN  [node[p] EXCEPT !.keys = InsertAt(@, i, promoted), !.children = InsertAt(@, i + 1, Right)]

\* Mutant: a parent may stay one key too long.
IntoParent_Late(left, right, promoted) ==
    LET p == left.parent
        s == [node EXCEPT ![cur] = left, ![p] = Above(p, promoted)]
    IN  /\ node' = Adopted(Append(s, right), right.children)
        /\ pc' = IF Len(s[p].keys) > Order + 1 THEN "splitInternal" ELSE "idle"
        /\ cur' = p
        /\ UNCHANGED root

\* A parent, which may have to be split in its turn.
IntoParent(left, right, promoted) ==
    LET p == left.parent
        s == [node EXCEPT ![cur] = left, ![p] = Above(p, promoted)]
    IN  /\ node' = Adopted(Append(s, right), right.children)
        /\ pc' = IF Len(s[p].keys) > Order THEN "splitInternal" ELSE "idle"
        /\ cur' = p
        /\ UNCHANGED root

Divide(left, right, promoted) ==
    IF left.parent = 0
    THEN NewRoot(left, right, promoted)
    ELSE IntoParent(left, right, promoted)

From(s, i) == SubSeq(s, i, Len(s))

\* Mutant: what moved to the right node is not erased from the left one.
UpTo_All(s, i) == s

UpTo(s, i) == SubSeq(s, 1, i)

SplitLeaf ==
    /\ pc = "splitLeaf"
    /\ LET n == node[cur]
           middle == (Order + 1) \div 2
           left == [n EXCEPT !.keys = UpTo(@, middle), !.records = UpTo(@, middle)]
           right == [n EXCEPT !.keys = From(@, middle + 1), !.records = From(@, middle + 1)]
       IN  Divide(left, right, right.keys[1])
    /\ UNCHANGED <<count, rows>>

\* The key in the middle moves up: neither half keeps it.
SplitInternal ==
    /\ pc = "splitInternal"
    /\ LET n == node[cur]
           middle == Order \div 2
           left == [n EXCEPT !.keys = UpTo(@, middle), !.children = UpTo(@, middle + 1)]
           right == [n EXCEPT !.keys = From(@, middle + 2), !.children = From(@, middle + 2)]
       IN  Divide(left, right, n.keys[middle + 1])
    /\ UNCHANGED <<count, rows>>

--------------------------------------------------------------------------------
(* clear, before Table puts other rows in *)

\* Mutant: the nodes are deleted and root still points to one of them.
Clear_Dangling ==
    /\ pc = "idle"
    /\ node' = <<>>
    /\ cur' = 0
    /\ count' = [k \in Key |-> 0]
    /\ rows' = 0
    /\ UNCHANGED <<root, pc>>

Clear ==
    /\ pc = "idle"
    /\ node' = <<>>
    /\ root' = 0
    /\ cur' = 0
    /\ count' = [k \in Key |-> 0]
    /\ rows' = 0
    /\ UNCHANGED pc

Next ==
    \/ \E k \in Key : InsertFirst(k) \/ Insert(k)
    \/ SplitLeaf \/ SplitInternal \/ Clear

Spec == Init /\ [][Next]_vars

--------------------------------------------------------------------------------
(* Safety, when no insert is under way *)

InTree == 1 .. Len(node)
Leaves == {n \in InTree : node[n].leaf}
Through == pc = "idle" /\ root # 0

\* A row inserted is found: for a key that has rows, search returns one of
\* them, and for a key that has none it returns nothing.  Splits promote a copy
\* of the first key of the right leaf, so rows of one key may end up in several
\* leaves, and findLeaf only ever looks at one of them.
SearchFinds ==
    Through => \A k \in Key :
        IF count[k] = 0 THEN Search(k) = {} ELSE \E r \in Search(k) : r.key = k

\* No split loses or doubles a record: the leaves under the root have each row
\* once.
EachRowOnce ==
    Through => \A k \in Key : \A i \in 1 .. count[k] :
        \E l \in Leaves :
            /\ \E j \in 1 .. Len(node[l].records) :
                node[l].records[j].key = k /\ node[l].records[j].nth = i
            /\ \A m \in Leaves \ {l} : \A j \in 1 .. Len(node[m].records) :
                node[m].records[j].key # k \/ node[m].records[j].nth # i

\* keys and records of a leaf go together, and both are sorted.
LeavesSorted ==
    Through => \A l \in Leaves :
        LET n == node[l]
        IN  /\ Len(n.keys) = Len(n.records)
            /\ \A i \in 1 .. Len(n.keys) : n.keys[i] = n.records[i].key
            /\ \A i \in 2 .. Len(n.keys) : n.keys[i - 1] <= n.keys[i]

\* Parent pointers and children agree, which is what the next split of a node
\* relies on: through its parent pointer it finds the node it becomes a child
\* of, and in that node its own place.
ParentsAgree ==
    Through =>
        /\ node[root].parent = 0
        /\ \A p \in InTree : \A i \in 1 .. Len(node[p].children) :
            node[node[p].children[i]].parent = p
        /\ \A n \in InTree \ {root} : \E i \in 1 .. Len(node[node[n].parent].children) :
            node[node[n].parent].children[i] = n

\* Every leaf is as deep as every other, no node is longer than Order, and none
\* but the root is shorter than what a split leaves in it.
Balanced ==
    Through =>
        LET depth[n \in InTree] == IF n = root THEN 0 ELSE depth[node[n].parent] + 1
        IN  /\ \A l, m \in Leaves : depth[l] = depth[m]
            /\ \A n \in InTree :
                /\ Len(node[n].keys) <= Order
                /\ ~ node[n].leaf => Len(node[n].children) = Len(node[n].keys) + 1
                /\ n # root => Len(node[n].keys) >= Order \div 2

================================================================================

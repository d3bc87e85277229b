------------------------------- MODULE MCTables --------------------------------
(* Instances of Tables for TLC. *)
EXTENDS Tables

CONSTANTS t, u, net1, net2, row, big

MCName == {t, u}
MCRow == {row, big}
MCOversize == {big}

\* The pool's threads are interchangeable, and so are the tables.
Symmetry == Permutations({net1, net2}) \cup Permutations(MCName)
\* All threads belong to the pool, or one of them is the GUI's.
AtMostOne == {{}, {net1}, {net2}}

\* Bound: without engineMutex a page can be freed over and over.
OutsiderBound ==
    Serialized \/ (totalPages <= 1 /\ Len(freeList) <= 2 /\ nextTableId <= 3)

================================================================================

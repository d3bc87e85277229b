-------------------------------- MODULE MCPages --------------------------------
(* Instances of PageManager for TLC. *)
EXTENDS PageManager

CONSTANTS t, u, v, r, s, big

MCRow == {r, s, big}
MCOversize == {big}

\* t alone reads and clears.
Symmetry == Permutations({u, v}) \cup Permutations({r, s})

================================================================================

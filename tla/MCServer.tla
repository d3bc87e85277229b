------------------------------ MODULE MCServer ------------------------------
(* NetworkServer with two clients, for TLC. *)
EXTENDS NetworkServer, TLC

CONSTANTS c1, c2, here, there

OneOfEach == c1 :> here @@ c2 :> there
BothThere == c1 :> there @@ c2 :> there

ClientSymmetry == Permutations(Client)

=============================================================================

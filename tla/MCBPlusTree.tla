----------------------------- MODULE MCBPlusTree -------------------------------
(* Instances of BPlusTree for TLC. *)
EXTENDS BPlusTree

================================================================================

------------------------------ MODULE MCToken ------------------------------
(* Small instances of Token for TLC. *)
EXTENDS Token, TLC

Alike == Permutations(Clients)
=============================================================================

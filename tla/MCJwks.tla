------------------------------ MODULE MCJwks ------------------------------
(* Small instances of Jwks for TLC. *)
EXTENDS Jwks, TLC

Anyone == Permutations(SignIns) \cup Permutations(Kids)
=============================================================================

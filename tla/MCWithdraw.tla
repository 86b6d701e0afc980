---------------------------- MODULE MCWithdraw ----------------------------
(* Small instances of Withdraw for TLC. *)
EXTENDS Withdraw, TLC

Anyone == Permutations(Requests) \cup Permutations(Accounts) \cup Permutations(Keys)
=============================================================================

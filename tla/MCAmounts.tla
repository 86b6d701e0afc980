----------------------------- MODULE MCAmounts -----------------------------
(* Small instances of Amounts for TLC. *)
EXTENDS Amounts

Lowest == -4
=============================================================================

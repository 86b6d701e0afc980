------------------------------- MODULE MCPage -------------------------------
(* Small instances of Page for TLC. *)
EXTENDS Page, TLC

Anyone == Permutations(Users) \cup Permutations(Loads)

(* The run does not go on from a state in which two readings have overlapped: *)
(* OutcomesAreShown and NeverOlderAlone say nothing of what follows. What the *)
(* other two say of it is left to their theorems (PageProofs).                *)
Alone == ~overlap
=============================================================================

----------------------------- MODULE MCAccess -----------------------------
(* Small instances of Access for TLC. *)
EXTENDS Access, TLC

Anyone ==
    Permutations(Calls) \cup Permutations(Browsers) \cup Permutations(Subs)
        \cup Permutations(Users) \cup Permutations(Accounts)
=============================================================================

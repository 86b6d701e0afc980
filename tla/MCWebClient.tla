---------------------------- MODULE MCWebClient ----------------------------
(* Small instances of WebClient for TLC. *)
EXTENDS WebClient, TLC

Anyone == Permutations(Requests) \cup Permutations(Keys) \cup Permutations(Dests)
=============================================================================

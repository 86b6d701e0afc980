----------------------------- MODULE MCSignIn -----------------------------
(* Small instances of SignIn for TLC. *)
EXTENDS SignIn

CONSTANTS
    Guest,      \* a user who visits once,
    GuestName   \* under this name

ASSUME GuestAssumption == Guest \in Subs /\ GuestName \in Names

(* Of three visits of two users one user pays one at most, and users are      *)
(* interchangeable, as are names. No step of the service changes a profile    *)
(* and fairness is of the service's steps only, so nothing explored depends   *)
(* on what is not.                                                            *)
OneGuest ==
    LET guests == {v \in Visits : profile[v] # NoValue /\ profile[v].sub = Guest}
    IN  Cardinality(guests) <= 1 /\ \A v \in guests : profile[v].name = GuestName
=============================================================================

----------------------------- MODULE Directory -----------------------------
(***************************************************************************)
(* What sign-in promises: a visit enters the directory in one indivisible  *)
(* step that refreshes the user and opens the user's account if there is   *)
(* none; it is answered with that account, or with an error that says      *)
(* nothing about whether the step was or will be taken.                    *)
(***************************************************************************)
EXTENDS Integers, FiniteSets

CONSTANTS
    Visits,     \* POST /auth/google requests with a verified credential
    Subs,       \* Google subjects; a user is known by its subject
    Names,      \* display names a profile may carry
    NoValue,    \* no user, no profile, no answer
    Failed      \* the answer that renders a thrown error

Profile == [sub : Subs, name : Names]

\* An account that has an owner, known by the visit that opened it.
Account == [id : Visits, user : Subs]

ASSUME DirectoryAssumption ==
    /\ NoValue \notin Names \cup Profile \cup Account \cup {Failed}
    /\ Failed \notin Account

VARIABLES
    users,      \* the name of each user, NoValue if there is none
    accounts,   \* the accounts that have an owner
    profile,    \* the verified profile of each visit, NoValue before it arrives
    res         \* what each visit is answered with, NoValue before

Owner(v) == profile[v].sub

\* Fault variant: a user's accounts are not found.
OwnedByNobody(v) == {}

\* SELECT * FROM accounts WHERE user_id = $1.
Owned(v) == {a \in accounts : a.user = Owner(v)}

\* The account v inserts when its user has none.
Opening(v) == [id |-> v, user |-> Owner(v)]

directory == <<users, accounts, profile, res>>

DirectoryInit ==
    /\ users = [s \in Subs |-> NoValue]
    /\ accounts = {}
    /\ profile = [v \in Visits |-> NoValue]
    /\ res = [v \in Visits |-> NoValue]

Arrive(v, p) ==
    /\ profile[v] = NoValue
    /\ profile' = [profile EXCEPT ![v] = p]
    /\ UNCHANGED <<users, accounts, res>>

Enter(v) ==
    /\ profile[v] # NoValue
    /\ users' = [users EXCEPT ![Owner(v)] = profile[v].name]
    /\ accounts' = IF Owned(v) = {} THEN accounts \cup {Opening(v)} ELSE accounts
    /\ UNCHANGED <<profile, res>>

AnswerWith(v, answer) ==
    /\ profile[v] # NoValue
    /\ res[v] = NoValue
    /\ res' = [res EXCEPT ![v] = answer]
    /\ UNCHANGED <<users, accounts, profile>>

AnswerOwned(v) ==
    /\ profile[v] # NoValue
    /\ \E a \in Owned(v) : AnswerWith(v, a)

DirectoryNext ==
    \E v \in Visits :
        \/ \E p \in Profile : Arrive(v, p)
        \/ Enter(v)
        \/ AnswerOwned(v)
        \/ AnswerWith(v, Failed)

DirectorySpec == DirectoryInit /\ [][DirectoryNext]_directory
=============================================================================

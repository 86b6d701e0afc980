------------------------------ MODULE SignIn ------------------------------
(***************************************************************************)
(* signIn() and openAccount() of src/users.ts: a verified Google profile   *)
(* becomes a user and the one account that user owns, in one READ          *)
(* COMMITTED transaction per visit:                                        *)
(*                                                                         *)
(*   connect -> upsert -> find [-> open] -> commit -> ack -> done          *)
(*                                                                         *)
(* The upsert keeps the user's row, new or not, locked until the           *)
(* transaction ends; an account inserted and not committed keeps its entry *)
(* in the unique index accounts_user_id_key. A user is known by its Google *)
(* `sub`, an account by the visit that opened it.                          *)
(***************************************************************************)
EXTENDS Directory

CONSTANT PoolMax    \* PG_POOL_MAX

ASSUME SignInAssumption == PoolMax \in Nat \ {0}

VARIABLES
    pc,         \* where each visit is; users and accounts are the committed tables
    upserted,   \* the visits whose upsert is not committed yet
    opened,     \* the visits whose INSERT of an account is not committed yet
    account     \* the account signIn() has in hand

vars == <<directory, pc, upserted, opened, account>>

Connected == {"upsert", "find", "open", "commit", "ack", "rollback"}
Orphaned == {"orphan", "orphan_commit"}

-----------------------------------------------------------------------------
At(v, place) == pc[v] = place

Goto(v, place) == pc' = [pc EXCEPT ![v] = place]

Answer(v, outcome) == res' = [res EXCEPT ![v] = outcome]

Keep(v, a) == account' = [account EXCEPT ![v] = a]

\* Fault variant: users are not unique per google_sub.
UserShared(v) == FALSE

\* Another visit holds this user's row, or its entry in the unique index.
UserLocked(v) == \E w \in upserted \ {v} : Owner(w) = Owner(v)

\* Another visit holds this user's entry in accounts_user_id_key.
AccountClaimed(v) == \E w \in opened \ {v} : Owner(w) = Owner(v)

Publish(v) ==
    /\ users' = IF v \in upserted THEN [users EXCEPT ![Owner(v)] = profile[v].name] ELSE users
    /\ accounts' = IF v \in opened THEN accounts \cup {Opening(v)} ELSE accounts

EndSession(v) ==
    /\ upserted' = upserted \ {v}
    /\ opened' = opened \ {v}

Tables == <<users, accounts>>
Session == <<upserted, opened>>

-----------------------------------------------------------------------------
Init ==
    /\ DirectoryInit
    /\ pc = [v \in Visits |-> "idle"]
    /\ upserted = {}
    /\ opened = {}
    /\ account = [v \in Visits |-> NoValue]

Receive(v, p) ==
    /\ At(v, "idle")
    /\ profile' = [profile EXCEPT ![v] = p]
    /\ Goto(v, "connect")
    /\ UNCHANGED <<Tables, res, Session, account>>

Connect(v) ==
    /\ At(v, "connect")
    /\ Cardinality({w \in Visits : pc[w] \in Connected}) < PoolMax
    /\ Goto(v, "upsert")
    /\ UNCHANGED <<Tables, profile, res, Session, account>>

\* Fault variant: the upsert commits on its own, before the account is opened.
UpsertCommitted(v) ==
    /\ At(v, "upsert")
    /\ ~UserLocked(v)
    /\ users' = [users EXCEPT ![Owner(v)] = profile[v].name]
    /\ Goto(v, "find")
    /\ UNCHANGED <<accounts, profile, res, Session, account>>

\* BEGIN and UPSERT_USER, which waits for whoever is writing the same user.
Upsert(v) ==
    /\ At(v, "upsert")
    /\ ~UserLocked(v)
    /\ upserted' = upserted \cup {v}
    /\ Goto(v, "find")
    /\ UNCHANGED <<Tables, profile, res, opened, account>>

\* SELECT ... WHERE user_id = $1.
Find(v) ==
    /\ At(v, "find")
    /\ \/ \E a \in Owned(v) : Keep(v, a) /\ Goto(v, "commit")
       \/ Owned(v) = {} /\ Goto(v, "open") /\ UNCHANGED account
    /\ UNCHANGED <<Tables, profile, res, Session>>

(***************************************************************************)
(* openAccount: the INSERT waits for an uncommitted account of the same    *)
(* user and raises 23505 against a committed one. That has aborted the     *)
(* transaction, so the catch block's SELECT is refused and the error, not  *)
(* the winner's account, reaches the caller.                               *)
(***************************************************************************)
Open(v) ==
    /\ At(v, "open")
    /\ ~AccountClaimed(v)
    /\ \/ /\ Owned(v) = {}
          /\ opened' = opened \cup {v}
          /\ Keep(v, Opening(v))
          /\ Goto(v, "commit")
          /\ UNCHANGED res
       \/ /\ Owned(v) # {}
          /\ Answer(v, Failed)
          /\ Goto(v, "rollback")
          /\ UNCHANGED <<opened, account>>
    /\ UNCHANGED <<Tables, profile, upserted>>

Commit(v) ==
    /\ At(v, "commit")
    /\ Publish(v)
    /\ EndSession(v)
    /\ Goto(v, "ack")
    /\ UNCHANGED <<profile, res, account>>

\* Fault variant: the visit is answered with an account of its own.
ReturnOpening(v) ==
    /\ At(v, "ack")
    /\ Answer(v, Opening(v))
    /\ Goto(v, "done")
    /\ UNCHANGED <<Tables, profile, Session, account>>

\* COMMIT has succeeded: the route mints a session for (user, account).
Return(v) ==
    /\ At(v, "ack")
    /\ Answer(v, account[v])
    /\ Goto(v, "done")
    /\ UNCHANGED <<Tables, profile, Session, account>>

\* Fault variant: the client is released with its transaction open.
ReleaseOnly(v) ==
    /\ At(v, "rollback")
    /\ Goto(v, "done")
    /\ UNCHANGED <<Tables, profile, res, Session, account>>

Rollback(v) ==
    /\ At(v, "rollback")
    /\ EndSession(v)
    /\ Goto(v, "done")
    /\ UNCHANGED <<Tables, profile, res, account>>

-----------------------------------------------------------------------------
\* Postgres refuses a statement and the connection survives.
StatementFails(v) ==
    /\ pc[v] \in {"upsert", "find", "open"}
    /\ Answer(v, Failed)
    /\ Goto(v, "rollback")
    /\ UNCHANGED <<Tables, profile, Session, account>>

Abandoned(place) ==
    CASE place \in Connected -> "orphan"
      [] place = "connect" -> "done"
      [] OTHER -> place

\* The connection breaks; a COMMIT already delivered still takes effect.
ConnectionLost(v) ==
    /\ pc[v] \in Connected
    /\ Answer(v, Failed)
    /\ \/ Goto(v, Abandoned(pc[v]))
       \/ At(v, "commit") /\ Goto(v, "orphan_commit")
    /\ UNCHANGED <<Tables, profile, Session, account>>

\* The process dies, and nobody is answered.
Crash ==
    /\ \E v \in Visits : pc[v] \in Connected \cup {"connect"}
    /\ \E delivered \in SUBSET {v \in Visits : pc[v] = "commit"} :
          pc' = [v \in Visits |-> IF v \in delivered THEN "orphan_commit" ELSE Abandoned(pc[v])]
    /\ UNCHANGED <<Tables, profile, res, Session, account>>

EndOrphan(v) ==
    /\ \/ At(v, "orphan") /\ UNCHANGED Tables
       \/ At(v, "orphan_commit") /\ Publish(v)
    /\ EndSession(v)
    /\ Goto(v, "done")
    /\ UNCHANGED <<profile, res, account>>

-----------------------------------------------------------------------------
Serve(v) ==
    \/ Connect(v) \/ Upsert(v) \/ Find(v) \/ Open(v)
    \/ Commit(v) \/ Return(v) \/ Rollback(v) \/ EndOrphan(v)

Next ==
    \/ \E v \in Visits, p \in Profile : Receive(v, p)
    \/ \E v \in Visits : Serve(v) \/ StatementFails(v) \/ ConnectionLost(v)
    \/ Crash

Spec == Init /\ [][Next]_vars

\* Each visit is its own chain of awaits; Postgres ends orphaned sessions.
FairSpec == Spec /\ \A v \in Visits : WF_vars(Serve(v))

-----------------------------------------------------------------------------
\* Every variable keeps its type, over every interleaving, fault and crash.
TypeOK ==
    /\ users \in [Subs -> Names \cup {NoValue}]
    /\ accounts \subseteq Account
    /\ profile \in [Visits -> Profile \cup {NoValue}]
    /\ res \in [Visits -> Account \cup {NoValue, Failed}]
    /\ pc \in [Visits -> {"idle", "connect", "done"} \cup Connected \cup Orphaned]
    /\ upserted \subseteq Visits
    /\ opened \subseteq Visits
    /\ account \in [Visits -> Account \cup {NoValue}]

(***************************************************************************)
(* "One account per user", however many tabs sign in for the first time at *)
(* once, and whatever happened to the attempts before; and a user is never *)
(* seen without an account, nor an account without its user: findIdentity  *)
(* finds both or neither, so a session that names a user is good for /me   *)
(* and for /me/account alike.                                              *)
(***************************************************************************)
OneAccountEach ==
    /\ \A a, b \in accounts : a.user = b.user => a = b
    /\ \A s \in Subs : users[s] # NoValue <=> \E a \in accounts : a.user = s

(***************************************************************************)
(* The INSERT of openAccount neither waits nor conflicts: the upsert has   *)
(* locked the user before, so racing sign-ins queue there and the later    *)
(* one finds the account. The catch block is never entered.                *)
(***************************************************************************)
NoAccountConflict ==
    \A v \in Visits : At(v, "open") => Owned(v) = {} /\ ~AccountClaimed(v)

(***************************************************************************)
(* Every visit looks as if it entered the directory in one step, and the   *)
(* account a session is minted for is committed and its user's own.        *)
(***************************************************************************)
ImplementsDirectory == DirectorySpec

\* A visit that asks the pool for a client ends, whatever the pool's size.
EveryVisitEnds ==
    \A v \in Visits : At(v, "connect") ~> At(v, "done")
=============================================================================

------------------------------- MODULE Access -------------------------------
(***************************************************************************)
(* Who reaches which account: the guard of src/routes.ts, the session      *)
(* cookie of src/session.ts and the /me surface of src/authRoutes.ts.      *)
(* A call is one HTTP request of a browser; it carries the cookie the      *)
(* browser held when it was sent, and its answer may set or clear it.      *)
(*                                                                         *)
(*   route -> guard -> handler -> reply -> done        /accounts/:id       *)
(*   route -> handler -> reply -> done                 /me/withdraw        *)
(*   route -> identity -> reply -> done                /me                 *)
(*                                                                         *)
(* Between any two of these steps the awaits of other calls run, the clock *)
(* moves, the process may be restarted and a user may be removed from the  *)
(* database by its operator. Ids are UUIDs: never issued twice, and named  *)
(* by a client only once they are issued. Signing in is one step on the    *)
(* directory, which is what SignIn implements.                             *)
(***************************************************************************)
EXTENDS Integers, FiniteSets

CONSTANTS
    Calls,
    Browsers,
    Subs,           \* Google subjects
    Users,          \* user ids
    Accounts,       \* account ids
    Ttl,            \* SESSION_TTL_SECONDS, in ticks
    Horizon,        \* bound: the last tick
    MaxRestarts,    \* bound: restarts of the process
    Anonymous,      \* the owner of an account that has none
    Cleared, Kept,  \* what an answer without a session does to the cookie
    NoValue         \* no row, no cookie, no call, no answer

Session == [user : Users, account : Accounts, expiresAt : Nat, secret : 0..MaxRestarts]

Routes == {"accounts/withdraw", "me", "me/withdraw", "auth/google", "auth/logout"}

Call == [browser : Browsers, route : Routes, target : Accounts \cup Subs \cup {NoValue},
         session : Session \cup {NoValue}, sentAt : Nat]

\* An answer: its status, the account it shows, and what it does to the cookie.
Reply == [status : {200, 201, 401, 403, 404}, shows : Accounts \cup {NoValue},
          cookie : Session \cup {Cleared, Kept}]

ASSUME AccessAssumption ==
    /\ Ttl \in Nat \ {0}
    /\ Horizon \in Nat /\ MaxRestarts \in Nat
    /\ Anonymous \notin Users
    /\ NoValue \notin Users \cup {Anonymous} \cup Subs \cup Accounts \cup Session \cup Call \cup Reply
    /\ {Kept, Cleared} \cap Session = {} /\ Cleared # Kept

VARIABLES
    sub,            \* the users table: the subject of each user, or NoValue
    owner,          \* the accounts table: the owner of each account, or NoValue
    issued,         \* the user and account ids that have been issued
    now,
    secret,         \* the secret of the running process
    configured,     \* whether SESSION_SECRET is set, so that it survives restarts
    cookie,         \* the session cookie each browser holds
    call,           \* what each call asks for, and the cookie it carries
    pc,             \* where each call is
    seen,           \* the owner its guard has read
    account,        \* the account its handler works on
    reply,          \* its answer
    moved,          \* history: whose account the call withdrew from
    entered         \* history: the users each browser has signed in as

vars == <<sub, owner, issued, now, secret, configured, cookie, call, pc, seen, account,
          reply, moved, entered>>

tables == <<sub, owner, issued>>
process == <<now, secret, configured>>
history == <<moved, entered>>

-----------------------------------------------------------------------------
Goto(c, place) == pc' = [pc EXCEPT ![c] = place]

WorkOn(c, a) == account' = [account EXCEPT ![c] = a]

Answer(c, status, shows, jar) ==
    /\ reply' = [reply EXCEPT ![c] = [status |-> status, shows |-> shows, cookie |-> jar]]
    /\ Goto(c, "reply")

\* Fault variant: the time stamp of a session is not looked at.
GoodUndated(s) == s # NoValue /\ s.secret = secret

\* readSession: signed by this process's secret, and not expired.
Good(s) == s # NoValue /\ s.secret = secret /\ s.expiresAt > now

\* Fault variant: the session is minted before there is an account.
MintUser(u, a) ==
    [user |-> u, account |-> NoValue, expiresAt |-> now + Ttl, secret |-> secret]

\* mintSession.
Mint(u, a) == [user |-> u, account |-> a, expiresAt |-> now + Ttl, secret |-> secret]

\* SELECT * FROM accounts WHERE user_id = $1.
OwnedBy(u) == {a \in Accounts : owner[a] = u}

-----------------------------------------------------------------------------
Init ==
    /\ sub = [u \in Users |-> NoValue]
    /\ owner = [a \in Accounts |-> NoValue]
    /\ issued = {}
    /\ now = 0
    /\ secret = 0
    /\ configured \in BOOLEAN
    /\ cookie = [b \in Browsers |-> NoValue]
    /\ call = [c \in Calls |-> NoValue]
    /\ pc = [c \in Calls |-> "idle"]
    /\ seen = [c \in Calls |-> NoValue]
    /\ account = [c \in Calls |-> NoValue]
    /\ reply = [c \in Calls |-> NoValue]
    /\ moved = [c \in Calls |-> NoValue]
    /\ entered = [b \in Browsers |-> {}]

Send(c, b, route, target, session) ==
    /\ pc[c] = "idle"
    /\ call' = [call EXCEPT ![c] = [browser |-> b, route |-> route, target |-> target,
                                    session |-> session, sentAt |-> now]]
    /\ Goto(c, "route")
    /\ UNCHANGED <<tables, process, cookie, seen, account, reply, history>>

\* A browser asks for one of the routes, naming an id it can know of. Signing
\* in and out does not look at the cookie.
Request(c, b) ==
    \/ \E a \in Accounts \cap issued : Send(c, b, "accounts/withdraw", a, cookie[b])
    \/ \E route \in {"me", "me/withdraw"} : Send(c, b, route, NoValue, cookie[b])
    \/ \E s \in Subs : Send(c, b, "auth/google", s, NoValue)
    \/ Send(c, b, "auth/logout", NoValue, NoValue)

-----------------------------------------------------------------------------
\* POST /accounts: an account without an owner.
CreateAnonymous(a) ==
    /\ a \notin issued
    /\ owner' = [owner EXCEPT ![a] = Anonymous]
    /\ issued' = issued \cup {a}
    /\ UNCHANGED <<sub, process, cookie, call, pc, seen, account, reply, history>>

Takes(c, route) == pc[c] = "route" /\ call[c].route = route

\* guardOwnedAccount asks for the owner.
ReadOwner(c) ==
    /\ Takes(c, "accounts/withdraw")
    /\ seen' = [seen EXCEPT ![c] = owner[call[c].target]]
    /\ Goto(c, "guard")
    /\ UNCHANGED <<tables, process, cookie, call, account, reply, history>>

\* Fault variant: any session opens any account.
AdmitsAnySession(c) == seen[c] \in {NoValue, Anonymous} \/ Good(call[c].session)

\* No such account and no owner are both let through.
Admits(c) ==
    \/ seen[c] \in {NoValue, Anonymous}
    \/ Good(call[c].session) /\ call[c].session.user = seen[c]

\* guardOwnedAccount goes on with the owner it has read.
Guard(c) ==
    /\ pc[c] = "guard"
    /\ seen' = [seen EXCEPT ![c] = NoValue]
    /\ \/ /\ Admits(c)
          /\ WorkOn(c, call[c].target)
          /\ Goto(c, "handler")
          /\ UNCHANGED reply
       \/ /\ ~Admits(c)
          /\ Answer(c, IF Good(call[c].session) THEN 403 ELSE 401, NoValue, Kept)
          /\ UNCHANGED account
    /\ UNCHANGED <<tables, process, cookie, call, history>>

\* requireSession of POST /me/withdraw: the account is the session's.
RequireSession(c) ==
    /\ Takes(c, "me/withdraw")
    /\ \/ /\ Good(call[c].session)
          /\ WorkOn(c, call[c].session.account)
          /\ Goto(c, "handler")
          /\ UNCHANGED reply
       \/ /\ ~Good(call[c].session)
          /\ Answer(c, 401, NoValue, Kept)
          /\ UNCHANGED account
    /\ UNCHANGED <<tables, process, cookie, call, seen, history>>

\* Both handlers: withdraw() finds the account, or answers 404.
Handle(c) ==
    /\ pc[c] = "handler"
    /\ \/ /\ owner[account[c]] # NoValue
          /\ moved' = [moved EXCEPT ![c] = owner[account[c]]]
          /\ Answer(c, 201, account[c], Kept)
       \/ /\ owner[account[c]] = NoValue
          /\ Answer(c, 404, NoValue, Kept)
          /\ UNCHANGED moved
    /\ WorkOn(c, NoValue)
    /\ UNCHANGED <<tables, process, cookie, call, seen, entered>>

\* Fault variant: every 401 clears the cookie.
MeClears(c) ==
    /\ Takes(c, "me")
    /\ LET session == call[c].session
       IN  \/ ~Good(session) /\ Answer(c, 401, NoValue, Cleared)
           \/ Good(session) /\ sub[session.user] = NoValue /\ Answer(c, 401, NoValue, Cleared)
           \/ Good(session) /\ sub[session.user] # NoValue /\ Goto(c, "identity") /\ UNCHANGED reply
    /\ UNCHANGED <<tables, process, cookie, call, seen, account, history>>

(***************************************************************************)
(* GET /me: requireSession, and the first SELECT of findIdentity. A cookie *)
(* that outlived its user is cleared; one that is no good is left alone.   *)
(***************************************************************************)
Me(c) ==
    /\ Takes(c, "me")
    /\ LET session == call[c].session
       IN  \/ ~Good(session) /\ Answer(c, 401, NoValue, Kept)
           \/ Good(session) /\ sub[session.user] = NoValue /\ Answer(c, 401, NoValue, Cleared)
           \/ Good(session) /\ sub[session.user] # NoValue /\ Goto(c, "identity") /\ UNCHANGED reply
    /\ UNCHANGED <<tables, process, cookie, call, seen, account, history>>

\* The second SELECT of findIdentity, in a transaction of its own.
MeAccount(c) ==
    /\ pc[c] = "identity"
    /\ \/ \E a \in OwnedBy(call[c].session.user) : Answer(c, 200, a, Kept)
       \/ OwnedBy(call[c].session.user) = {} /\ Answer(c, 401, NoValue, Cleared)
    /\ UNCHANGED <<tables, process, cookie, call, seen, account, history>>

\* The call has signed in as u, whose account is a.
Welcome(c, u, a) ==
    /\ Answer(c, 200, a, Mint(u, a))
    /\ entered' = [entered EXCEPT ![call[c].browser] = @ \cup {u}]

\* Fault variant: every visit opens an account.
GoogleOpens(c) ==
    /\ Takes(c, "auth/google")
    /\ \E u \in Users, a \in Accounts \ issued :
          /\ IF \E v \in Users : sub[v] = call[c].target
             THEN sub[u] = call[c].target ELSE u \notin issued
          /\ sub' = [sub EXCEPT ![u] = call[c].target]
          /\ owner' = [owner EXCEPT ![a] = u]
          /\ issued' = issued \cup {u, a}
          /\ Welcome(c, u, a)
    /\ UNCHANGED <<process, cookie, call, seen, account, moved>>

\* POST /auth/google: the user of the subject, new or not, and a session.
Google(c) ==
    /\ Takes(c, "auth/google")
    /\ \/ \E u \in Users, a \in Accounts :
             /\ sub[u] = call[c].target
             /\ owner[a] = u
             /\ Welcome(c, u, a)
             /\ UNCHANGED tables
       \/ /\ \A u \in Users : sub[u] # call[c].target
          /\ \E u \in Users \ issued, a \in Accounts \ issued :
                /\ sub' = [sub EXCEPT ![u] = call[c].target]
                /\ owner' = [owner EXCEPT ![a] = u]
                /\ issued' = issued \cup {u, a}
                /\ Welcome(c, u, a)
    /\ UNCHANGED <<process, cookie, call, seen, account, moved>>

\* POST /auth/logout looks at nothing.
Logout(c) ==
    /\ Takes(c, "auth/logout")
    /\ Answer(c, 200, NoValue, Cleared)
    /\ UNCHANGED <<tables, process, cookie, call, seen, account, history>>

-----------------------------------------------------------------------------
\* The answer reaches the browser, in whatever order answers do.
Deliver(c) ==
    /\ pc[c] = "reply"
    /\ cookie' = [cookie EXCEPT ![call[c].browser] =
                     CASE reply[c].cookie = Kept -> @
                       [] reply[c].cookie = Cleared -> NoValue
                       [] OTHER -> reply[c].cookie]
    /\ reply' = [reply EXCEPT ![c] = NoValue]
    /\ Goto(c, "done")
    /\ UNCHANGED <<tables, process, call, seen, account, history>>

\* The process is restarted: what it was serving is lost, and so is a secret
\* it drew for itself.
Restart ==
    /\ secret < MaxRestarts
    /\ pc' = [c \in Calls |-> IF pc[c] \in {"route", "guard", "identity", "handler"} THEN "done" ELSE pc[c]]
    /\ secret' = IF configured THEN secret ELSE secret + 1
    /\ seen' = [c \in Calls |-> NoValue]
    /\ account' = [c \in Calls |-> NoValue]
    /\ UNCHANGED <<tables, now, configured, cookie, call, reply, history>>

Tick ==
    /\ now < Horizon
    /\ now' = now + 1
    /\ UNCHANGED <<tables, secret, configured, cookie, call, pc, seen, account, reply, history>>

\* Fault variant: the account outlives its user.
RemoveUserOnly(u) ==
    /\ sub[u] # NoValue
    /\ sub' = [sub EXCEPT ![u] = NoValue]
    /\ UNCHANGED <<owner, issued, process, cookie, call, pc, seen, account, reply, history>>

\* DELETE FROM users, by hand: ON DELETE CASCADE takes the account along.
RemoveUser(u) ==
    /\ sub[u] # NoValue
    /\ sub' = [sub EXCEPT ![u] = NoValue]
    /\ owner' = [a \in Accounts |-> IF owner[a] = u THEN NoValue ELSE owner[a]]
    /\ UNCHANGED <<issued, process, cookie, call, pc, seen, account, reply, history>>

-----------------------------------------------------------------------------
Next ==
    \/ \E c \in Calls, b \in Browsers : Request(c, b)
    \/ \E a \in Accounts : CreateAnonymous(a)
    \/ \E c \in Calls :
          \/ ReadOwner(c) \/ Guard(c) \/ RequireSession(c) \/ Handle(c) \/ Me(c) \/ MeAccount(c)
          \/ Google(c) \/ Logout(c) \/ Deliver(c)
    \/ Restart
    \/ Tick
    \/ \E u \in Users : RemoveUser(u)

Spec == Init /\ [][Next]_vars
-----------------------------------------------------------------------------
\* Every variable keeps its type.
TypeOK ==
    /\ sub \in [Users -> Subs \cup {NoValue}]
    /\ owner \in [Accounts -> Users \cup {Anonymous, NoValue}]
    /\ issued \subseteq Users \cup Accounts
    /\ now \in 0..Horizon
    /\ secret \in 0..MaxRestarts
    /\ configured \in BOOLEAN
    /\ cookie \in [Browsers -> Session \cup {NoValue}]
    /\ call \in [Calls -> Call \cup {NoValue}]
    /\ pc \in [Calls -> {"idle", "route", "guard", "handler", "identity", "reply", "done"}]
    /\ seen \in [Calls -> Users \cup {Anonymous, NoValue}]
    /\ account \in [Calls -> Accounts \cup {NoValue}]
    /\ reply \in [Calls -> Reply \cup {NoValue}]
    /\ moved \in [Calls -> Users \cup {Anonymous, NoValue}]
    /\ entered \in [Browsers -> SUBSET Users]

\* A call that has withdrawn from an account somebody owns.
MovedOwned(c) == moved[c] \in Users

(***************************************************************************)
(* README.md:101: "a signed-in user's balance cannot be moved by anyone    *)
(* else". Whoever withdraws from an owned account, by its id or through    *)
(* /me, carries a session of its owner and has signed in as that owner in  *)
(* the same browser, whatever happened between the guard and the handler.  *)
(***************************************************************************)
MovedByOwner ==
    \A c \in Calls : MovedOwned(c) =>
        /\ call[c].session # NoValue
        /\ call[c].session.user = moved[c]
        /\ moved[c] \in entered[call[c].browser]

(***************************************************************************)
(* A session ends with its time and with its secret: a call that withdraws *)
(* from an owned account was sent before its session expired, and is       *)
(* served by the process, or one with the secret, that minted it.          *)
(***************************************************************************)
EndedSessionsMoveNothing ==
    [][\A c \in Calls :
          moved'[c] # moved[c] /\ moved'[c] \in Users =>
              /\ call[c].sentAt < call[c].session.expiresAt
              /\ call[c].session.secret = secret]_vars

\* Every session at large: held by a browser, carried by a call or an answer.
Sessions ==
    ({cookie[b] : b \in Browsers}
        \cup {call[c].session : c \in {d \in Calls : call[d] # NoValue}}
        \cup {reply[c].cookie : c \in {d \in Calls : reply[d] # NoValue}})
    \ {NoValue, Kept, Cleared}

(***************************************************************************)
(* The user and the account of a session live and die together, so the     *)
(* routes that go by the one and those that go by the other agree: /me     *)
(* clears a cookie exactly when /me/withdraw would find no account.        *)
(***************************************************************************)
SessionsNamePairs ==
    \A s \in Sessions :
        /\ owner[s.account] \in {s.user, NoValue}
        /\ owner[s.account] = s.user <=> sub[s.user] # NoValue

(***************************************************************************)
(* What /me shows is what /me/withdraw moves: the account found by the     *)
(* session's user is the account the session names.                        *)
(***************************************************************************)
MeShowsTheSessionsAccount ==
    \A c \in Calls :
        call[c] # NoValue /\ call[c].route = "me" /\ reply[c] # NoValue /\ reply[c].status = 200
            => reply[c].shows = call[c].session.account

(***************************************************************************)
(* authRoutes.ts:81-83: /me takes a cookie away because "it outlived the   *)
(* user it names", and that is still so when its late answer arrives: a    *)
(* cookie that is merely expired, or of another process, is left for the   *)
(* next sign-in to replace.                                                *)
(***************************************************************************)
ClearedForGood ==
    [][\A c \in Calls :
          (pc[c] = "reply" /\ pc'[c] = "done" /\ call[c].route = "me" /\ reply[c].cookie = Cleared)
          => call[c].session # NoValue /\ sub[call[c].session.user] = NoValue]_vars

-----------------------------------------------------------------------------
(* Why these hold: the inductive invariant.                                *)

Asked(c) == call[c] # NoValue

\* An id not issued has no row; a user who owns an account exists, and owns no other.
Rows ==
    /\ \A a \in Accounts : a \notin issued => owner[a] = NoValue
    /\ \A u \in Users : u \notin issued => sub[u] = NoValue
    /\ \A a \in Accounts : owner[a] \in Users => sub[owner[a]] # NoValue
    /\ \A a, b \in Accounts : owner[a] \in Users /\ owner[a] = owner[b] => a = b

\* A call has been asked from Send on, and is answered before it ends.
Stage(c) ==
    /\ pc[c] = "idle" <=> ~Asked(c)
    /\ pc[c] = "idle" => moved[c] = NoValue
    /\ pc[c] = "reply" <=> reply[c] # NoValue
    /\ Asked(c) =>
          /\ call[c].sentAt <= now
          /\ call[c].route = "accounts/withdraw" => call[c].target \in Accounts \cap issued
          /\ call[c].route = "auth/google" => call[c].target \in Subs
    /\ pc[c] = "guard" => call[c].route = "accounts/withdraw"
    /\ pc[c] = "identity" => call[c].route = "me" /\ call[c].session # NoValue
    /\ pc[c] = "handler" => call[c].route # "me"

Stages == \A c \in Calls : Stage(c)

\* s was minted for somebody who signed in at b; its two ids were issued together.
MintedAt(s, b) ==
    /\ s.user \in issued \cap entered[b]
    /\ s.account \in issued
    /\ owner[s.account] \in {s.user, NoValue}
    /\ owner[s.account] = s.user <=> sub[s.user] # NoValue

\* A session stays in the browser that was given it.
Holders ==
    /\ \A b \in Browsers : cookie[b] # NoValue => MintedAt(cookie[b], b)
    /\ \A c \in Calls : Asked(c) /\ call[c].session # NoValue =>
          MintedAt(call[c].session, call[c].browser)
    /\ \A c \in Calls : reply[c] # NoValue /\ reply[c].cookie \notin {Kept, Cleared} =>
          MintedAt(reply[c].cookie, call[c].browser)

\* What c may do if a still has the owner it has now.
Entitled(c, a) ==
    owner[a] \in Users =>
        /\ call[c].session # NoValue
        /\ call[c].session.user = owner[a]
        /\ call[c].session.expiresAt > call[c].sentAt
        /\ call[c].session.secret = secret

\* The guard's knowledge is out of date in one way only: the account is gone.
Guarded(c) ==
    /\ pc[c] = "guard" => owner[call[c].target] \in {seen[c], NoValue}
    /\ pc[c] = "handler" => account[c] \in Accounts \cap issued /\ Entitled(c, account[c])

Guards == \A c \in Calls : Guarded(c)

\* An answer of /me that takes the cookie away does so for good.
Clears(c) ==
    reply[c] # NoValue /\ call[c].route = "me" /\ reply[c].cookie = Cleared =>
        call[c].session # NoValue /\ sub[call[c].session.user] = NoValue

Clearing == \A c \in Calls : Clears(c)

(***************************************************************************)
(* Ids are issued together and once, sessions name ids so issued and stay  *)
(* where they were given, and what a call was admitted for stays its own   *)
(* however long it takes.                                                  *)
(***************************************************************************)
IInv ==
    /\ TypeOK
    /\ Rows
    /\ Stages
    /\ Holders
    /\ Guards
    /\ Clearing
    /\ MovedByOwner
    /\ MeShowsTheSessionsAccount
=============================================================================

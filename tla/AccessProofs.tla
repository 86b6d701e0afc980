--------------------------- MODULE AccessProofs ---------------------------
(***************************************************************************)
(* An owned account is moved by its owner only, a session's user and       *)
(* account live and die together, and /me clears and shows what it should, *)
(* for any number of calls, browsers, people and ids, any time to live and *)
(* any number of restarts.                                                 *)
(***************************************************************************)
EXTENDS Access, TLAPS

LEMMA Sentinels ==
    /\ NoValue \notin Users \cup Subs \cup Accounts \cup Session \cup Call \cup Reply
    /\ NoValue # Anonymous /\ Anonymous \notin Users
    /\ Kept \notin Session /\ Cleared \notin Session /\ Cleared # Kept
BY AccessAssumption DEF AccessAssumption

\* What a call that has been sent carries.
LEMMA CallType ==
    ASSUME TypeOK, Stages, NEW c \in Calls, pc[c] # "idle"
    PROVE  /\ Asked(c) /\ call[c] \in Call /\ call[c].browser \in Browsers
           /\ call[c].session \in Session \cup {NoValue}
           /\ call[c].sentAt \in Nat /\ call[c].sentAt <= now /\ now \in Nat
           /\ call[c].route = "accounts/withdraw" => call[c].target \in Accounts \cap issued
           /\ call[c].route = "auth/google" => call[c].target \in Subs
<1>1. Asked(c) /\ call[c] \in Call
  BY DEF TypeOK, Stages, Stage, Asked
<1>2. Horizon \in Nat
  BY AccessAssumption DEF AccessAssumption
<1>3. now \in Nat
  BY <1>2 DEF TypeOK
<1> QED
  BY <1>1, <1>3 DEF Call, Stages, Stage

LEMMA SessionType ==
    ASSUME NEW s \in Session
    PROVE  s.user \in Users /\ s.account \in Accounts /\ s.expiresAt \in Nat
BY DEF Session

\* readSession lets through what was minted with the secret and is in time.
LEMMA GoodType ==
    ASSUME TypeOK, Stages, NEW c \in Calls, pc[c] # "idle", Good(call[c].session)
    PROVE  /\ call[c].session \in Session /\ call[c].session # NoValue
           /\ call[c].session.user \in Users /\ call[c].session.account \in Accounts
           /\ call[c].session.expiresAt > call[c].sentAt
           /\ call[c].session.secret = secret
<1>1. call[c].session \in Session
  BY CallType DEF Good
<1>2. call[c].session.expiresAt > now
  BY DEF Good
<1> QED
  BY <1>1, <1>2, CallType, SessionType DEF Good

LEMMA MintType ==
    ASSUME TypeOK, NEW u \in Users, NEW a \in Accounts
    PROVE  Mint(u, a) \in Session /\ Mint(u, a).user = u /\ Mint(u, a).account = a
<1>1. now + Ttl \in Nat /\ secret \in 0..MaxRestarts
  <2>1. Ttl \in Nat /\ Horizon \in Nat /\ now \in 0..Horizon /\ secret \in 0..MaxRestarts
    BY AccessAssumption DEF AccessAssumption, TypeOK
  <2> QED
    BY <2>1
<1> QED
  BY <1>1 DEF Mint, Session

\* The call is answered, and nobody else's place or answer changes.
LEMMA Answered ==
    ASSUME TypeOK, NEW c \in Calls, NEW status \in {200, 201, 401, 403, 404},
           NEW shows \in Accounts \cup {NoValue}, NEW jar \in Session \cup {Cleared, Kept},
           Answer(c, status, shows, jar)
    PROVE  /\ reply' \in [Calls -> Reply \cup {NoValue}]
           /\ pc' \in [Calls -> {"idle", "route", "guard", "handler", "identity", "reply", "done"}]
           /\ pc'[c] = "reply" /\ reply'[c] # NoValue
           /\ reply'[c].status = status /\ reply'[c].shows = shows /\ reply'[c].cookie = jar
           /\ \A d \in Calls \ {c} : pc'[d] = pc[d] /\ reply'[d] = reply[d]
<1> DEFINE answer == [status |-> status, shows |-> shows, cookie |-> jar]
<1>1. answer \in Reply
  BY DEF Reply
<1>2. answer # NoValue
  BY <1>1, Sentinels
<1>3. reply' = [reply EXCEPT ![c] = answer] /\ pc' = [pc EXCEPT ![c] = "reply"]
  BY DEF Answer, Goto
<1> QED
  BY <1>1, <1>2, <1>3 DEF TypeOK

-----------------------------------------------------------------------------
(* What each step does to the tables.                                      *)

\* c signs in a new user u and opens the account a.
Opens(c, u, a) ==
    /\ Takes(c, "auth/google")
    /\ \A v \in Users : sub[v] # call[c].target
    /\ u \notin issued /\ a \notin issued
    /\ sub' = [sub EXCEPT ![u] = call[c].target]
    /\ owner' = [owner EXCEPT ![a] = u]
    /\ issued' = issued \cup {u, a}
    /\ Welcome(c, u, a)

\* c signs in u, who owns a.
Returns(c, u, a) ==
    /\ Takes(c, "auth/google")
    /\ sub[u] = call[c].target
    /\ owner[a] = u
    /\ Welcome(c, u, a)
    /\ UNCHANGED tables

LEMMA GoogleSteps ==
    ASSUME NEW c \in Calls, Google(c)
    PROVE  /\ \E u \in Users, a \in Accounts : Returns(c, u, a) \/ Opens(c, u, a)
           /\ UNCHANGED <<process, cookie, call, seen, account, moved>>
BY DEF Google, Returns, Opens

LEMMA TablesChange ==
    ASSUME [Next]_vars
    PROVE  \/ UNCHANGED tables
           \/ \E a \in Accounts : CreateAnonymous(a)
           \/ \E c \in Calls, u \in Users, a \in Accounts : Opens(c, u, a)
           \/ \E u \in Users : RemoveUser(u)
<1>1. ASSUME NEW c \in Calls, Google(c)
      PROVE  UNCHANGED tables \/ \E u \in Users, a \in Accounts : Opens(c, u, a)
  BY <1>1, GoogleSteps DEF Returns
<1>2. ASSUME NEW c \in Calls,
             \/ ReadOwner(c) \/ Guard(c) \/ RequireSession(c) \/ Handle(c) \/ Me(c)
             \/ MeAccount(c) \/ Logout(c) \/ Deliver(c)
      PROVE  UNCHANGED tables
  BY <1>2 DEF ReadOwner, Guard, RequireSession, Handle, Me, MeAccount, Logout, Deliver
<1>3. ASSUME NEW c \in Calls, NEW b \in Browsers, Request(c, b) PROVE UNCHANGED tables
  BY <1>3 DEF Request, Send
<1>4. CASE Restart \/ Tick \/ UNCHANGED vars
  BY <1>4 DEF Restart, Tick, vars, tables
<1> QED
  BY <1>1, <1>2, <1>3, <1>4 DEF Next

LEMMA OpensFacts ==
    ASSUME IInv, NEW c \in Calls, NEW u \in Users, NEW a \in Accounts, Opens(c, u, a)
    PROVE  /\ call[c].target \in Subs /\ pc[c] = "route" /\ call[c].browser \in Browsers
           /\ sub' = [sub EXCEPT ![u] = call[c].target] /\ sub[u] = NoValue /\ sub'[u] # NoValue
           /\ owner' = [owner EXCEPT ![a] = u] /\ owner[a] = NoValue
           /\ \A b \in Accounts : owner[b] # u
<1> TypeOK /\ Stages /\ Rows
  BY DEF IInv
<1>1. pc[c] = "route" /\ call[c].target \in Subs /\ call[c].browser \in Browsers
  BY CallType DEF Opens, Takes
<1>2. sub[u] = NoValue /\ owner[a] = NoValue
  BY DEF Opens, Rows
<1>3. \A b \in Accounts : owner[b] # u
  BY <1>2 DEF Rows
<1> QED
  BY <1>1, <1>2, <1>3, Sentinels DEF Opens, TypeOK

LEMMA RowsNext == IInv /\ [Next]_vars => Rows'
<1> SUFFICES ASSUME IInv, [Next]_vars PROVE Rows'
  OBVIOUS
<1> TypeOK /\ Rows
  BY DEF IInv
<1>0. sub \in [Users -> Subs \cup {NoValue}] /\ owner \in [Accounts -> Users \cup {Anonymous, NoValue}]
  BY DEF TypeOK
<1>1. CASE UNCHANGED tables
  BY <1>1 DEF Rows, tables
<1>2. ASSUME NEW a \in Accounts, CreateAnonymous(a) PROVE Rows'
  BY <1>0, <1>2, Sentinels DEF Rows, CreateAnonymous
<1>3. ASSUME NEW c \in Calls, NEW u \in Users, NEW a \in Accounts, Opens(c, u, a) PROVE Rows'
  <2>1. issued' = issued \cup {u, a}
    BY <1>3 DEF Opens
  <2> QED
    BY <1>0, <1>3, <2>1, OpensFacts DEF Rows
<1>4. ASSUME NEW u \in Users, RemoveUser(u) PROVE Rows'
  BY <1>0, <1>4, Sentinels DEF Rows, RemoveUser
<1> QED
  BY <1>1, <1>2, <1>3, <1>4, TablesChange

\* Ids stay issued. A row once gone does not come back, and a user and an
\* account that were issued together go together.
LEMMA Lasting ==
    ASSUME IInv, [Next]_vars
    PROVE  /\ issued \subseteq issued'
           /\ \A a \in Accounts \cap issued : owner'[a] \in {owner[a], NoValue}
           /\ \A u \in Users \cap issued : sub[u] = NoValue => sub'[u] = NoValue
           /\ \A u \in Users \cap issued, a \in Accounts \cap issued :
                 owner[a] \in {u, NoValue} /\ (owner[a] = u <=> sub[u] # NoValue) =>
                    owner'[a] \in {u, NoValue} /\ (owner'[a] = u <=> sub'[u] # NoValue)
<1> TypeOK /\ Rows
  BY DEF IInv
<1>0. sub \in [Users -> Subs \cup {NoValue}] /\ owner \in [Accounts -> Users \cup {Anonymous, NoValue}]
  BY DEF TypeOK
<1>1. CASE UNCHANGED tables
  BY <1>1 DEF tables
<1>2. ASSUME NEW a \in Accounts, CreateAnonymous(a)
      PROVE  /\ issued \subseteq issued' /\ sub' = sub
             /\ \A b \in Accounts \cap issued : owner'[b] = owner[b]
  BY <1>0, <1>2 DEF CreateAnonymous
<1>3. ASSUME NEW c \in Calls, NEW u \in Users, NEW a \in Accounts, Opens(c, u, a)
      PROVE  /\ issued \subseteq issued'
             /\ \A v \in Users \cap issued : sub'[v] = sub[v]
             /\ \A b \in Accounts \cap issued : owner'[b] = owner[b]
  BY <1>0, <1>3 DEF Opens
<1>4. ASSUME NEW u \in Users, RemoveUser(u)
      PROVE  /\ issued \subseteq issued'
             /\ sub'[u] = NoValue /\ \A v \in Users \ {u} : sub'[v] = sub[v]
             /\ \A b \in Accounts : owner'[b] = IF owner[b] = u THEN NoValue ELSE owner[b]
  BY <1>0, <1>4 DEF RemoveUser
<1> QED
  BY <1>1, <1>2, <1>3, <1>4, TablesChange, Sentinels

-----------------------------------------------------------------------------
LEMMA TypeInit == Init => TypeOK
BY AccessAssumption DEF Init, TypeOK, AccessAssumption

\* A call is sent with the browser's cookie or none, and names what exists.
LEMMA RequestSteps ==
    ASSUME TypeOK, NEW c \in Calls, NEW b \in Browsers, Request(c, b)
    PROVE  /\ pc[c] = "idle" /\ pc' = [pc EXCEPT ![c] = "route"] /\ pc'[c] = "route"
           /\ call' \in [Calls -> Call \cup {NoValue}] /\ call'[c] # NoValue
           /\ call'[c].browser = b /\ call'[c].sentAt = now
           /\ call'[c].session = cookie[b] \/ call'[c].session = NoValue
           /\ call'[c].route = "accounts/withdraw" => call'[c].target \in Accounts \cap issued
           /\ call'[c].route = "auth/google" => call'[c].target \in Subs
           /\ UNCHANGED <<tables, process, cookie, seen, account, reply, history>>
<1>1. PICK route \in Routes, target \in Accounts \cup Subs \cup {NoValue},
           session \in {cookie[b], NoValue} :
          /\ Send(c, b, route, target, session)
          /\ route = "accounts/withdraw" => target \in Accounts \cap issued
          /\ route = "auth/google" => target \in Subs
  BY DEF Request, Routes
<1>2. now \in Nat /\ session \in Session \cup {NoValue}
  BY AccessAssumption DEF AccessAssumption, TypeOK
<1> DEFINE asks == [browser |-> b, route |-> route, target |-> target,
                    session |-> session, sentAt |-> now]
<1>3. asks \in Call /\ asks # NoValue
  <2>1. asks \in Call
    BY <1>2 DEF Call
  <2> QED
    BY <2>1, Sentinels
<1>4. /\ asks.browser = b /\ asks.sentAt = now /\ asks.session = session
      /\ asks.route = route /\ asks.target = target
  OBVIOUS
<1>5. /\ pc[c] = "idle" /\ pc' = [pc EXCEPT ![c] = "route"] /\ call' = [call EXCEPT ![c] = asks]
      /\ UNCHANGED <<tables, process, cookie, seen, account, reply, history>>
  BY <1>1 DEF Send, Goto
<1>6. call' \in [Calls -> Call \cup {NoValue}] /\ call'[c] = asks /\ pc'[c] = "route"
  BY <1>3, <1>5 DEF TypeOK
<1> HIDE DEF asks
<1> QED
  BY <1>1, <1>3, <1>4, <1>5, <1>6

\* The parts of TypeOK that an answer changes.
AnswerTypes ==
    /\ reply \in [Calls -> Reply \cup {NoValue}]
    /\ pc \in [Calls -> {"idle", "route", "guard", "handler", "identity", "reply", "done"}]

LEMMA AnswerKeepsTypes ==
    ASSUME TypeOK, NEW c \in Calls, NEW status \in {200, 201, 401, 403, 404},
           NEW shows \in Accounts \cup {NoValue}, NEW jar \in Session \cup {Cleared, Kept},
           Answer(c, status, shows, jar)
    PROVE  AnswerTypes'
BY Answered DEF AnswerTypes

LEMMA TypeNext == IInv /\ [Next]_vars => TypeOK'
<1> SUFFICES ASSUME IInv, [Next]_vars PROVE TypeOK'
  OBVIOUS
<1> TypeOK /\ Stages /\ Guards
  BY DEF IInv
<1> USE DEF tables, process, history, Goto, WorkOn
<1>1. ASSUME NEW c \in Calls, NEW b \in Browsers, Request(c, b) PROVE TypeOK'
  <2>1. /\ call' \in [Calls -> Call \cup {NoValue}]
        /\ pc' = [pc EXCEPT ![c] = "route"]
        /\ UNCHANGED <<tables, process, cookie, seen, account, reply, history>>
    BY <1>1, RequestSteps
  <2> QED
    BY <2>1 DEF TypeOK
<1>2. ASSUME NEW a \in Accounts, CreateAnonymous(a) PROVE TypeOK'
  BY <1>2 DEF CreateAnonymous, TypeOK
<1>3. ASSUME NEW c \in Calls, ReadOwner(c) PROVE TypeOK'
  <2>1. call[c].target \in Accounts
    BY <1>3, CallType DEF ReadOwner, Takes
  <2> QED
    BY <1>3, <2>1 DEF ReadOwner, TypeOK
<1>4. ASSUME NEW c \in Calls, Guard(c) PROVE TypeOK'
  <2>1. call[c].target \in Accounts
    BY <1>4, CallType DEF Guard, Stages, Stage
  <2>2. CASE Admits(c)
    BY <1>4, <2>1, <2>2 DEF Guard, TypeOK
  <2>3. CASE ~Admits(c)
    <3>1. PICK status \in {401, 403} : Answer(c, status, NoValue, Kept)
      BY <1>4, <2>3 DEF Guard
    <3>2. AnswerTypes'
      BY <3>1, AnswerKeepsTypes
    <3>3. /\ seen' = [seen EXCEPT ![c] = NoValue] /\ account' = account
          /\ UNCHANGED <<tables, process, cookie, call, history>>
      BY <1>4, <2>3 DEF Guard
    <3> QED
      BY <3>2, <3>3 DEF TypeOK, AnswerTypes
  <2> QED
    BY <2>2, <2>3
<1>5. ASSUME NEW c \in Calls, RequireSession(c) PROVE TypeOK'
  <2>1. CASE Good(call[c].session)
    <3>1. call[c].session.account \in Accounts
      BY <1>5, <2>1, GoodType DEF RequireSession, Takes
    <3> QED
      BY <1>5, <2>1, <3>1 DEF RequireSession, TypeOK
  <2>2. CASE ~Good(call[c].session)
    <3>1. AnswerTypes'
      BY <1>5, <2>2, AnswerKeepsTypes DEF RequireSession
    <3> QED
      BY <1>5, <2>2, <3>1 DEF RequireSession, TypeOK, AnswerTypes
  <2> QED
    BY <2>1, <2>2
<1>6. ASSUME NEW c \in Calls, Handle(c) PROVE TypeOK'
  <2>1. account[c] \in Accounts
    BY <1>6 DEF Handle, Guards, Guarded
  <2>2. PICK status \in {201, 404}, shows \in Accounts \cup {NoValue} : Answer(c, status, shows, Kept)
    BY <1>6, <2>1 DEF Handle
  <2>3. moved' \in [Calls -> Users \cup {Anonymous, NoValue}]
    BY <1>6, <2>1 DEF Handle, TypeOK
  <2>4. AnswerTypes'
    BY <2>2, AnswerKeepsTypes
  <2> QED
    BY <1>6, <2>3, <2>4 DEF Handle, TypeOK, AnswerTypes
<1>7. ASSUME NEW c \in Calls, Me(c) PROVE TypeOK'
  <2>1. CASE \E jar \in {Kept, Cleared} : Answer(c, 401, NoValue, jar)
    <3>1. AnswerTypes'
      BY <2>1, AnswerKeepsTypes
    <3> QED
      BY <1>7, <3>1 DEF Me, TypeOK, AnswerTypes
  <2>2. CASE Goto(c, "identity") /\ UNCHANGED reply
    BY <1>7, <2>2 DEF Me, TypeOK
  <2> QED
    BY <1>7, <2>1, <2>2 DEF Me
<1>8. ASSUME NEW c \in Calls, MeAccount(c) PROVE TypeOK'
  <2>1. PICK status \in {200, 401}, shows \in Accounts \cup {NoValue}, jar \in {Kept, Cleared} :
            Answer(c, status, shows, jar)
    BY <1>8 DEF MeAccount, OwnedBy
  <2>2. AnswerTypes'
    BY <2>1, AnswerKeepsTypes
  <2> QED
    BY <1>8, <2>2 DEF MeAccount, TypeOK, AnswerTypes
<1>9. ASSUME NEW c \in Calls, Google(c) PROVE TypeOK'
  <2>1. PICK u \in Users, a \in Accounts : Returns(c, u, a) \/ Opens(c, u, a)
    BY <1>9, GoogleSteps
  <2>2. Answer(c, 200, a, Mint(u, a)) /\ Mint(u, a) \in Session
    BY <2>1, MintType DEF Returns, Opens, Welcome
  <2>3. entered' \in [Browsers -> SUBSET Users]
    BY <2>1 DEF Returns, Opens, Welcome, TypeOK
  <2>4. /\ sub' \in [Users -> Subs \cup {NoValue}]
        /\ owner' \in [Accounts -> Users \cup {Anonymous, NoValue}]
        /\ issued' \subseteq Users \cup Accounts
    <3>1. CASE Returns(c, u, a)
      BY <3>1 DEF Returns, TypeOK
    <3>2. CASE Opens(c, u, a)
      <4>1. sub' = [sub EXCEPT ![u] = call[c].target] /\ owner' = [owner EXCEPT ![a] = u]
            /\ issued' = issued \cup {u, a} /\ call[c].target \in Subs
        BY <3>2, OpensFacts DEF Opens
      <4> QED
        BY <4>1 DEF TypeOK
    <3> QED
      BY <2>1, <3>1, <3>2
  <2>5. AnswerTypes' /\ UNCHANGED <<process, cookie, call, seen, account, moved>>
    BY <1>9, <2>2, GoogleSteps, AnswerKeepsTypes
  <2> QED
    BY <2>3, <2>4, <2>5 DEF TypeOK, AnswerTypes
<1>10. ASSUME NEW c \in Calls, Logout(c) PROVE TypeOK'
  <2>1. AnswerTypes'
    BY <1>10, AnswerKeepsTypes DEF Logout
  <2> QED
    BY <1>10, <2>1 DEF Logout, TypeOK, AnswerTypes
<1>11. ASSUME NEW c \in Calls, Deliver(c) PROVE TypeOK'
  <2>1. reply[c] \in Reply
    BY <1>11 DEF Deliver, Stages, Stage, TypeOK
  <2>2. reply[c].cookie \in Session \cup {Cleared, Kept}
    BY <2>1 DEF Reply
  <2>3. cookie' \in [Browsers -> Session \cup {NoValue}]
    BY <1>11, <2>2 DEF Deliver, TypeOK
  <2> QED
    BY <1>11, <2>3 DEF Deliver, TypeOK
<1>12. CASE Restart
  <2>1. secret' \in 0..MaxRestarts
    BY <1>12, AccessAssumption DEF Restart, TypeOK, AccessAssumption
  <2> QED
    BY <1>12, <2>1 DEF Restart, TypeOK
<1>13. CASE Tick
  <2>1. now' \in 0..Horizon
    BY <1>13, AccessAssumption DEF Tick, TypeOK, AccessAssumption
  <2> QED
    BY <1>13, <2>1 DEF Tick, TypeOK
<1>14. ASSUME NEW u \in Users, RemoveUser(u) PROVE TypeOK'
  BY <1>14 DEF RemoveUser, TypeOK
<1>15. CASE UNCHANGED vars
  BY <1>15 DEF vars, TypeOK
<1> QED
  BY <1>1, <1>2, <1>3, <1>4, <1>5, <1>6, <1>7, <1>8, <1>9, <1>10, <1>11, <1>12, <1>13, <1>14,
     <1>15 DEF Next

-----------------------------------------------------------------------------
(* A step is of one call, or of none: the others stay as they are.         *)

Same(d) ==
    /\ pc'[d] = pc[d] /\ call'[d] = call[d] /\ reply'[d] = reply[d]
    /\ seen'[d] = seen[d] /\ account'[d] = account[d] /\ moved'[d] = moved[d]

StepOf(c) ==
    \/ \E b \in Browsers : Request(c, b)
    \/ ReadOwner(c) \/ Guard(c) \/ RequireSession(c) \/ Handle(c) \/ Me(c) \/ MeAccount(c)
    \/ Google(c) \/ Logout(c) \/ Deliver(c)

LEMMA AnswerOthers ==
    ASSUME TypeOK, NEW c \in Calls, NEW status, NEW shows, NEW jar, Answer(c, status, shows, jar)
    PROVE  \A d \in Calls \ {c} : pc'[d] = pc[d] /\ reply'[d] = reply[d]
BY DEF Answer, Goto, TypeOK

LEMMA Others ==
    ASSUME TypeOK, [Next]_vars, NEW d \in Calls
    PROVE  Same(d) \/ StepOf(d) \/ Restart
<1>0. /\ pc \in [Calls -> {"idle", "route", "guard", "handler", "identity", "reply", "done"}]
      /\ seen \in [Calls -> Users \cup {Anonymous, NoValue}]
      /\ account \in [Calls -> Accounts \cup {NoValue}]
      /\ moved \in [Calls -> Users \cup {Anonymous, NoValue}]
  BY DEF TypeOK
<1>1. ASSUME NEW c \in Calls, c # d, StepOf(c) PROVE Same(d)
  <2> USE <1>0, <1>1 DEF Same, Goto, WorkOn, history
  <2>1. ASSUME NEW b \in Browsers, Request(c, b) PROVE Same(d)
    BY <2>1 DEF Request, Send, TypeOK
  <2>2. ASSUME ReadOwner(c) \/ Deliver(c) PROVE Same(d)
    BY <2>2 DEF ReadOwner, Deliver, TypeOK
  <2>3. ASSUME Guard(c) PROVE Same(d)
    BY <2>3, AnswerOthers DEF Guard
  <2>4. ASSUME RequireSession(c) PROVE Same(d)
    BY <2>4, AnswerOthers DEF RequireSession
  <2>5. ASSUME Handle(c) PROVE Same(d)
    BY <2>5, AnswerOthers DEF Handle
  <2>6. ASSUME Me(c) PROVE Same(d)
    BY <2>6, AnswerOthers DEF Me
  <2>7. ASSUME MeAccount(c) \/ Logout(c) PROVE Same(d)
    BY <2>7, AnswerOthers DEF MeAccount, Logout
  <2>8. ASSUME Google(c) PROVE Same(d)
    <3>1. PICK u \in Users, a \in Accounts : Answer(c, 200, a, Mint(u, a))
      BY <2>8, GoogleSteps DEF Returns, Opens, Welcome
    <3> QED
      BY <2>8, <3>1, GoogleSteps, AnswerOthers
  <2> QED
    BY <2>1, <2>2, <2>3, <2>4, <2>5, <2>6, <2>7, <2>8 DEF StepOf
<1>2. ASSUME NEW a \in Accounts, CreateAnonymous(a) PROVE Same(d)
  BY <1>2 DEF CreateAnonymous, Same, history
<1>3. ASSUME NEW u \in Users, RemoveUser(u) PROVE Same(d)
  BY <1>3 DEF RemoveUser, Same, history
<1>4. CASE Tick \/ UNCHANGED vars
  BY <1>4 DEF Tick, vars, Same, history
<1> QED
  BY <1>1, <1>2, <1>3, <1>4 DEF Next, StepOf

LEMMA Process ==
    ASSUME IInv, [Next]_vars
    PROVE  /\ now \in Nat /\ now' \in Nat /\ now <= now'
           /\ secret' = secret \/ Restart
           /\ \A b \in Browsers : entered[b] \subseteq entered'[b]
<1> TypeOK
  BY DEF IInv
<1>1. now \in Nat /\ now' \in Nat /\ (now' = now \/ now' = now + 1) /\ (secret' = secret \/ Restart)
  <2>1. now \in Nat
    BY AccessAssumption DEF TypeOK, AccessAssumption
  <2>2. \/ UNCHANGED <<now, secret>>
        \/ Restart /\ now' = now
        \/ Tick
    BY GoogleSteps DEF Next, Request, Send, CreateAnonymous, ReadOwner, Guard, RequireSession, Handle,
       Me, MeAccount, Logout, Deliver, Restart, RemoveUser, vars, process
  <2> QED
    BY <2>1, <2>2 DEF Tick
<1>2. ASSUME NEW c \in Calls, Google(c) PROVE \A b \in Browsers : entered[b] \subseteq entered'[b]
  <2>1. PICK u \in Users, a \in Accounts : Welcome(c, u, a)
    BY <1>2, GoogleSteps DEF Returns, Opens
  <2> QED
    BY <2>1 DEF Welcome, TypeOK
<1>3. entered' = entered \/ \E c \in Calls : Google(c)
  BY DEF Next, Request, Send, CreateAnonymous, ReadOwner, Guard, RequireSession, Handle,
     Me, MeAccount, Logout, Deliver, Restart, RemoveUser, Tick, vars, history
<1> QED
  BY <1>1, <1>2, <1>3

-----------------------------------------------------------------------------

\* Where a call that has been sent may go.
LEMMA Service ==
    ASSUME TypeOK, Stages, Guards, NEW c \in Calls, StepOf(c), ~ \E b \in Browsers : Request(c, b)
    PROVE  /\ call' = call /\ now' = now /\ secret' = secret
           /\ pc[c] \notin {"idle", "done"}
           /\ \/ Deliver(c) /\ pc[c] = "reply" /\ pc'[c] = "done" /\ reply'[c] = NoValue
              \/ pc'[c] = "guard" /\ ReadOwner(c) /\ reply' = reply
              \/ pc'[c] = "handler" /\ (Guard(c) \/ RequireSession(c)) /\ reply' = reply
              \/ pc'[c] = "identity" /\ Me(c) /\ reply' = reply
              \/ /\ pc'[c] = "reply" /\ reply'[c] # NoValue
                 /\ \/ Guard(c) \/ RequireSession(c) \/ Handle(c) \/ Me(c) \/ MeAccount(c)
                    \/ Google(c) \/ Logout(c)
<1>0. pc \in [Calls -> {"idle", "route", "guard", "handler", "identity", "reply", "done"}]
      /\ reply \in [Calls -> Reply \cup {NoValue}]
  BY DEF TypeOK
<1> DEFINE A == pc'[c] = "reply" /\ reply'[c] # NoValue
<1>a. ASSUME NEW status \in {200, 201, 401, 403, 404}, NEW shows \in Accounts \cup {NoValue},
             NEW jar \in Session \cup {Cleared, Kept}, Answer(c, status, shows, jar)
      PROVE  A
  BY <1>a, Answered
<1>b. call' = call /\ now' = now /\ secret' = secret
  BY GoogleSteps DEF StepOf, ReadOwner, Guard, RequireSession, Handle, Me, MeAccount, Logout, Deliver,
     process
<1>1. ASSUME ReadOwner(c) PROVE pc[c] = "route" /\ pc'[c] = "guard" /\ reply' = reply
  BY <1>0, <1>1 DEF ReadOwner, Takes, Goto
<1>2. ASSUME Deliver(c) PROVE pc[c] = "reply" /\ pc'[c] = "done" /\ reply'[c] = NoValue
  BY <1>0, <1>2 DEF Deliver, Goto
<1>3. ASSUME Guard(c) PROVE pc[c] = "guard" /\ (A \/ (pc'[c] = "handler" /\ reply' = reply))
  BY <1>0, <1>a, <1>3 DEF Guard, Goto
<1>4. ASSUME RequireSession(c)
      PROVE  pc[c] = "route" /\ (A \/ (pc'[c] = "handler" /\ reply' = reply))
  BY <1>0, <1>a, <1>4 DEF RequireSession, Takes, Goto
<1>5. ASSUME Handle(c) PROVE pc[c] = "handler" /\ A
  <2>1. account[c] \in Accounts
    BY <1>5 DEF Handle, Guards, Guarded
  <2> QED
    BY <1>a, <1>5, <2>1 DEF Handle
<1>6. ASSUME Me(c) PROVE pc[c] = "route" /\ (A \/ (pc'[c] = "identity" /\ reply' = reply))
  BY <1>0, <1>a, <1>6 DEF Me, Takes, Goto
<1>7. ASSUME MeAccount(c) PROVE pc[c] = "identity" /\ A
  BY <1>a, <1>7 DEF MeAccount, OwnedBy
<1>8. ASSUME Google(c) PROVE pc[c] = "route" /\ A
  BY <1>a, <1>8, GoogleSteps, MintType DEF Returns, Opens, Welcome, Takes
<1>9. ASSUME Logout(c) PROVE pc[c] = "route" /\ A
  BY <1>a, <1>9 DEF Logout, Takes
<1> HIDE DEF A
<1>10. A => pc'[c] = "reply" /\ reply'[c] # NoValue
  BY DEF A
<1> QED
  BY <1>b, <1>1, <1>2, <1>3, <1>4, <1>5, <1>6, <1>7, <1>8, <1>9, <1>10 DEF StepOf

LEMMA StagesNext == IInv /\ [Next]_vars => Stages'
<1> SUFFICES ASSUME IInv, [Next]_vars, NEW d \in Calls PROVE Stage(d)'
  BY DEF Stages
<1> TypeOK /\ Stages /\ Guards /\ TypeOK'
  BY TypeNext DEF IInv
<1>0. Stage(d) /\ pc \in [Calls -> {"idle", "route", "guard", "handler", "identity", "reply", "done"}]
  BY DEF Stages, TypeOK
\* What a call asks for stays true.
<1>a. Asked(d) =>
          /\ call[d].sentAt <= now'
          /\ call[d].route = "accounts/withdraw" => call[d].target \in Accounts \cap issued'
          /\ call[d].route = "auth/google" => call[d].target \in Subs
  <2> SUFFICES ASSUME Asked(d)
               PROVE  /\ call[d].sentAt <= now'
                      /\ call[d].route = "accounts/withdraw" => call[d].target \in Accounts \cap issued'
                      /\ call[d].route = "auth/google" => call[d].target \in Subs
    OBVIOUS
  <2>1. pc[d] # "idle"
    BY <1>0 DEF Stage
  <2>2. call[d].sentAt \in Nat /\ call[d].sentAt <= now /\ now \in Nat /\ now' \in Nat /\ now <= now'
    BY <2>1, CallType, Process
  <2>3. call[d].sentAt <= now'
    BY <2>2
  <2> QED
    BY <2>1, <2>3, CallType, Lasting
<1>1. CASE Same(d)
  BY <1>0, <1>a, <1>1 DEF Same, Stage, Asked
<1>2. ASSUME NEW b \in Browsers, Request(d, b) PROVE Stage(d)'
  <2>1. now \in Nat
    BY Process
  <2>2. reply'[d] = reply[d] /\ moved'[d] = moved[d] /\ now' = now /\ issued' = issued
    BY <1>2, RequestSteps DEF history, process, tables
  <2>3. call'[d].sentAt <= now'
    BY <1>2, <2>1, <2>2, RequestSteps
  <2> QED
    BY <1>0, <1>2, <2>2, <2>3, RequestSteps DEF Stage, Asked
<1>3. CASE StepOf(d) /\ ~ \E b \in Browsers : Request(d, b)
  <2>1. ReadOwner(d) => call[d].route = "accounts/withdraw"
    BY DEF ReadOwner, Takes
  <2>2. Guard(d) \/ RequireSession(d) => call[d].route # "me"
    BY <1>0 DEF Guard, RequireSession, Takes, Stage
  <2>3. Me(d) /\ pc'[d] = "identity" => call[d].route = "me" /\ call[d].session # NoValue
    BY <1>0 DEF Me, Takes, Answer, Goto, Good
  <2>4. pc[d] \in {"route", "guard", "handler", "identity"} => reply[d] = NoValue
    BY <1>0 DEF Stage
  <2>5. pc[d] \in {"idle", "route", "guard", "handler", "identity", "reply", "done"}
    BY <1>0
  <2>6. ReadOwner(d) \/ Guard(d) \/ RequireSession(d) \/ Me(d) => pc[d] \in {"route", "guard"}
    BY DEF ReadOwner, Guard, RequireSession, Me, Takes
  <2>7. Asked(d) /\ call' = call
    BY <1>0, <1>3, Service DEF Stage
  <2> QED
    BY <1>3, <1>a, <2>1, <2>2, <2>3, <2>4, <2>6, <2>7, Service DEF Stage, Asked
<1>4. CASE Restart
  BY <1>0, <1>a, <1>4 DEF Restart, Stage, Asked, history
<1> QED
  BY <1>1, <1>2, <1>3, <1>4, Others

-----------------------------------------------------------------------------
\* A session that names a pair keeps naming one.
LEMMA MintedNext ==
    ASSUME IInv, [Next]_vars, NEW s \in Session, NEW b \in Browsers, MintedAt(s, b)
    PROVE  MintedAt(s, b)'
<1>1. /\ s.user \in Users \cap issued /\ s.account \in Accounts \cap issued /\ s.user \in entered[b]
      /\ owner[s.account] \in {s.user, NoValue}
      /\ owner[s.account] = s.user <=> sub[s.user] # NoValue
  BY SessionType DEF MintedAt
<1>2. s.user \in issued' \cap entered'[b] /\ s.account \in issued'
  BY <1>1, Lasting, Process
<1>3. owner'[s.account] \in {s.user, NoValue} /\ (owner'[s.account] = s.user <=> sub'[s.user] # NoValue)
  BY <1>1, Lasting
<1> QED
  BY <1>2, <1>3 DEF MintedAt

\* What a sign-in answers with.
LEMMA GoogleMints ==
    ASSUME IInv, [Next]_vars, NEW c \in Calls, Google(c)
    PROVE  \E s \in Session, b \in Browsers :
              Answer(c, 200, s.account, s) /\ b = call[c].browser /\ MintedAt(s, b)'
<1> TypeOK /\ Stages /\ Rows
  BY DEF IInv
<1>1. PICK u \in Users, a \in Accounts : Returns(c, u, a) \/ Opens(c, u, a)
  BY GoogleSteps
<1>2. Mint(u, a) \in Session /\ Mint(u, a).user = u /\ Mint(u, a).account = a
  BY MintType
<1>3. Answer(c, 200, a, Mint(u, a)) /\ pc[c] = "route"
  BY <1>1 DEF Returns, Opens, Welcome, Takes
<1>4. call[c].browser \in Browsers /\ call[c].target \in Subs
  BY <1>1, <1>3, CallType DEF Returns, Opens, Takes
<1>5. u \in entered'[call[c].browser]
  BY <1>1, <1>4 DEF Returns, Opens, Welcome, TypeOK
<1>6. u \in issued' /\ a \in issued' /\ owner'[a] = u /\ sub'[u] # NoValue
  <2>1. CASE Returns(c, u, a)
    <3>1. sub[u] # NoValue /\ owner[a] # NoValue /\ UNCHANGED <<sub, owner, issued>>
      BY <1>4, <2>1, Sentinels DEF Returns, tables
    <3> QED
      BY <2>1, <3>1 DEF Returns, Rows
  <2>2. CASE Opens(c, u, a)
    BY <1>4, <2>2, Sentinels DEF Opens, TypeOK
  <2> QED
    BY <1>1, <2>1, <2>2
<1>7. PICK s \in Session : s = Mint(u, a)
  BY <1>2
<1>8. PICK b \in Browsers : b = call[c].browser
  BY <1>4
<1>9. Answer(c, 200, s.account, s) /\ s.user = u /\ s.account = a
  BY <1>2, <1>3, <1>7
<1>10. MintedAt(s, b)'
  BY <1>5, <1>6, <1>8, <1>9 DEF MintedAt
<1> QED
  BY <1>8, <1>9, <1>10

LEMMA HoldersNext == IInv /\ [Next]_vars => Holders'
<1> SUFFICES ASSUME IInv, [Next]_vars PROVE Holders'
  OBVIOUS
<1> TypeOK /\ Stages /\ Guards /\ Holders
  BY DEF IInv
<1> USE DEF Holders
<1>2. \A b \in Browsers : cookie'[b] # NoValue =>
          \E s \in Session : s = cookie'[b] /\ MintedAt(s, b)'
  <2> SUFFICES ASSUME NEW b \in Browsers, cookie'[b] # NoValue
               PROVE  \E s \in Session : s = cookie'[b] /\ MintedAt(s, b)'
    OBVIOUS
  <2>1. CASE cookie'[b] = cookie[b]
    BY <2>1, MintedNext DEF TypeOK
  <2>2. CASE \E c \in Calls : Deliver(c) /\ cookie'[b] # cookie[b]
    <3>1. PICK c \in Calls : Deliver(c) /\ cookie'[b] # cookie[b]
      BY <2>2
    <3>2. reply[c] \in Reply /\ reply[c] # NoValue
      BY <3>1 DEF Deliver, Stages, Stage, TypeOK
    <3>3. /\ call[c].browser = b
          /\ cookie'[b] = reply[c].cookie
          /\ reply[c].cookie \notin {Kept, Cleared}
      BY <3>1 DEF Deliver, TypeOK
    <3>4. reply[c].cookie \in Session /\ MintedAt(reply[c].cookie, b)
      BY <3>2, <3>3 DEF Reply
    <3> QED
      BY <3>3, <3>4, MintedNext
  <2>3. cookie' = cookie \/ \E c \in Calls : Deliver(c)
    BY GoogleSteps DEF Next, Request, Send, CreateAnonymous, ReadOwner, Guard, RequireSession, Handle,
       Me, MeAccount, Logout, Restart, RemoveUser, Tick, vars
  <2> QED
    BY <2>1, <2>2, <2>3
<1>3. \A c \in Calls : call'[c] # NoValue /\ call'[c].session # NoValue =>
          \E s \in Session, b \in Browsers :
             s = call'[c].session /\ b = call'[c].browser /\ MintedAt(s, b)'
  <2> SUFFICES ASSUME NEW c \in Calls, call'[c] # NoValue, call'[c].session # NoValue
               PROVE  \E s \in Session, b \in Browsers :
             s = call'[c].session /\ b = call'[c].browser /\ MintedAt(s, b)'
    OBVIOUS
  <2>1. CASE call'[c] = call[c]
    <3>1. pc[c] # "idle"
      BY <2>1 DEF Stages, Stage, Asked
    <3>2. call[c].session \in Session /\ call[c].browser \in Browsers
      BY <2>1, <3>1, CallType
    <3>3. MintedAt(call[c].session, call[c].browser)
      BY <2>1 DEF Asked
    <3> QED
      BY <2>1, <3>2, <3>3, MintedNext
  <2>2. ASSUME NEW w \in Browsers, Request(c, w)
        PROVE  \E s \in Session, b \in Browsers :
                  s = call'[c].session /\ b = call'[c].browser /\ MintedAt(s, b)'
    <3>1. call'[c].session = cookie[w] /\ cookie[w] # NoValue /\ call'[c].browser = w
      BY <2>2, RequestSteps
    <3>2. cookie[w] \in Session /\ MintedAt(cookie[w], w)
      BY <3>1 DEF TypeOK
    <3> QED
      BY <3>1, <3>2, MintedNext
  <2>3. call'[c] = call[c] \/ \E b \in Browsers : Request(c, b)
    BY Others, Service DEF Same, Restart
  <2> QED
    BY <2>1, <2>2, <2>3
<1>4. \A c \in Calls : reply'[c] # NoValue /\ reply'[c].cookie \notin {Kept, Cleared} =>
          \E s \in Session, b \in Browsers :
             s = reply'[c].cookie /\ b = call'[c].browser /\ MintedAt(s, b)'
  <2> SUFFICES ASSUME NEW c \in Calls, reply'[c] # NoValue, reply'[c].cookie \notin {Kept, Cleared}
               PROVE  \E s \in Session, b \in Browsers :
             s = reply'[c].cookie /\ b = call'[c].browser /\ MintedAt(s, b)'
    OBVIOUS
  <2>1. CASE reply'[c] = reply[c]
    <3>1. pc[c] = "reply" /\ reply[c] \in Reply
      BY <2>1 DEF Stages, Stage, TypeOK
    <3>2. reply[c].cookie \in Session /\ call[c].browser \in Browsers
      BY <2>1, <3>1, CallType DEF Reply
    <3>3. call'[c] = call[c]
      BY <3>1, Others, Service, RequestSteps DEF Same, Restart
    <3> QED
      BY <2>1, <3>2, <3>3, MintedNext
  <2>2. CASE Google(c)
    <3>1. PICK s \in Session, b \in Browsers :
              Answer(c, 200, s.account, s) /\ b = call[c].browser /\ MintedAt(s, b)'
      BY <2>2, GoogleMints
    <3>2. reply'[c].cookie = s
      BY <3>1, Answered, SessionType
    <3>3. call' = call
      BY <2>2, GoogleSteps
    <3> QED
      BY <3>1, <3>2, <3>3
  <2>3. CASE Guard(c) \/ RequireSession(c) \/ Handle(c) \/ Me(c) \/ MeAccount(c) \/ Logout(c)
    <3>1. \A status, shows : \A jar \in {Kept, Cleared} :
              Answer(c, status, shows, jar) => reply'[c].cookie = jar
      BY DEF Answer, TypeOK
    <3>2. reply'[c] = reply[c] \/ reply'[c].cookie \in {Kept, Cleared}
      BY <2>3, <3>1 DEF Guard, RequireSession, Handle, Me, MeAccount, Logout
    <3> QED
      BY <2>1, <3>2
  <2>4. \/ reply'[c] = reply[c]
        \/ Google(c)
        \/ Guard(c) \/ RequireSession(c) \/ Handle(c) \/ Me(c) \/ MeAccount(c) \/ Logout(c)
    BY Others, Service, RequestSteps DEF Same, Restart
  <2> QED
    BY <2>1, <2>2, <2>3, <2>4
<1> QED
  BY <1>2, <1>3, <1>4 DEF Asked, MintedAt

-----------------------------------------------------------------------------
\* Through every await between the guard and the handler.
LEMMA GuardsNext == IInv /\ [Next]_vars => Guards'
<1> SUFFICES ASSUME IInv, [Next]_vars, NEW d \in Calls PROVE Guarded(d)'
  BY DEF Guards
<1> TypeOK /\ Stages /\ Guards /\ Holders
  BY DEF IInv
<1>0. Guarded(d) /\ Stage(d) /\ Stage(d)'
  BY StagesNext DEF Guards, Stages
<1>1. CASE Restart
  <2>1. pc'[d] \notin {"guard", "handler"}
    BY <1>1 DEF Restart, TypeOK
  <2> QED
    BY <2>1 DEF Guarded
<1>2. CASE Same(d) /\ ~Restart
  <2>1. secret' = secret
    BY <1>2, Process
  <2>2. ASSUME pc[d] = "guard" PROVE owner'[call[d].target] \in {seen[d], NoValue}
    <3>1. call[d].target \in Accounts \cap issued
      BY <1>0, <2>2, CallType DEF Stage
    <3> QED
      BY <1>0, <2>2, <3>1, Lasting DEF Guarded
  <2>3. ASSUME pc[d] = "handler"
        PROVE  account[d] \in Accounts \cap issued' /\ owner'[account[d]] \in {owner[account[d]], NoValue}
    BY <1>0, <2>3, Lasting DEF Guarded
  <2> QED
    BY <1>0, <1>2, <2>1, <2>2, <2>3, Sentinels DEF Same, Guarded, Entitled
<1>3. CASE \E b \in Browsers : Request(d, b)
  BY <1>3, RequestSteps DEF Guarded
<1>4. CASE StepOf(d) /\ ~ \E b \in Browsers : Request(d, b)
  <2>0. call' = call /\ secret' = secret
    BY <1>4, Service
  <2>1. CASE pc'[d] = "guard" /\ ReadOwner(d)
    BY <2>0, <2>1 DEF Guarded, ReadOwner, tables, TypeOK
  <2>2. CASE pc'[d] = "handler" /\ Guard(d)
    <3>1. pc[d] = "guard" /\ Admits(d) /\ account' = [account EXCEPT ![d] = call[d].target]
          /\ owner' = owner /\ issued' = issued
      BY <2>2 DEF Guard, Answer, Goto, WorkOn, tables, TypeOK
    <3>2. call[d].target \in Accounts \cap issued /\ owner[call[d].target] \in {seen[d], NoValue}
      BY <1>0, <3>1, CallType DEF Stage, Guarded
    <3>3. account'[d] = call[d].target
      BY <3>1 DEF TypeOK
    <3>4. owner[call[d].target] \in Users =>
              Good(call[d].session) /\ call[d].session.user = owner[call[d].target]
      BY <3>1, <3>2, Sentinels DEF Admits
    <3>5. owner[call[d].target] \in Users => call[d].session # NoValue
             /\ call[d].session.expiresAt > call[d].sentAt /\ call[d].session.secret = secret
      BY <3>1, <3>4, GoodType
    <3> QED
      BY <2>0, <2>2, <3>1, <3>2, <3>3, <3>4, <3>5 DEF Guarded, Entitled
  <2>3. CASE pc'[d] = "handler" /\ RequireSession(d)
    <3>1. /\ pc[d] = "route" /\ Good(call[d].session)
          /\ account' = [account EXCEPT ![d] = call[d].session.account]
          /\ owner' = owner /\ issued' = issued
      BY <2>3 DEF RequireSession, Takes, Answer, Goto, WorkOn, tables, TypeOK
    <3>2. /\ call[d].session \in Session /\ call[d].session # NoValue
          /\ call[d].session.account \in Accounts
          /\ call[d].session.expiresAt > call[d].sentAt
          /\ call[d].session.secret = secret
      BY <3>1, GoodType
    <3>3. MintedAt(call[d].session, call[d].browser)
      BY <1>0, <3>1, <3>2 DEF Holders, Stage
    <3>4. account'[d] = call[d].session.account
      BY <3>1 DEF TypeOK
    <3> QED
      BY <2>0, <2>3, <3>1, <3>2, <3>3, <3>4, Sentinels DEF Guarded, Entitled, MintedAt
  <2>4. CASE pc'[d] \notin {"guard", "handler"}
    BY <2>4 DEF Guarded
  <2> QED
    BY <1>4, <2>1, <2>2, <2>3, <2>4, Service
<1> QED
  BY <1>1, <1>2, <1>3, <1>4, Others

\* Through the wait for the answer to be delivered.
LEMMA ClearingNext == IInv /\ [Next]_vars => Clearing'
<1> SUFFICES ASSUME IInv, [Next]_vars, NEW d \in Calls,
                    reply'[d] # NoValue, call'[d].route = "me", reply'[d].cookie = Cleared
             PROVE  call'[d].session # NoValue /\ sub'[call'[d].session.user] = NoValue
  BY DEF Clearing, Clears
<1> TypeOK /\ Stages /\ Stages' /\ Guards /\ Holders /\ Clearing
  BY StagesNext DEF IInv
<1>0. Stage(d) /\ Clears(d)
  BY DEF Stages, Clearing
\* A session names its user, and nothing brings the user back.
<1>a. ASSUME pc[d] # "idle", call[d].session # NoValue
      PROVE  /\ call[d].session \in Session /\ MintedAt(call[d].session, call[d].browser)
             /\ call[d].session.user \in Users /\ call[d].session.account \in Accounts
             /\ sub[call[d].session.user] = NoValue => sub'[call[d].session.user] = NoValue
  <2>1. call[d].session \in Session /\ MintedAt(call[d].session, call[d].browser)
    BY <1>a, CallType DEF Holders
  <2>2. call[d].session.user \in Users \cap issued /\ call[d].session.account \in Accounts
    BY <2>1, SessionType DEF MintedAt
  <2> QED
    BY <2>1, <2>2, Lasting
<1>1. CASE reply'[d] = reply[d] /\ call'[d] = call[d]
  <2>1. pc[d] # "idle"
    BY <1>0, <1>1 DEF Stage
  <2> QED
    BY <1>0, <1>1, <1>a, <2>1 DEF Clears
<1>2. CASE Me(d)
  <2>1. /\ pc[d] = "route" /\ call' = call /\ Good(call[d].session)
        /\ sub[call[d].session.user] = NoValue
    <3>1. Answer(d, 401, NoValue, Kept) => reply'[d].cookie = Kept
      BY DEF Answer, TypeOK
    <3>2. pc[d] = "route" => reply[d] = NoValue
      BY <1>0 DEF Stage
    <3> QED
      BY <1>2, <3>1, <3>2, Sentinels DEF Me, Takes
  <2> QED
    BY <1>a, <2>1 DEF Good
<1>3. CASE MeAccount(d)
  <2>1. /\ pc[d] = "identity" /\ call' = call /\ call[d].session # NoValue
        /\ OwnedBy(call[d].session.user) = {}
    <3>1. \A a : Answer(d, 200, a, Kept) => reply'[d].cookie = Kept
      BY DEF Answer, TypeOK
    <3> QED
      BY <1>0, <1>3, <3>1, Sentinels DEF MeAccount, Stage
  <2>2. owner[call[d].session.account] # call[d].session.user
    BY <1>a, <2>1 DEF OwnedBy
  <2>3. sub[call[d].session.user] = NoValue
    BY <1>a, <2>1, <2>2 DEF MintedAt
  <2> QED
    BY <1>a, <2>1, <2>3
<1>4. CASE Google(d) \/ Logout(d) \/ RequireSession(d) \/ Guard(d) \/ Handle(d)
  <2>1. call' = call /\ pc[d] # "idle"
    BY <1>4, GoogleSteps DEF Google, Logout, RequireSession, Guard, Handle, Takes
  <2>2. call[d].route # "me"
    BY <1>0, <1>4 DEF Google, Logout, RequireSession, Guard, Handle, Takes, Stage
  <2> QED
    BY <2>1, <2>2
<1>5. CASE \E b \in Browsers : Request(d, b)
  BY <1>0, <1>5, RequestSteps DEF Stage
<1> QED
  BY <1>1, <1>2, <1>3, <1>4, <1>5, Others, Service DEF Same, Restart

-----------------------------------------------------------------------------
\* Only a handler withdraws, from the account its call was admitted to.
LEMMA Moves ==
    ASSUME IInv, [Next]_vars, NEW c \in Calls, moved'[c] # moved[c]
    PROVE  /\ pc[c] = "handler" /\ call'[c] = call[c] /\ moved'[c] = owner[account[c]]
           /\ owner[account[c]] \in Users =>
                /\ call[c].session \in Session /\ call[c].session # NoValue
                /\ call[c].session.user = moved'[c]
                /\ call[c].session.expiresAt > call[c].sentAt
                /\ call[c].session.secret = secret
                /\ moved'[c] \in entered[call[c].browser]
<1> TypeOK /\ Stages /\ Guards /\ Holders
  BY DEF IInv
<1>1. Handle(c)
  <2>1. CASE \E b \in Browsers : Request(c, b)
    BY <2>1, RequestSteps DEF history
  <2>2. CASE Google(c)
    BY <2>2, GoogleSteps
  <2>3. CASE Same(c) \/ Restart
    BY <2>3 DEF Same, Restart, history
  <2>4. CASE ReadOwner(c) \/ Guard(c) \/ RequireSession(c) \/ Me(c) \/ MeAccount(c) \/ Logout(c) \/ Deliver(c)
    BY <2>4 DEF ReadOwner, Guard, RequireSession, Me, MeAccount, Logout, Deliver, history
  <2> QED
    BY <2>1, <2>2, <2>3, <2>4, Others DEF StepOf
<1>2. pc[c] = "handler" /\ call' = call /\ moved'[c] = owner[account[c]]
  BY <1>1 DEF Handle, TypeOK
<1>3. ASSUME owner[account[c]] \in Users
      PROVE  /\ call[c].session # NoValue /\ call[c].session.user = owner[account[c]]
             /\ call[c].session.expiresAt > call[c].sentAt
             /\ call[c].session.secret = secret
  BY <1>2, <1>3 DEF Guards, Guarded, Entitled
<1>4. ASSUME call[c].session # NoValue
      PROVE  call[c].session \in Session /\ call[c].session.user \in entered[call[c].browser]
  BY <1>2, <1>4, CallType DEF Holders, MintedAt
<1> QED
  BY <1>2, <1>3, <1>4

LEMMA MovedNext == IInv /\ [Next]_vars => MovedByOwner'
<1> SUFFICES ASSUME IInv, [Next]_vars, NEW c \in Calls, moved'[c] \in Users
             PROVE  /\ call'[c].session # NoValue /\ call'[c].session.user = moved'[c]
                    /\ moved'[c] \in entered'[call'[c].browser]
  BY DEF MovedByOwner, MovedOwned
<1> TypeOK /\ Stages /\ Guards /\ MovedByOwner
  BY DEF IInv
<1>1. CASE moved'[c] = moved[c]
  <2>1. pc[c] # "idle"
    BY <1>1, Sentinels DEF Stages, Stage
  <2>2. call'[c] = call[c] /\ call[c].browser \in Browsers
    BY <2>1, Others, Service, RequestSteps, CallType DEF Same, Restart
  <2> QED
    BY <1>1, <2>2, Process DEF MovedByOwner, MovedOwned
<1>2. CASE moved'[c] # moved[c]
  <2>1. call[c].browser \in Browsers
    BY <1>2, Moves, CallType
  <2> QED
    BY <1>2, <2>1, Moves, Process
<1> QED
  BY <1>1, <1>2

\* The one account of the session's user is the one the session names.
LEMMA MeShowsNext == IInv /\ [Next]_vars => MeShowsTheSessionsAccount'
<1> SUFFICES ASSUME IInv, [Next]_vars, NEW c \in Calls,
                    call'[c].route = "me", reply'[c] # NoValue, reply'[c].status = 200
             PROVE  reply'[c].shows = call'[c].session.account
  BY DEF MeShowsTheSessionsAccount
<1> TypeOK /\ Stages /\ Guards /\ Holders /\ Rows /\ MeShowsTheSessionsAccount
  BY DEF IInv
<1>0. Stage(c)
  BY DEF Stages
<1>1. CASE reply'[c] = reply[c] /\ call'[c] = call[c]
  BY <1>0, <1>1 DEF MeShowsTheSessionsAccount, Stage, Asked
<1>2. CASE Me(c)
  <2>1. \A jar : Answer(c, 401, NoValue, jar) => reply'[c].status = 401
    BY DEF Answer, TypeOK
  <2> QED
    BY <1>0, <1>2, <2>1 DEF Me, Stage, Takes
<1>3. CASE MeAccount(c)
  <2>1. \A jar : Answer(c, 401, NoValue, jar) => reply'[c].status = 401
    BY DEF Answer, TypeOK
  <2>2. PICK a \in OwnedBy(call[c].session.user) : Answer(c, 200, a, Kept)
    BY <1>3, <2>1 DEF MeAccount
  <2>3. reply'[c].shows = a /\ call' = call
    BY <1>3, <2>2 DEF Answer, MeAccount, TypeOK
  <2>4. /\ call[c].session \in Session /\ MintedAt(call[c].session, call[c].browser)
        /\ call[c].session.user \in Users /\ call[c].session.account \in Accounts
    <3>1. pc[c] = "identity" /\ call[c].session # NoValue
      BY <1>0, <1>3 DEF MeAccount, Stage
    <3> QED
      BY <3>1, CallType, SessionType DEF Holders
  <2>5. a \in Accounts /\ owner[a] = call[c].session.user
    BY <2>2 DEF OwnedBy
  <2>6. owner[call[c].session.account] = call[c].session.user
    BY <2>4, <2>5 DEF Rows, MintedAt
  <2> QED
    BY <2>3, <2>4, <2>5, <2>6 DEF Rows
<1>4. CASE Google(c) \/ Logout(c) \/ RequireSession(c) \/ Guard(c) \/ Handle(c)
  <2>1. call' = call /\ pc[c] # "idle"
    BY <1>4, GoogleSteps DEF Google, Logout, RequireSession, Guard, Handle, Takes
  <2>2. call[c].route # "me"
    BY <1>0, <1>4 DEF Google, Logout, RequireSession, Guard, Handle, Takes, Stage
  <2> QED
    BY <2>1, <2>2
<1>5. CASE \E b \in Browsers : Request(c, b)
  BY <1>0, <1>5, RequestSteps DEF Stage
<1> QED
  BY <1>1, <1>2, <1>3, <1>4, <1>5, Others, Service DEF Same, Restart

-----------------------------------------------------------------------------
LEMMA InvInit == Init => IInv
<1> SUFFICES ASSUME Init PROVE IInv
  OBVIOUS
<1>1. TypeOK
  BY TypeInit
<1>2. Rows /\ Holders
  BY Sentinels DEF Init, Rows, Holders, Asked
<1>3. Stages /\ Guards /\ Clearing
  BY DEF Init, Stages, Stage, Asked, Guards, Guarded, Clearing, Clears
<1>4. MovedByOwner /\ MeShowsTheSessionsAccount
  BY Sentinels DEF Init, MovedByOwner, MovedOwned, MeShowsTheSessionsAccount
<1> QED
  BY <1>1, <1>2, <1>3, <1>4 DEF IInv

LEMMA InvNext == IInv /\ [Next]_vars => IInv'
BY TypeNext, RowsNext, StagesNext, HoldersNext, GuardsNext, ClearingNext, MovedNext, MeShowsNext
   DEF IInv

\* IInv is kept by every step of every route, of the clock, of a restart and
\* of the operator.
THEOREM Invariance == Spec => []IInv
BY InvInit, InvNext, PTL DEF Spec

\* README.md:101: whoever withdraws from an owned account, by its id or
\* through /me, carries its owner's session and has signed in as the owner.
THEOREM OwnersOnly == Spec => []MovedByOwner
<1>1. IInv => MovedByOwner
  BY DEF IInv
<1> QED
  BY <1>1, Invariance, PTL

\* The user and the account of every session at large live and die together.
THEOREM Paired == Spec => []SessionsNamePairs
<1>1. IInv => SessionsNamePairs
  <2> SUFFICES ASSUME IInv, NEW s \in Sessions
               PROVE  /\ owner[s.account] \in {s.user, NoValue}
                      /\ owner[s.account] = s.user <=> sub[s.user] # NoValue
    BY DEF SessionsNamePairs
  <2>1. \E b : MintedAt(s, b)
    BY DEF IInv, Holders, Sessions, Asked
  <2> QED
    BY <2>1 DEF MintedAt
<1> QED
  BY <1>1, Invariance, PTL

\* GET /me shows the account that POST /me/withdraw moves.
THEOREM OneAccountPerSession == Spec => []MeShowsTheSessionsAccount
<1>1. IInv => MeShowsTheSessionsAccount
  BY DEF IInv
<1> QED
  BY <1>1, Invariance, PTL

\* Withdrawing from an owned account takes a session that had not expired when
\* the call was sent, minted with the secret the process has now.
THEOREM SessionsEnd == Spec => EndedSessionsMoveNothing
<1>1. IInv /\ [Next]_vars =>
        [\A c \in Calls :
            moved'[c] # moved[c] /\ moved'[c] \in Users =>
                /\ call[c].sentAt < call[c].session.expiresAt
                /\ call[c].session.secret = secret]_vars
  <2> SUFFICES ASSUME IInv, [Next]_vars, NEW c \in Calls, moved'[c] # moved[c], moved'[c] \in Users
               PROVE  call[c].sentAt < call[c].session.expiresAt /\ call[c].session.secret = secret
    OBVIOUS
  <2>1. /\ call[c].session \in Session
        /\ call[c].session.expiresAt > call[c].sentAt /\ call[c].session.secret = secret
    BY Moves
  <2> QED
    BY <2>1
<1> QED
  BY <1>1, Invariance, PTL DEF Spec, EndedSessionsMoveNothing

\* When /me's answer takes the cookie away, the user it names is gone.
THEOREM OutlivedCookies == Spec => ClearedForGood
<1>1. IInv /\ [Next]_vars =>
        [\A c \in Calls :
            (pc[c] = "reply" /\ pc'[c] = "done" /\ call[c].route = "me" /\ reply[c].cookie = Cleared)
            => call[c].session # NoValue /\ sub[call[c].session.user] = NoValue]_vars
  BY DEF IInv, Clearing, Clears, Stages, Stage
<1> QED
  BY <1>1, Invariance, PTL DEF Spec, ClearedForGood
=============================================================================

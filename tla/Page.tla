-------------------------------- MODULE Page --------------------------------
(***************************************************************************)
(* What public/app.js shows: who is signed in, a balance, a history, and   *)
(* the notice above the form, while answers are late, lost or refused and  *)
(* people sign in one after the other on one page that is not reloaded, or *)
(* in another tab, which shares the cookie with this one.                  *)
(*                                                                         *)
(* Of the ledger a page sees how far it has come: a reading of a balance   *)
(* or of a history is how many debits or rows there were when the server   *)
(* read them. Submit's idempotency key is the subject of WebClient.        *)
(***************************************************************************)
EXTENDS Integers

CONSTANTS
    Users,      \* people, each with an account
    Loads,      \* bound: readings of the page under way at once
    MaxRows,    \* bound: withdrawals recorded of one account
    NoValue     \* nobody, nothing

VARIABLES
    ledger,     \* of each user, the rows recorded and the debits among them
    session,    \* whose cookie the browser holds and the server honours, in all its tabs
    view,       \* "blank" until boot() decides, "signin" or "app"
    screen,     \* the sign-in slot: "empty", "button" or "fallback"
    starting,   \* startSignIn() under way: "no", or for whom: "boot", "ended"
    user,       \* renderUser: whose name the page shows
    account,    \* renderAccount: whose balance it shows, after how many debits
    rows,       \* renderTransactions: whose history, how many rows of it
    notice,     \* the notice above the form, NoValue while it is closed
    addendum,   \* whether the notice says the balance could not be re-read
    sub,        \* the submission awaited (the button is disabled), or NoValue
    load,       \* the readings under way
    overlap,    \* history: two readings were under way at once since the page was loaded
    astray,     \* history: the page has asked with the cookie of somebody else than it shows
    missed,     \* history: the last reading to land brought no history
    older       \* history: a balance was covered by an older one of the same account

seen == <<user, account, rows>>
told == <<notice, addendum>>
slot == <<screen, starting>>
vars == <<ledger, session, view, screen, starting, user, account, rows,
          notice, addendum, sub, load, overlap, astray, missed, older>>

Ledgers == [rows : 0..MaxRows, debits : 0..MaxRows]
Opened == [rows |-> 0, debits |-> 0]

Outcomes == {"recorded", "declined"}

\* How a submission came out (201, new or replayed, or 409): the row it is
\* about, as the ledger stood with it. Any other answer is refused.
Reply == [kind : Outcomes, user : Users, at : Ledgers]
Refused == [kind |-> "refused"]
Unauthenticated == [kind |-> "unauthenticated"]

\* A request is asked, read by the server (so many debits, or rows), refused by
\* it, or lost on the way.
Answers == [is : {"asked", "refused", "lost"}] \cup [is : {"read"}, n : 0..MaxRows]

Asked == [is |-> "asked"]

\* What is read for whom. boot() and onCredential() ask who is there, which comes
\* with the account; enter() then asks for the history, refresh() for both.
Reading == [after : Outcomes \cup {"boot", "signin"}, who : Users \cup {NoValue},
            account : Answers \cup {NoValue}, history : Answers \cup {NoValue}]

Balance == [user : Users, debits : 0..MaxRows]
History == [user : Users, rows : 0..MaxRows]

ASSUME PageAssumption ==
    /\ MaxRows \in Nat
    /\ NoValue \notin Users \cup Reply \cup Answers \cup Reading \cup Balance \cup History
    /\ NoValue \notin {Refused, Unauthenticated} \cup [kind : {"sent"}, user : Users \cup {NoValue}]

Idle == {l \in Loads : load[l] = NoValue}
Quiet == sub = NoValue /\ Idle = Loads

-----------------------------------------------------------------------------
Init ==
    /\ ledger = [u \in Users |-> Opened]
    /\ session \in Users \cup {NoValue}
    /\ view = "blank" /\ screen = "empty" /\ starting = "no"
    /\ user = NoValue /\ account = NoValue /\ rows = NoValue
    /\ notice = NoValue /\ addendum = FALSE
    /\ sub = NoValue
    /\ load = [l \in Loads |-> NoValue]
    /\ overlap = FALSE
    /\ astray = FALSE
    /\ missed = FALSE
    /\ older = FALSE

\* renderAccount
RenderAccount(u, n) ==
    /\ account' = [user |-> u, debits |-> n]
    /\ older' = \/ older
                \/ account # NoValue /\ account.user = u /\ n < account.debits

\* Requests go out with the cookie in hand: for the account, and a refresh() for
\* the history as well. (The two are sent at once, so it is the same cookie.)
Begin(after, who, history) ==
    \E l \in Idle :
        /\ load' = [load EXCEPT ![l] =
               [after |-> after, who |-> who, account |-> Asked, history |-> history]]
        /\ overlap' = (overlap \/ Idle # Loads)

\* boot: GET /me
Boot ==
    /\ view = "blank" /\ Idle = Loads
    /\ Begin("boot", session, NoValue)
    /\ UNCHANGED <<ledger, session, view, slot, seen, told, sub, astray, missed, older>>

\* onCredential: POST /auth/google
OnCredential ==
    /\ view = "signin" /\ screen = "button"
    /\ Begin("signin", NoValue, NoValue)
    /\ UNCHANGED <<ledger, session, view, slot, seen, told, sub, astray, missed, older>>

\* The server answers POST /auth/google: somebody is signed in.
SignIn(l) ==
    /\ load[l] # NoValue /\ load[l].after = "signin" /\ load[l].account = Asked
    /\ \E u \in Users :
          /\ session' = u
          /\ load' = [load EXCEPT ![l].who = u,
                                 ![l].account = [is |-> "read", n |-> ledger[u].debits]]
    /\ UNCHANGED <<ledger, view, slot, seen, told, sub, overlap, astray, missed, older>>

-----------------------------------------------------------------------------
IsRead(l, part) == load[l][part] # NoValue /\ load[l][part].is = "read"

\* Nothing has been asked yet of whoever is there, but who it is.
Asks(l) == load[l] # NoValue /\ load[l].history = NoValue

Landed(l) == load' = [load EXCEPT ![l] = NoValue]

\* A reading for somebody who is neither u nor nobody.
OfAnother(l, u) == load[l] # NoValue /\ ~Asks(l) /\ load[l].who \notin {u, NoValue}

\* startSignIn up to its first await
StartSignIn(for) ==
    /\ view' = "signin"
    /\ starting' = for

\* Once the name is rendered, the history is asked for with the cookie in hand.
\* Whoever enters may find readings under way that are not his.
AskHistory(l) ==
    /\ load' = [load EXCEPT ![l].who = session, ![l].account = NoValue, ![l].history = Asked]
    /\ astray' = \/ session \notin {load[l].who, NoValue}
                 \/ \E m \in Loads \ {l} : OfAnother(m, load[l].who)

\* Fault variant: the balance of the answer is the one the account opened with.
EnterAsOpened(l) ==
    /\ Asks(l) /\ IsRead(l, "account")
    /\ user' = load[l].who
    /\ RenderAccount(load[l].who, 0)
    /\ view' = "app"
    /\ AskHistory(l)
    /\ UNCHANGED <<ledger, session, slot, rows, told, sub, overlap, missed>>

\* Fault variant: a balance on the page is left to the next refresh.
EnterKeepsBalance(l) ==
    /\ Asks(l) /\ IsRead(l, "account")
    /\ user' = load[l].who
    /\ IF account = NoValue THEN RenderAccount(load[l].who, load[l].account.n)
                            ELSE UNCHANGED <<account, older>>
    /\ view' = "app"
    /\ AskHistory(l)
    /\ UNCHANGED <<ledger, session, slot, rows, told, sub, overlap, missed>>

\* enter: name and balance of the answer in hand, then the history.
Enter(l) ==
    /\ Asks(l) /\ IsRead(l, "account")
    /\ user' = load[l].who
    /\ RenderAccount(load[l].who, load[l].account.n)
    /\ view' = "app"
    /\ AskHistory(l)
    /\ UNCHANGED <<ledger, session, slot, rows, told, sub, overlap, missed>>

\* Nobody to enter: boot() starts the sign-in, onCredential() says that it was
\* rejected. (For a stale nonce it loads the page anew, which is Reload.)
NotAdmitted(l) ==
    /\ Asks(l) /\ load[l].account.is = "refused"
    /\ Landed(l)
    /\ \/ load[l].after = "boot" /\ StartSignIn("boot") /\ UNCHANGED screen
       \/ load[l].after = "signin" /\ screen' = "fallback" /\ UNCHANGED <<view, starting>>
    /\ UNCHANGED <<ledger, session, seen, told, sub, overlap, astray, missed, older>>

\* No answer: boot() catches it, nothing does after onCredential().
NotAnswered(l) ==
    /\ Asks(l) /\ load[l].account.is = "lost"
    /\ Landed(l)
    /\ \/ load[l].after = "boot" /\ view' = "signin" /\ screen' = "fallback"
       \/ load[l].after = "signin" /\ UNCHANGED <<view, screen>>
    /\ UNCHANGED <<ledger, session, starting, seen, told, sub, overlap, astray, missed, older>>

\* Fault variant: boot() leaves what startSignIn() throws to nobody.
StartedUncaught ==
    /\ starting # "no"
    /\ starting' = "no"
    /\ screen' \in {"button", "fallback", screen}
    /\ UNCHANGED <<ledger, session, view, seen, told, sub, load, overlap, astray, missed, older>>

\* startSignIn: the config and Google's script arrive and the button is there;
\* either says no; or the config is lost, which only boot() catches.
Started ==
    /\ starting # "no"
    /\ starting' = "no"
    /\ \/ screen' \in {"button", "fallback"}
       \/ screen' = IF starting = "boot" THEN "fallback" ELSE screen
    /\ UNCHANGED <<ledger, session, view, seen, told, sub, load, overlap, astray, missed, older>>

-----------------------------------------------------------------------------
\* The cookie of the browser at any time: it expires, the server restarts, or
\* another tab signs out or signs somebody in. What was sent with a cookie may
\* still be answered after it.
SessionChanges ==
    /\ session' \in (Users \cup {NoValue}) \ {session}
    /\ UNCHANGED <<ledger, view, slot, seen, told, sub, load, overlap, astray, missed, older>>

\* How the ledger of u may stand after one more withdrawal.
Recorded(u) == {[rows |-> ledger[u].rows + 1, debits |-> d] : d \in {ledger[u].debits, ledger[u].debits + 1}}

\* Withdrawals that are not this page's, or whose reply it no longer awaits.
Elsewhere(u) ==
    /\ ledger[u].rows < MaxRows
    /\ ledger' \in {[ledger EXCEPT ![u] = at] : at \in Recorded(u)}
    /\ UNCHANGED <<session, view, slot, seen, told, sub, load, overlap, astray, missed, older>>

\* submit: the button is disabled until there is a reply.
Submit ==
    /\ view = "app"
    /\ sub = NoValue
    /\ sub' = [kind |-> "sent", user |-> session]
    /\ astray' = (astray \/ session \notin {user, NoValue})
    /\ UNCHANGED <<ledger, session, view, slot, seen, told, load, overlap, missed, older>>

\* The server answers POST /me/withdraw.
Serve ==
    /\ sub # NoValue /\ sub.kind = "sent"
    /\ \/ /\ sub.user # NoValue
          /\ ledger[sub.user].rows < MaxRows
          /\ \E at \in Recorded(sub.user) :
                /\ ledger' = [ledger EXCEPT ![sub.user] = at]
                /\ sub' = [kind |-> IF at.debits > ledger[sub.user].debits THEN "recorded" ELSE "declined",
                           user |-> sub.user, at |-> at]
       \/ /\ sub.user # NoValue
          /\ ledger[sub.user].debits > 0
          /\ sub' = [kind |-> "recorded", user |-> sub.user, at |-> [rows |-> 1, debits |-> 1]]
          /\ UNCHANGED ledger
       \/ /\ sub' \in {Refused, Unauthenticated}
          /\ UNCHANGED ledger
    /\ UNCHANGED <<session, view, slot, seen, told, load, overlap, astray, missed, older>>

\* The server reads for a GET, refuses it, or it is lost either way.
Answer(l, part) ==
    /\ load[l] # NoValue
    /\ load[l][part] = Asked
    /\ \/ load' \in {[load EXCEPT ![l][part] = [is |-> no]] : no \in {"refused", "lost"}}
       \/ /\ load[l].who # NoValue
          /\ load' = [load EXCEPT ![l][part] =
                 [is |-> "read", n |-> LET at == ledger[load[l].who]
                                       IN  IF part = "account" THEN at.debits ELSE at.rows]]
    /\ UNCHANGED <<ledger, session, view, slot, seen, told, sub, overlap, astray, missed, older>>

-----------------------------------------------------------------------------
Says(reply) ==
    /\ notice' = reply
    /\ addendum' = FALSE

\* handleWithdrawal: the outcome is announced, then balance and history are read
\* with the cookie in hand, whoever's it is by now.
HandleRecorded ==
    /\ sub # NoValue /\ sub.kind \in Outcomes
    /\ Says(sub)
    /\ sub' = NoValue
    /\ Begin(sub.kind, session, Asked)
    /\ astray' = (astray \/ session \notin {user, NoValue})
    /\ UNCHANGED <<ledger, session, view, slot, seen, missed, older>>

\* Any other answer, or none.
HandleRefused ==
    /\ sub # NoValue /\ sub.kind \in {"sent", "refused"}
    /\ Says(Refused)
    /\ sub' = NoValue
    /\ UNCHANGED <<ledger, session, view, slot, seen, load, overlap, astray, missed, older>>

\* sessionEnded: what was shown stays where it is, behind the sign-in view.
SessionEnded ==
    /\ sub # NoValue /\ sub.kind = "unauthenticated"
    /\ Says(NoValue)
    /\ sub' = NoValue
    /\ StartSignIn("ended")
    /\ UNCHANGED <<ledger, session, screen, seen, load, overlap, astray, missed, older>>

-----------------------------------------------------------------------------
Parts(l) == {p \in {"account", "history"} : load[l][p] # NoValue}

\* Promise.all: every answer is in, or one of them never came.
Settled(l) == \/ \E p \in Parts(l) : load[l][p].is = "lost"
              \/ \A p \in Parts(l) : load[l][p] # Asked

Lost(l) == \E p \in Parts(l) : load[l][p].is = "lost"

\* renderTransactions, of the history if there is one
RenderTransactions(l) ==
    /\ rows' = IF IsRead(l, "history")
               THEN [user |-> load[l].who, rows |-> load[l].history.n]
               ELSE rows
    /\ missed' = ~IsRead(l, "history")

\* Fault variant: refresh() reports the balance only.
LandRefreshHalf(l) ==
    /\ load[l] # NoValue /\ load[l].after \in Outcomes
    /\ Settled(l) /\ ~Lost(l) /\ Landed(l)
    /\ IF IsRead(l, "account") THEN RenderAccount(load[l].who, load[l].account.n)
                               ELSE UNCHANGED <<account, older>>
    /\ RenderTransactions(l)
    /\ addendum' = (addendum \/ (~IsRead(l, "account") /\ notice # NoValue))
    /\ UNCHANGED <<ledger, session, view, slot, user, notice, sub, overlap, astray>>

\* Fault variant: the history is read again after a recorded withdrawal only.
LandRefreshRecorded(l) ==
    /\ load[l] # NoValue /\ load[l].after \in Outcomes
    /\ Settled(l)
    /\ Landed(l)
    /\ IF IsRead(l, "account") /\ ~Lost(l)
       THEN RenderAccount(load[l].who, load[l].account.n)
       ELSE UNCHANGED <<account, older>>
    /\ missed' = (Lost(l) \/ ~IsRead(l, "history"))
    /\ IF IsRead(l, "history") /\ ~Lost(l) /\ load[l].after = "recorded"
       THEN rows' = [user |-> load[l].who, rows |-> load[l].history.n]
       ELSE UNCHANGED rows
    /\ addendum' = \/ addendum
                   \/ /\ \E p \in Parts(l) : ~IsRead(l, p)
                      /\ load[l].after # "declined"
                      /\ notice # NoValue
    /\ UNCHANGED <<ledger, session, view, slot, user, notice, sub, overlap, astray>>

\* refresh: each answer that is good is rendered, none if one was lost; whoever
\* announced a recorded withdrawal adds that it could not be re-read.
LandRefresh(l) ==
    /\ load[l] # NoValue /\ load[l].after \in Outcomes
    /\ Settled(l)
    /\ Landed(l)
    /\ IF IsRead(l, "account") /\ ~Lost(l)
       THEN RenderAccount(load[l].who, load[l].account.n)
       ELSE UNCHANGED <<account, older>>
    /\ IF Lost(l) THEN missed' = TRUE /\ UNCHANGED rows ELSE RenderTransactions(l)
    /\ addendum' = \/ addendum
                   \/ /\ \E p \in Parts(l) : ~IsRead(l, p)
                      /\ load[l].after # "declined"
                      /\ notice # NoValue
    /\ UNCHANGED <<ledger, session, view, slot, user, notice, sub, overlap, astray>>

\* Fault variant: an empty history leaves the list as it is.
LandEnterAppends(l) ==
    /\ load[l] # NoValue /\ load[l].after \in {"boot", "signin"} /\ ~Asks(l)
    /\ Settled(l)
    /\ Landed(l)
    /\ rows' = IF IsRead(l, "history") /\ load[l].history.n > 0
               THEN [user |-> load[l].who, rows |-> load[l].history.n]
               ELSE rows
    /\ missed' = ~IsRead(l, "history")
    /\ UNCHANGED <<ledger, session, view, slot, user, account, told, sub, overlap, astray, older>>

\* enter, after its await: only boot() catches a lost answer.
LandEnter(l) ==
    /\ load[l] # NoValue /\ load[l].after \in {"boot", "signin"} /\ ~Asks(l)
    /\ Settled(l)
    /\ Landed(l)
    /\ RenderTransactions(l)
    /\ IF Lost(l) /\ load[l].after = "boot"
       THEN view' = "signin" /\ screen' = "fallback"
       ELSE UNCHANGED <<view, screen>>
    /\ UNCHANGED <<ledger, session, starting, user, account, told, sub, overlap, astray, older>>

\* The page is loaded anew, by the user, by signOut() or for a stale nonce.
Reload ==
    /\ view # "blank"
    /\ session' \in {session, NoValue}
    /\ view' = "blank" /\ screen' = "empty" /\ starting' = "no"
    /\ user' = NoValue /\ account' = NoValue /\ rows' = NoValue
    /\ Says(NoValue)
    /\ sub' = NoValue
    /\ load' = [l \in Loads |-> NoValue]
    /\ overlap' = FALSE
    /\ astray' = FALSE
    /\ missed' = FALSE
    /\ older' = FALSE
    /\ UNCHANGED ledger

Next ==
    \/ Boot \/ Started \/ OnCredential \/ SessionChanges \/ Reload
    \/ Submit \/ Serve \/ HandleRecorded \/ HandleRefused \/ SessionEnded
    \/ \E u \in Users : Elsewhere(u)
    \/ \E l \in Loads :
          \/ \E part \in {"account", "history"} : Answer(l, part)
          \/ SignIn(l) \/ Enter(l) \/ NotAdmitted(l) \/ NotAnswered(l)
          \/ LandRefresh(l) \/ LandEnter(l)

Spec == Init /\ [][Next]_vars

-----------------------------------------------------------------------------
\* Every variable of the page keeps its type.
TypeOK ==
    /\ ledger \in [Users -> Ledgers]
    /\ session \in Users \cup {NoValue}
    /\ view \in {"blank", "signin", "app"}
    /\ screen \in {"empty", "button", "fallback"}
    /\ starting \in {"no", "boot", "ended"}
    /\ user \in Users \cup {NoValue}
    /\ account \in Balance \cup {NoValue}
    /\ rows \in History \cup {NoValue}
    /\ notice \in Reply \cup {Refused, NoValue}
    /\ addendum \in BOOLEAN
    /\ sub \in Reply \cup {Refused, Unauthenticated, NoValue}
                 \cup [kind : {"sent"}, user : Users \cup {NoValue}]
    /\ load \in [Loads -> Reading \cup {NoValue}]
    /\ overlap \in BOOLEAN
    /\ astray \in BOOLEAN
    /\ missed \in BOOLEAN
    /\ older \in BOOLEAN

\* The row of a reply is among the rows shown, if they are of its account.
ShowsRow(reply) ==
    /\ rows # NoValue
    /\ rows.user = reply.user => rows.rows >= reply.at.rows
    /\ ~astray => rows.user = reply.user

(***************************************************************************)
(* app.js:487-488, 441-443, 452: refresh() "returns false if it could not, *)
(* which the caller reports", and "The attempt is on the ledger below".    *)
(* Once the page has come to rest, a withdrawal it calls recorded is in    *)
(* the balance and in the history below, or the notice says that it could  *)
(* not be re-read; one it calls declined is in the history, provided the   *)
(* reading behind it brought one. (Nothing is said when it did not: what   *)
(* refresh() returns is ignored there. With readings that overlap an       *)
(* earlier one may cover what a later one brought.) Balance and history    *)
(* are always those of one person; they are another's than the notice's    *)
(* only if the page asked with the cookie of somebody else than it shows.  *)
(***************************************************************************)
OutcomesAreShown ==
    (Quiet /\ ~overlap /\ view = "app" /\ notice # NoValue) =>
        /\ (notice.kind = "recorded" /\ ~addendum) =>
               /\ ShowsRow(notice)
               /\ account.user = rows.user
               /\ account.user = notice.user => account.debits >= notice.at.debits
        /\ (notice.kind = "declined" /\ ~missed) => ShowsRow(notice)

(***************************************************************************)
(* README.md:4, 150-151: the page "shows you your own account", "your      *)
(* balance [...] and your transaction history". While the page has asked   *)
(* for nothing, and awaits nothing, with the cookie of somebody else than  *)
(* it names, the balance under a name is of that person's account, over    *)
(* ended sessions, other people signing in, here or in another tab, and    *)
(* answers in any order; once the page has come to rest so are the rows,   *)
(* provided the last reading brought a history. (Beyond that it is not:    *)
(* refresh() renders whoever's account it was sent, so a sign-in in        *)
(* another tab, or a late answer to whoever was there before, puts one     *)
(* person's balance under another's name; and enter() leaves the rows of   *)
(* whoever was there before when its reading brings none.)                 *)
(***************************************************************************)
OwnAccountShown ==
    (view = "app" /\ ~astray) =>
        /\ account.user = user
        /\ (Quiet /\ ~missed /\ rows # NoValue) => rows.user = user

(***************************************************************************)
(* app.js:234-236: the balance is "stamped with the moment it was actually *)
(* read, and re-stamped only when it is read again". So what is shown,     *)
(* under a later stamp, is never older than what was shown before, while   *)
(* no two readings overlap. (When they do, the earlier may land last.)     *)
(***************************************************************************)
NeverOlderAlone == ~overlap => ~older

(***************************************************************************)
(* app.js:709-713: a failed start must not be "a blank page with no        *)
(* explanation". A page nobody has entered yet ends up with a button or    *)
(* an explanation, whatever answers are lost. (After a session ended it    *)
(* may have neither: nothing catches what startSignIn() throws there.)     *)
(***************************************************************************)
ColdStartIsBuilt ==
    (view = "signin" /\ starting = "no" /\ user = NoValue) => screen # "empty"
=============================================================================

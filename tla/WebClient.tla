----------------------------- MODULE WebClient -----------------------------
(***************************************************************************)
(* The withdrawal form of public/app.js: one page, signed in as one user,  *)
(* over a network that loses and delays what it carries, against a server  *)
(* whose withdrawals are those of Ledger and whose session may end.        *)
(*                                                                         *)
(* What the user means by "the same withdrawal" is an attempt: it ends     *)
(* when the page says how it came out, when the form is edited, and when   *)
(* the page is loaded anew.                                                *)
(***************************************************************************)
EXTENDS Ledger

CONSTANTS
    Account,        \* the account of the signed-in user
    MaxAttempts,    \* bound: attempts the user makes
    MaxSessions     \* bound: times the user signs in

Forms == [amount : Amounts, dest : Dests]

\* Which attempt a request was sent in, and how often the user had signed in.
Origin == [attempt : 1..MaxAttempts, session : 0..MaxSessions]

\* What the page has said of an attempt, and in which sign-in.
Verdict == [outcome : {"cleared", "declined"}, session : 0..MaxSessions]

ASSUME WebClientAssumption ==
    /\ Account \in Accounts
    /\ MaxAttempts \in Nat \ {0} /\ MaxSessions \in Nat
    /\ NoValue \notin Keys \cup Requests \cup Forms \cup Origin \cup Verdict

VARIABLES
    view,       \* "signin" or "app"
    form,       \* what the form asks for, NoValue while it is blank
    key,        \* state.idempotencyKey, NoValue while there is none
    awaiting,   \* the request whose reply submit() awaits, or NoValue
    session,    \* whether the cookie is good for the server
    sessions,   \* how often the user has signed in
    sent,       \* what each request sent carries, NoValue before
    refused,    \* requests answered 401
    attempt,    \* history: the attempt the user is at
    origin,     \* history: the attempt and the sign-in each request was sent in
    told        \* history: what the page last said of each attempt, in which sign-in

page == <<view, form, key, awaiting, session, sessions, sent, refused, attempt, origin, told>>
clientVars == <<vars, page>>

Asks(f, k) == [account |-> Account, key |-> k, amount |-> f.amount, dest |-> f.dest]

\* The keys crypto.randomUUID() has returned before.
Minted == {sent[r].key : r \in {q \in Requests : sent[q] # NoValue}}

-----------------------------------------------------------------------------
WebInit ==
    /\ Init
    /\ view = "signin"
    /\ form = NoValue
    /\ key = NoValue
    /\ awaiting = NoValue
    /\ session = FALSE
    /\ sessions = 0
    /\ sent = [r \in Requests |-> NoValue]
    /\ refused = {}
    /\ attempt = 1
    /\ origin = [r \in Requests |-> NoValue]
    /\ told = [n \in 1..MaxAttempts |-> NoValue]

\* onCredential, enter: the first visit opens the account.
SignIn ==
    /\ view = "signin"
    /\ sessions < MaxSessions
    /\ sessions' = sessions + 1
    /\ session' = TRUE
    /\ view' = "app"
    /\ \/ Account \in accounts /\ UNCHANGED vars
       \/ \E b \in Openings : CreateAccount(Account, b)
    /\ UNCHANGED <<form, key, awaiting, sent, refused, attempt, origin, told>>

NextAttempt ==
    /\ attempt < MaxAttempts
    /\ attempt' = attempt + 1

\* The user fills in or changes the form: another withdrawal is meant.
Edit ==
    /\ view = "app"
    /\ \E f \in Forms \ {form} : form' = f
    /\ IF form = NoValue THEN UNCHANGED attempt ELSE NextAttempt
    /\ UNCHANGED <<vars, view, key, awaiting, session, sessions, sent, refused, origin, told>>

\* submit: a key is minted unless an attempt under one is still open.
Submit(r) ==
    /\ view = "app"
    /\ form # NoValue
    /\ awaiting = NoValue
    /\ sent[r] = NoValue
    /\ key' \in IF key = NoValue THEN Keys \ Minted ELSE {key}
    /\ sent' = [sent EXCEPT ![r] = Asks(form, key')]
    /\ origin' = [origin EXCEPT ![r] = [attempt |-> attempt, session |-> sessions]]
    /\ awaiting' = r
    /\ UNCHANGED <<vars, view, form, session, sessions, refused, attempt, told>>

\* Fault variant: a lost reply drops the key.
NoReplyForgets ==
    /\ awaiting # NoValue
    /\ awaiting' = NoValue
    /\ key' = NoValue
    /\ UNCHANGED <<vars, view, form, session, sessions, sent, refused, attempt, origin, told>>

\* fetch() rejects: the request may or may not have landed, and may land yet.
NoReply ==
    /\ awaiting # NoValue
    /\ awaiting' = NoValue
    /\ UNCHANGED <<vars, view, form, key, session, sessions, sent, refused, attempt, origin, told>>

-----------------------------------------------------------------------------
\* requireSession, then the handler of POST /me/withdraw.
Take(r) ==
    /\ sent[r] # NoValue
    /\ r \notin refused
    /\ session
    /\ Arrive(r, sent[r])
    /\ UNCHANGED page

Refuse(r) ==
    /\ sent[r] # NoValue
    /\ req[r] = NoValue
    /\ ~session
    /\ refused' = refused \cup {r}
    /\ UNCHANGED <<vars, view, form, key, awaiting, session, sessions, sent, attempt, origin, told>>

\* The server at work on the requests it has taken.
Serve(r) ==
    /\ Record(r) \/ AnswerRecorded(r) \/ AnswerKeyReused(r) \/ AnswerError(r)
    /\ UNCHANGED page

\* The cookie expires, or the server restarts with another secret.
SessionEnds ==
    /\ session
    /\ session' = FALSE
    /\ UNCHANGED <<vars, view, form, key, awaiting, sessions, sent, refused, attempt, origin, told>>

-----------------------------------------------------------------------------
Replied(r) == awaiting = r /\ res[r] # NoValue

\* The page says how the attempt came out, which ends it and its key.
Conclude(outcome) ==
    /\ told' = [told EXCEPT ![attempt] = [outcome |-> outcome, session |-> sessions]]
    /\ key' = NoValue
    /\ awaiting' = NoValue
    /\ NextAttempt

\* handleWithdrawal: 201. The form is cleared unless this was a replay.
HandleCreated(r) ==
    /\ Replied(r)
    /\ res[r].code = "CREATED"
    /\ Conclude("cleared")
    /\ form' = IF res[r].replayed THEN form ELSE NoValue
    /\ UNCHANGED <<vars, view, session, sessions, sent, refused, origin>>

\* handleWithdrawal: 409 INSUFFICIENT_FUNDS, recorded like a success.
HandleDeclined(r) ==
    /\ Replied(r)
    /\ res[r].code = "INSUFFICIENT_FUNDS"
    /\ Conclude("declined")
    /\ UNCHANGED <<vars, view, form, session, sessions, sent, refused, origin>>

\* handleWithdrawal: the key belongs to another withdrawal.
HandleKeyReused(r) ==
    /\ Replied(r)
    /\ res[r].code = "IDEMPOTENCY_KEY_REUSED"
    /\ key' = NoValue
    /\ awaiting' = NoValue
    /\ UNCHANGED <<vars, view, form, session, sessions, sent, refused, attempt, origin, told>>

\* Fault variant: a server error is taken for a decline.
HandleErrorAsDeclined(r) ==
    /\ Replied(r)
    /\ res[r].code = "INTERNAL_ERROR"
    /\ Conclude("declined")
    /\ UNCHANGED <<vars, view, form, session, sessions, sent, refused, origin>>

\* handleWithdrawal: any other status is announced, and the key kept.
HandleError(r) ==
    /\ Replied(r)
    /\ res[r].code = "INTERNAL_ERROR"
    /\ awaiting' = NoValue
    /\ UNCHANGED <<vars, view, form, key, session, sessions, sent, refused, attempt, origin, told>>

\* handleWithdrawal: 401. sessionEnded() drops the key and leaves the form.
HandleUnauthenticated(r) ==
    /\ awaiting = r
    /\ r \in refused
    /\ awaiting' = NoValue
    /\ key' = NoValue
    /\ view' = "signin"
    /\ UNCHANGED <<vars, form, session, sessions, sent, refused, attempt, origin, told>>

\* The page is loaded anew, after signOut() or by the user: boot() asks /me.
Reload ==
    /\ session' \in {FALSE, session}
    /\ view' = IF session' THEN "app" ELSE "signin"
    /\ form' = NoValue
    /\ key' = NoValue
    /\ awaiting' = NoValue
    /\ NextAttempt
    /\ UNCHANGED <<vars, sessions, sent, refused, origin, told>>

-----------------------------------------------------------------------------
WebNext ==
    \/ SignIn \/ Edit \/ NoReply \/ SessionEnds \/ Reload
    \/ \E r \in Requests :
          \/ Submit(r) \/ Take(r) \/ Refuse(r) \/ Serve(r)
          \/ HandleCreated(r) \/ HandleDeclined(r) \/ HandleKeyReused(r)
          \/ HandleError(r) \/ HandleUnauthenticated(r)

WebSpec == WebInit /\ [][WebNext]_clientVars

-----------------------------------------------------------------------------
\* Every variable of the page keeps its type.
TypeOK ==
    /\ view \in {"signin", "app"}
    /\ form \in Forms \cup {NoValue}
    /\ key \in Keys \cup {NoValue}
    /\ awaiting \in Requests \cup {NoValue}
    /\ session \in BOOLEAN
    /\ sessions \in 0..MaxSessions
    /\ sent \in [Requests -> Input \cup {NoValue}]
    /\ refused \subseteq Requests
    /\ attempt \in 1..MaxAttempts
    /\ origin \in [Requests -> Origin \cup {NoValue}]
    /\ told \in [1..MaxAttempts -> Verdict \cup {NoValue}]

Charged == {row \in rows : row.status = "completed"}

(***************************************************************************)
(* app.js:124-126: "reused for every retry of the same attempt, so a       *)
(* resend after a dropped connection replays rather than charging twice.   *)
(* Cleared once an attempt is recorded." However replies are lost and      *)
(* requests delayed, one attempt moves money once.                         *)
(***************************************************************************)
ChargedOncePerAttempt ==
    \A x, y \in Charged : origin[x.id].attempt = origin[y.id].attempt => x = y

(***************************************************************************)
(* What the code keeps of it: an attempt moves money once for as long as   *)
(* the user need not sign in again, over any number of lost replies,       *)
(* errors and late requests.                                               *)
(***************************************************************************)
ChargedOncePerSignIn ==
    \A x, y \in Charged : origin[x.id] = origin[y.id] => x = y

(***************************************************************************)
(* "Declined" is the last word: no request of an attempt the page called   *)
(* declined moves money in the same sign-in, however late it arrives.      *)
(***************************************************************************)
DeclinedMeansNotCharged ==
    \A row \in Charged :
        LET o == origin[row.id]
        IN  told[o.attempt] # [outcome |-> "declined", session |-> o.session]
=============================================================================

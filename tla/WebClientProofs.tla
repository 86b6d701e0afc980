-------------------------- MODULE WebClientProofs --------------------------
(***************************************************************************)
(* One sign-in charges an attempt once, and what the page calls declined   *)
(* is not charged in it, for any number of submissions, attempts and       *)
(* sign-ins, over lost replies, late requests, server errors, edits,       *)
(* reloads and sessions that end.                                          *)
(***************************************************************************)
EXTENDS WebClient, TLAPS

-----------------------------------------------------------------------------
(* The inductive invariant.                                                *)

\* Another withdrawal is on record under the key of q, which q cannot change.
Void(q) == \E row \in rows : UnderKeyOf(row, sent[q]) /\ ~ParamsMatch(row, sent[q])

\* The withdrawal on record under the key of q did not move money.
Failed(q) == \E row \in rows : UnderKeyOf(row, sent[q]) /\ row.status = "failed"

\* q was sent in the attempt and the sign-in the page is at.
Current(q) == sent[q] # NoValue /\ origin[q] = [attempt |-> attempt, session |-> sessions]

\* A row is what a request asked for, it is settled, and it has its key alone.
Records ==
    /\ \A row \in rows :
          /\ row.id \in Requests /\ req[row.id] # NoValue
          /\ row.status \in {"completed", "failed"}
          /\ row = RowOf(row.id, req[row.id], row.status)
    /\ \A x, y \in rows : UnderKeyOf(x, y) => x = y

\* The server is asked what was sent, and an outcome it answers is on record.
Answered(r) ==
    /\ req[r] # NoValue => sent[r] # NoValue /\ req[r] = sent[r]
    /\ res[r] # NoValue =>
          /\ req[r] # NoValue
          /\ res[r].code = "INSUFFICIENT_FUNDS" => Failed(r) /\ ~Void(r)
          /\ res[r].code = "IDEMPOTENCY_KEY_REUSED" => Void(r)

Answers ==
    /\ req \in [Requests -> Input \cup {NoValue}]
    /\ res \in [Requests -> Answer \cup {NoValue}]
    /\ \A r \in Requests : Answered(r)

\* Requests were sent in attempts and sign-ins there have been.
Origins ==
    \A q \in Requests :
        sent[q] # NoValue =>
            /\ origin[q] # NoValue
            /\ origin[q].attempt <= attempt
            /\ origin[q].session <= sessions

\* The reply awaited is to what the form and the key say, sent in this sign-in.
\* If it is of an earlier attempt, the form was edited and nothing was sent since.
Awaited ==
    /\ view = "signin" => awaiting = NoValue
    /\ \A r \in Requests : awaiting = r =>
          /\ sent[r] # NoValue /\ origin[r].session = sessions
          /\ \/ origin[r].attempt = attempt /\ key # NoValue /\ form # NoValue /\ sent[r] = Asks(form, key)
             \/ \A q \in Requests : sent[q] # NoValue => origin[q].attempt # attempt

\* What was sent in this attempt is what the form and the key say, or is void.
Alike ==
    view = "app" =>
        \A q \in Requests : Current(q) =>
            \/ Void(q)
            \/ key # NoValue /\ form # NoValue /\ sent[q] = Asks(form, key)

\* So is what was sent in any other.
Resends ==
    \A p, q \in Requests :
        sent[p] # NoValue /\ sent[q] # NoValue /\ origin[p] = origin[q] =>
            sent[p] = sent[q] \/ Void(p) \/ Void(q)

\* An attempt that was called declined is over, and no request of it can charge.
Verdicts ==
    \A n \in 1..MaxAttempts, s \in 0..MaxSessions :
        told[n] = [outcome |-> "declined", session |-> s] =>
            /\ n < attempt
            /\ \A q \in Requests :
                  sent[q] # NoValue /\ origin[q] = [attempt |-> n, session |-> s] =>
                      Void(q) \/ Failed(q)

(***************************************************************************)
(* Every submission of an attempt in one sign-in asks for one withdrawal   *)
(* under one key, but for those whose key has gone to another withdrawal   *)
(* already; the rows of the server do the rest.                            *)
(***************************************************************************)
IInv ==
    /\ TypeOK
    /\ Records
    /\ Answers
    /\ Origins
    /\ Awaited
    /\ Alike
    /\ Resends
    /\ Verdicts

-----------------------------------------------------------------------------
LEMMA Sentinels ==
    /\ NoValue \notin Keys /\ NoValue \notin Requests /\ NoValue \notin Forms
    /\ NoValue \notin Origin /\ NoValue \notin Verdict
    /\ NoValue \notin Input /\ NoValue \notin Answer
    /\ Account \in Accounts /\ MaxAttempts \in Nat \ {0} /\ MaxSessions \in Nat
BY WebClientAssumption, DataAssumption DEF WebClientAssumption, DataAssumption

LEMMA AsksType ==
    ASSUME NEW f \in Forms, NEW k \in Keys
    PROVE  Asks(f, k) \in Input
BY Sentinels DEF Asks, Forms, Input

LEMMA AnswerTypes ==
    /\ \A r \in Requests, i \in Input, st \in Statuses : RowOf(r, i, st) \in Row
    /\ \A row \in Row, b \in BOOLEAN : SendWithdrawal(row, b) \in Answer
    /\ \A code \in Refusals : Refusal(code) \in Answer
<1>1. ASSUME NEW r \in Requests, NEW i \in Input, NEW st \in Statuses PROVE RowOf(r, i, st) \in Row
  BY DEF RowOf, Row, Input
<1>2. ASSUME NEW row \in Row, NEW b \in BOOLEAN PROVE SendWithdrawal(row, b) \in Answer
  BY DEF SendWithdrawal, Answer
<1>3. ASSUME NEW code \in Refusals PROVE Refusal(code) \in Answer
  BY DEF Refusal, Answer
<1> QED
  BY <1>1, <1>2, <1>3

LEMMA TypeInit == WebInit => TypeOK
<1>1. 1 \in 1..MaxAttempts /\ 0 \in 0..MaxSessions
  BY Sentinels
<1> QED
  BY <1>1 DEF WebInit, TypeOK

LEMMA TypeNext == TypeOK /\ [WebNext]_clientVars => TypeOK'
<1> SUFFICES ASSUME TypeOK, [WebNext]_clientVars PROVE TypeOK'
  OBVIOUS
<1>0. /\ attempt \in Nat /\ sessions \in Nat /\ attempt \in 1..MaxAttempts
      /\ sessions \in 0..MaxSessions /\ MaxAttempts \in Nat /\ MaxSessions \in Nat
  BY Sentinels DEF TypeOK
<1>a. NextAttempt => attempt' \in 1..MaxAttempts
  BY <1>0 DEF NextAttempt
<1>1. CASE SignIn
  <2>1. sessions' \in 0..MaxSessions
    BY <1>0, <1>1 DEF SignIn
  <2> QED
    BY <1>1, <2>1 DEF SignIn, TypeOK
<1>2. CASE Edit
  <2>1. attempt' \in 1..MaxAttempts /\ form' \in Forms
    BY <1>0, <1>a, <1>2 DEF Edit
  <2> QED
    BY <1>2, <2>1 DEF Edit, TypeOK
<1>3. CASE NoReply \/ SessionEnds
  BY <1>3 DEF NoReply, SessionEnds, TypeOK
<1>4. CASE Reload
  BY <1>a, <1>4 DEF Reload, TypeOK
<1>5. ASSUME NEW r \in Requests, Submit(r) PROVE TypeOK'
  <2>1. form \in Forms /\ key' \in Keys
    BY <1>5 DEF Submit, TypeOK
  <2>2. Asks(form, key') \in Input
    BY <2>1, AsksType
  <2>3. [attempt |-> attempt, session |-> sessions] \in Origin
    BY <1>0 DEF Origin
  <2> QED
    BY <1>5, <2>1, <2>2, <2>3 DEF Submit, TypeOK
<1>6. ASSUME NEW r \in Requests, Take(r) \/ Serve(r) PROVE TypeOK'
  BY <1>6 DEF Take, Serve, page, TypeOK
<1>7. ASSUME NEW r \in Requests, Refuse(r) PROVE TypeOK'
  BY <1>7 DEF Refuse, TypeOK
<1>8. ASSUME NEW r \in Requests, NEW outcome \in {"cleared", "declined"}, Conclude(outcome)
      PROVE  told' \in [1..MaxAttempts -> Verdict \cup {NoValue}]
  <2>1. [outcome |-> outcome, session |-> sessions] \in Verdict
    BY <1>0 DEF Verdict
  <2> QED
    BY <1>8, <2>1 DEF Conclude, TypeOK
<1>9. ASSUME NEW r \in Requests, HandleCreated(r) PROVE TypeOK'
  <2>1. attempt' \in 1..MaxAttempts /\ told' \in [1..MaxAttempts -> Verdict \cup {NoValue}]
    BY <1>a, <1>8, <1>9 DEF HandleCreated, Conclude
  <2> QED
    BY <1>9, <2>1 DEF HandleCreated, Conclude, TypeOK
<1>10. ASSUME NEW r \in Requests, HandleDeclined(r) PROVE TypeOK'
  <2>1. attempt' \in 1..MaxAttempts /\ told' \in [1..MaxAttempts -> Verdict \cup {NoValue}]
    BY <1>a, <1>8, <1>10 DEF HandleDeclined, Conclude
  <2> QED
    BY <1>10, <2>1 DEF HandleDeclined, Conclude, TypeOK
<1>11. ASSUME NEW r \in Requests, HandleKeyReused(r) \/ HandleError(r) \/ HandleUnauthenticated(r)
       PROVE  TypeOK'
  BY <1>11 DEF HandleKeyReused, HandleError, HandleUnauthenticated, TypeOK
<1>12. CASE UNCHANGED clientVars
  BY <1>12 DEF clientVars, page, TypeOK
<1> QED
  BY <1>1, <1>2, <1>3, <1>4, <1>5, <1>6, <1>7, <1>9, <1>10, <1>11, <1>12 DEF WebNext

-----------------------------------------------------------------------------
(* The server: what its steps do to the rows and the answers.              *)

\* Between the page and the server there are requests only.
LEMMA ServerSteps ==
    ASSUME [WebNext]_clientVars
    PROVE  \/ UNCHANGED <<rows, req, res>>
           \/ UNCHANGED page /\ \E r \in Requests : Take(r) \/ Serve(r)
<1>1. CASE \E r \in Requests : Take(r) \/ Serve(r)
  BY <1>1 DEF Take, Serve
<1>2. CASE SignIn
  BY <1>2 DEF SignIn, CreateAccount, vars
<1>3. ASSUME NEW r \in Requests,
             \/ Submit(r) \/ Refuse(r) \/ HandleCreated(r) \/ HandleDeclined(r)
             \/ HandleKeyReused(r) \/ HandleError(r) \/ HandleUnauthenticated(r)
      PROVE  UNCHANGED <<rows, req, res>>
  BY <1>3 DEF Submit, Refuse, HandleCreated, HandleDeclined, HandleKeyReused, HandleError,
     HandleUnauthenticated, vars
<1>4. CASE Edit \/ NoReply \/ SessionEnds \/ Reload \/ UNCHANGED clientVars
  BY <1>4 DEF Edit, NoReply, SessionEnds, Reload, clientVars, vars
<1> QED
  BY <1>1, <1>2, <1>3, <1>4 DEF WebNext

\* A request is recorded once its key is free.
LEMMA RecordFacts ==
    ASSUME Answers, NEW r \in Requests, Record(r)
    PROVE  /\ req[r] # NoValue /\ req[r] \in Input /\ req[r] = sent[r]
           /\ \A row \in rows : ~UnderKeyOf(row, req[r])
           /\ \E st \in {"completed", "failed"} : rows' = rows \cup {RowOf(r, req[r], st)}
           /\ req' = req /\ res' = res
BY DEF Record, Answers, Answered

LEMMA RecordsNext == IInv /\ [WebNext]_clientVars => Records'
<1> SUFFICES ASSUME IInv, [WebNext]_clientVars PROVE Records'
  OBVIOUS
<1> Records /\ Answers
  BY DEF IInv
<1>1. CASE UNCHANGED <<rows, req, res>>
  BY <1>1 DEF Records
<1>2. ASSUME NEW r \in Requests, Take(r) PROVE Records'
  <2>1. rows' = rows /\ req[r] = NoValue /\ \A q \in Requests \ {r} : req'[q] = req[q]
    BY <1>2 DEF Take, Arrive, Answers
  <2> QED
    BY <2>1 DEF Records
<1>3. ASSUME NEW r \in Requests, Record(r) PROVE Records'
  <2>1. PICK st \in {"completed", "failed"} : rows' = rows \cup {RowOf(r, req[r], st)}
    BY <1>3, RecordFacts
  <2>2. req' = req /\ req[r] # NoValue /\ \A row \in rows : ~UnderKeyOf(row, req[r])
    BY <1>3, RecordFacts
  <2> DEFINE new == RowOf(r, req[r], st)
  <2>3. /\ new.id = r /\ new.status = st /\ new = RowOf(new.id, req[new.id], new.status)
        /\ new.account = req[r].account /\ new.key = req[r].key
    BY DEF RowOf
  <2> HIDE DEF new
  <2> QED
    BY <2>1, <2>2, <2>3 DEF Records, UnderKeyOf, new
<1>4. ASSUME NEW r \in Requests, AnswerRecorded(r) \/ AnswerKeyReused(r) \/ AnswerError(r)
      PROVE  Records'
  BY <1>4 DEF AnswerRecorded, AnswerKeyReused, AnswerError, AnswerWith, Records
<1> QED
  BY <1>1, <1>2, <1>3, <1>4, ServerSteps DEF Serve

\* Rows stay, and so does what was sent.
LEMMA Lasting ==
    ASSUME IInv, [WebNext]_clientVars
    PROVE  /\ rows \subseteq rows'
           /\ \A q \in Requests : sent[q] # NoValue =>
                 /\ sent'[q] = sent[q] /\ origin'[q] = origin[q]
                 /\ Void(q) => Void(q)'
                 /\ Failed(q) => Failed(q)'
<1>1. rows \subseteq rows'
  <2>1. ASSUME NEW r \in Requests, Take(r) \/ Serve(r) PROVE rows \subseteq rows'
    BY <2>1 DEF Take, Arrive, Serve, Record, AnswerRecorded, AnswerKeyReused, AnswerError, AnswerWith
  <2> QED
    BY <2>1, ServerSteps
<1>2. ASSUME NEW q \in Requests, sent[q] # NoValue PROVE sent'[q] = sent[q] /\ origin'[q] = origin[q]
  <2>1. ASSUME NEW r \in Requests, Submit(r) PROVE sent'[q] = sent[q] /\ origin'[q] = origin[q]
    BY <1>2, <2>1 DEF Submit, IInv, TypeOK
  <2>2. ASSUME NEW r \in Requests, ~Submit(r),
               \/ Take(r) \/ Refuse(r) \/ Serve(r) \/ HandleCreated(r) \/ HandleDeclined(r)
               \/ HandleKeyReused(r) \/ HandleError(r) \/ HandleUnauthenticated(r)
        PROVE  sent' = sent /\ origin' = origin
    BY <2>2 DEF Take, Refuse, Serve, HandleCreated, HandleDeclined, HandleKeyReused, HandleError,
       HandleUnauthenticated, page
  <2>3. CASE SignIn \/ Edit \/ NoReply \/ SessionEnds \/ Reload \/ UNCHANGED clientVars
    BY <2>3 DEF SignIn, Edit, NoReply, SessionEnds, Reload, clientVars, page
  <2> QED
    BY <2>1, <2>2, <2>3 DEF WebNext
<1> QED
  BY <1>1, <1>2 DEF Void, Failed

LEMMA AnswersNext == IInv /\ [WebNext]_clientVars => Answers'
<1> SUFFICES ASSUME IInv, [WebNext]_clientVars PROVE Answers'
  OBVIOUS
<1> Records /\ Answers /\ TypeOK
  BY DEF IInv
\* One row has the key, so a request that failed is not void, now or later.
<1>a. ASSUME NEW r \in Requests, sent[r] # NoValue, Failed(r), ~Void(r) PROVE ~Void(r)'
  <2>1. \A x, y \in rows' : UnderKeyOf(x, y) => x = y
    BY RecordsNext DEF Records
  <2>2. PICK row \in rows : UnderKeyOf(row, sent[r]) /\ row.status = "failed"
    BY <1>a DEF Failed
  <2>3. row \in rows' /\ sent'[r] = sent[r]
    BY <1>a, Lasting
  <2> QED
    BY <1>a, <2>1, <2>2, <2>3 DEF Void, UnderKeyOf
<1>b. ASSUME NEW r \in Requests, req'[r] = req[r], res'[r] = res[r] PROVE Answered(r)'
  <2>1. Answered(r)
    BY DEF Answers
  <2>2. sent[r] # NoValue =>
            /\ sent'[r] = sent[r]
            /\ Void(r) => Void(r)'
            /\ Failed(r) /\ ~Void(r) => Failed(r)' /\ ~Void(r)'
    BY <1>a, Lasting
  <2> QED
    BY <1>b, <2>1, <2>2 DEF Answered
<1> DEFINE Types == /\ req \in [Requests -> Input \cup {NoValue}]
                    /\ res \in [Requests -> Answer \cup {NoValue}]
<1>1. CASE UNCHANGED <<rows, req, res>>
  BY <1>1, <1>b DEF Answers
<1> SUFFICES ASSUME NEW r \in Requests PROVE Types' /\ Answered(r)'
  BY <1>1, ServerSteps DEF Answers
<1>2. ASSUME NEW q \in Requests, Take(q) PROVE Types' /\ Answered(r)'
  <2>1. /\ sent[q] \in Input /\ sent[q] # NoValue /\ req[q] = NoValue /\ sent' = sent
        /\ req' = [req EXCEPT ![q] = sent[q]] /\ res' = res
    BY <1>2 DEF Take, Arrive, TypeOK, page
  <2>2. CASE r = q
    <3>1. req'[r] = sent'[r] /\ sent'[r] # NoValue /\ res'[r] = NoValue
      BY <2>1, <2>2 DEF Answers, Answered
    <3> QED
      BY <2>1, <3>1 DEF Answers, Answered
  <2> QED
    BY <1>b, <2>1, <2>2 DEF Answers, Answered
<1>3. ASSUME NEW q \in Requests, Record(q) PROVE Types' /\ Answered(r)'
  BY <1>3, <1>b, RecordFacts DEF Answers, Answered
<1>4. ASSUME NEW q \in Requests, NEW answer \in Answer,
             Outstanding(q), AnswerWith(q, answer), UNCHANGED page,
             answer.code = "INSUFFICIENT_FUNDS" => Failed(q) /\ ~Void(q),
             answer.code = "IDEMPOTENCY_KEY_REUSED" => Void(q)
      PROVE  Types' /\ Answered(r)'
  <2>1. /\ res' = [res EXCEPT ![q] = answer] /\ req' = req /\ rows' = rows /\ sent' = sent
        /\ req[q] # NoValue
    BY <1>4 DEF AnswerWith, Outstanding, page
  <2>2. CASE r = q
    <3>1. res'[r] = answer /\ (Failed(q) <=> Failed(q)') /\ (Void(q) <=> Void(q)')
      BY <2>1, <2>2 DEF Answers, Failed, Void
    <3> QED
      BY <1>4, <2>1, <2>2, <3>1 DEF Answers, Answered
  <2> QED
    BY <1>b, <2>1, <2>2 DEF Answers, Answered
<1>5. ASSUME NEW q \in Requests, AnswerRecorded(q), UNCHANGED page
      PROVE  Types' /\ Answered(r)'
  <2>1. PICK row \in rows : /\ UnderKeyOf(row, req[q]) /\ ParamsMatch(row, req[q])
                            /\ AnswerWith(q, SendWithdrawal(row, row.id # q))
    BY <1>5 DEF AnswerRecorded
  <2>2. Outstanding(q) /\ req[q] = sent[q]
    BY <1>5 DEF AnswerRecorded, Outstanding, Answers, Answered
  <2>3. row \in Row /\ row.status \in {"completed", "failed"}
    BY AnswerTypes DEF Records, Statuses, Answers
  <2>4. SendWithdrawal(row, row.id # q) \in Answer
    BY <2>3, AnswerTypes
  <2>5. ~Void(q)
    BY <2>1, <2>2 DEF Void, Records, UnderKeyOf
  <2>6. SendWithdrawal(row, row.id # q).code = "INSUFFICIENT_FUNDS" => Failed(q)
    BY <2>1, <2>2, <2>3 DEF SendWithdrawal, Failed
  <2>7. SendWithdrawal(row, row.id # q).code # "IDEMPOTENCY_KEY_REUSED"
    BY DEF SendWithdrawal
  <2> QED
    BY <1>4, <1>5, <2>1, <2>2, <2>4, <2>5, <2>6, <2>7
<1>6. ASSUME NEW q \in Requests, AnswerKeyReused(q) \/ AnswerError(q), UNCHANGED page
      PROVE  Types' /\ Answered(r)'
  <2>1. Outstanding(q) /\ req[q] = sent[q]
    BY <1>6 DEF AnswerKeyReused, AnswerError, Outstanding, Answers, Answered
  <2>2. PICK code \in {"IDEMPOTENCY_KEY_REUSED", "INTERNAL_ERROR"} :
            /\ AnswerWith(q, Refusal(code))
            /\ code = "IDEMPOTENCY_KEY_REUSED" => Void(q)
    BY <1>6, <2>1 DEF AnswerKeyReused, AnswerError, Void
  <2>3. Refusal(code) \in Answer /\ Refusal(code).code = code
    BY AnswerTypes DEF Refusals, Refusal
  <2> QED
    BY <1>4, <1>6, <2>1, <2>2, <2>3
<1> QED
  BY <1>1, <1>2, <1>3, <1>5, <1>6, ServerSteps DEF Serve, Answers

-----------------------------------------------------------------------------
(* The page: the kinds of steps it takes.                                  *)

\* The server or the network is at work, or an error is announced.
Waits ==
    /\ UNCHANGED <<view, form, key, sessions, sent, attempt, origin, told>>
    /\ awaiting' \in {awaiting, NoValue}

\* The user signs in, from a page with nothing under way.
Enters ==
    /\ view = "signin" /\ view' = "app"
    /\ sessions' = sessions + 1
    /\ UNCHANGED <<form, key, awaiting, sent, attempt, origin, told>>

\* The form changes: another attempt, unless it was blank.
Edits ==
    /\ view = "app" /\ form' # form /\ form' \in Forms
    /\ attempt' = IF form = NoValue THEN attempt ELSE attempt + 1
    /\ UNCHANGED <<view, key, awaiting, sessions, sent, origin, told>>

\* The attempt ends, and the page may have said how.
Ends ==
    /\ attempt' = attempt + 1
    /\ key' = NoValue /\ awaiting' = NoValue
    /\ UNCHANGED <<sessions, sent, origin>>
    /\ \/ told' = told
       \/ told' = [told EXCEPT ![attempt] = [outcome |-> "cleared", session |-> sessions]]
       \/ /\ told' = [told EXCEPT ![attempt] = [outcome |-> "declined", session |-> sessions]]
          /\ \E r \in Requests : awaiting = r /\ res[r] # NoValue /\ res[r].code = "INSUFFICIENT_FUNDS"

\* The key is dropped and the attempt goes on, in this sign-in or the next.
Drops ==
    /\ key' = NoValue /\ awaiting' = NoValue
    /\ UNCHANGED <<form, sessions, sent, attempt, origin, told>>
    /\ \/ view' = "signin"
       \/ /\ view' = view
          /\ \E r \in Requests :
                awaiting = r /\ res[r] # NoValue /\ res[r].code = "IDEMPOTENCY_KEY_REUSED"

LEMMA PageSteps ==
    ASSUME [WebNext]_clientVars
    PROVE  \/ Waits \/ Enters \/ Edits \/ Ends \/ Drops
           \/ \E r \in Requests : Submit(r)
<1>1. SignIn => Enters
  BY DEF SignIn, Enters
<1>2. Edit => Edits
  BY DEF Edit, Edits, NextAttempt
<1>3. NoReply \/ SessionEnds \/ UNCHANGED clientVars => Waits
  BY DEF NoReply, SessionEnds, clientVars, page, Waits
<1>4. Reload => Ends
  BY DEF Reload, NextAttempt, Ends
<1>5. ASSUME NEW r \in Requests, Take(r) \/ Serve(r) \/ Refuse(r) \/ HandleError(r) PROVE Waits
  BY <1>5 DEF Take, Serve, Refuse, HandleError, page, Waits
<1>6. ASSUME NEW r \in Requests, HandleCreated(r) PROVE Ends
  <2>1. Conclude("cleared") /\ UNCHANGED <<sessions, sent, origin>>
    BY <1>6, Zenon DEF HandleCreated
  <2> QED
    BY <2>1 DEF Conclude, NextAttempt, Ends
<1>7. ASSUME NEW r \in Requests, HandleDeclined(r) PROVE Ends
  BY <1>7 DEF HandleDeclined, Replied, Conclude, NextAttempt, Ends
<1>8. ASSUME NEW r \in Requests, HandleKeyReused(r) \/ HandleUnauthenticated(r) PROVE Drops
  BY <1>8 DEF HandleKeyReused, HandleUnauthenticated, Replied, Drops
<1> QED
  BY <1>1, <1>2, <1>3, <1>4, <1>5, <1>6, <1>7, <1>8 DEF WebNext

LEMMA Numbers ==
    ASSUME TypeOK
    PROVE  /\ attempt \in Nat /\ attempt \in 1..MaxAttempts
           /\ sessions \in Nat /\ sessions \in 0..MaxSessions
           /\ \A q \in Requests : origin[q] # NoValue =>
                 /\ origin[q] \in Origin /\ origin[q].attempt \in Nat /\ origin[q].session \in Nat
                 /\ origin[q].attempt \in 1..MaxAttempts /\ origin[q].session \in 0..MaxSessions
                 /\ origin[q] = [attempt |-> origin[q].attempt, session |-> origin[q].session]
<1>1. MaxAttempts \in Nat /\ MaxSessions \in Nat
  BY Sentinels
<1>2. ASSUME NEW q \in Requests, origin[q] # NoValue PROVE origin[q] \in Origin
  BY <1>2 DEF TypeOK
<1>3. ASSUME NEW o \in Origin
      PROVE  /\ o.attempt \in 1..MaxAttempts /\ o.session \in 0..MaxSessions
             /\ o = [attempt |-> o.attempt, session |-> o.session]
  BY DEF Origin
<1> QED
  BY <1>1, <1>2, <1>3 DEF TypeOK

\* What Submit sends, and as what.
LEMMA Submitted ==
    ASSUME TypeOK, NEW r \in Requests, Submit(r)
    PROVE  /\ view = "app" /\ form # NoValue /\ awaiting = NoValue /\ sent[r] = NoValue
           /\ key' \in Keys /\ key' # NoValue /\ (key # NoValue => key' = key)
           /\ sent'[r] = Asks(form, key') /\ sent'[r] # NoValue
           /\ origin'[r] = [attempt |-> attempt, session |-> sessions] /\ origin'[r] # NoValue
           /\ \A q \in Requests \ {r} : sent'[q] = sent[q] /\ origin'[q] = origin[q]
           /\ awaiting' = r
           /\ UNCHANGED <<view, form, sessions, attempt, told, rows>>
<1>1. form \in Forms /\ key' \in Keys
  BY DEF Submit, TypeOK
<1>2. Asks(form, key') \in Input
  BY <1>1, AsksType
<1>3. [attempt |-> attempt, session |-> sessions] \in Origin
  BY DEF Origin, TypeOK
<1> QED
  BY <1>1, <1>2, <1>3, Sentinels DEF Submit, TypeOK, vars

LEMMA OriginsNext == IInv /\ [WebNext]_clientVars => Origins'
<1> SUFFICES ASSUME IInv, [WebNext]_clientVars, NEW q \in Requests, sent'[q] # NoValue
             PROVE  /\ origin'[q] # NoValue
                    /\ origin'[q].attempt <= attempt' /\ origin'[q].session <= sessions'
  BY DEF Origins
<1> TypeOK /\ Origins
  BY DEF IInv
<1>1. CASE sent' = sent /\ origin' = origin
  <2>1. attempt' \in {attempt, attempt + 1} /\ sessions' \in {sessions, sessions + 1}
    BY PageSteps, Submitted DEF Waits, Enters, Edits, Ends, Drops
  <2>2. /\ origin[q] # NoValue /\ origin[q].attempt <= attempt /\ origin[q].session <= sessions
    BY <1>1 DEF Origins
  <2>3. /\ attempt \in Nat /\ sessions \in Nat
        /\ origin[q].attempt \in Nat /\ origin[q].session \in Nat
    BY <2>2, Numbers
  <2> QED
    BY <1>1, <2>1, <2>2, <2>3
<1>2. ASSUME NEW r \in Requests, Submit(r)
      PROVE  /\ origin'[q] # NoValue
             /\ origin'[q].attempt <= attempt' /\ origin'[q].session <= sessions'
  BY <1>2, Submitted, Numbers DEF Origins
<1> QED
  BY <1>1, <1>2, PageSteps DEF Waits, Enters, Edits, Ends, Drops

LEMMA AwaitedNext == IInv /\ [WebNext]_clientVars => Awaited'
<1> SUFFICES ASSUME IInv, [WebNext]_clientVars PROVE Awaited'
  OBVIOUS
<1> TypeOK /\ Origins /\ Awaited
  BY DEF IInv
<1>0. /\ NoValue \notin Requests /\ attempt \in Nat /\ sessions \in Nat
      /\ \A q \in Requests : sent[q] # NoValue =>
            origin[q].attempt \in Nat /\ origin[q].attempt <= attempt
  BY Sentinels, Numbers DEF Origins
<1>1. CASE Waits
  BY <1>0, <1>1 DEF Waits, Awaited
<1>2. CASE Enters
  BY <1>0, <1>2 DEF Enters, Awaited
<1>3. CASE Edits
  <2>1. CASE form = NoValue
    BY <1>3, <2>1 DEF Edits, Awaited
  <2>2. CASE form # NoValue
    <3>1. \A q \in Requests : sent'[q] # NoValue => origin'[q].attempt # attempt'
      BY <1>0, <1>3, <2>2 DEF Edits
    <3> QED
      BY <1>3, <3>1 DEF Edits, Awaited
  <2> QED
    BY <2>1, <2>2
<1>4. CASE Ends \/ Drops
  BY <1>0, <1>4 DEF Ends, Drops, Awaited
<1>5. ASSUME NEW r \in Requests, Submit(r) PROVE Awaited'
  BY <1>0, <1>5, Submitted DEF Awaited
<1> QED
  BY <1>1, <1>2, <1>3, <1>4, <1>5, PageSteps

\* While a reply is awaited, whatever this attempt has sent is void or asks for
\* what the request awaited asks for.
LEMMA AwaitedAlike ==
    ASSUME IInv, NEW r \in Requests, awaiting = r, NEW q \in Requests, Current(q)
    PROVE  Void(q) \/ sent[q] = sent[r]
<1> TypeOK /\ Awaited /\ Alike
  BY DEF IInv
<1>1. view = "app"
  BY Sentinels DEF TypeOK, Awaited
<1>2. origin[q].attempt = attempt
  BY DEF Current
<1> QED
  BY <1>1, <1>2 DEF Awaited, Alike, Current

LEMMA AlikeNext == IInv /\ [WebNext]_clientVars => Alike'
<1> SUFFICES ASSUME IInv, [WebNext]_clientVars, view' = "app", NEW q \in Requests, Current(q)'
             PROVE  Void(q)' \/ (key' # NoValue /\ form' # NoValue /\ sent'[q] = Asks(form', key'))
  BY DEF Alike, Asks
<1> TypeOK /\ Origins /\ Awaited /\ Alike /\ Answers
  BY DEF IInv
<1>0. /\ attempt \in Nat /\ sessions \in Nat
      /\ sent[q] # NoValue => /\ origin[q].attempt <= attempt /\ origin[q].session <= sessions
                              /\ origin[q].attempt \in Nat /\ origin[q].session \in Nat
                              /\ sent'[q] = sent[q]
                              /\ Void(q) => Void(q)'
  BY Numbers, Lasting DEF Origins
<1>1. CASE Waits
  BY <1>0, <1>1 DEF Waits, Alike, Current
<1>2. CASE Enters \/ Ends
  BY <1>0, <1>2 DEF Enters, Ends, Current
<1>3. CASE Edits
  <2>1. form = NoValue /\ attempt' = attempt
    BY <1>0, <1>3 DEF Edits, Current
  <2> QED
    BY <1>0, <1>3, <2>1 DEF Edits, Alike, Current
<1>4. CASE Drops
  <2>1. PICK r \in Requests : awaiting = r /\ res[r] # NoValue /\ res[r].code = "IDEMPOTENCY_KEY_REUSED"
    BY <1>4 DEF Drops
  <2>2. Void(r) /\ Current(q)
    BY <1>4, <2>1 DEF Drops, Answers, Answered, Current
  <2>3. Void(q)
    BY <2>1, <2>2, AwaitedAlike DEF Void
  <2> QED
    BY <1>0, <2>2, <2>3 DEF Current
<1>5. ASSUME NEW r \in Requests, Submit(r)
      PROVE  Void(q)' \/ (key' # NoValue /\ form' # NoValue /\ sent'[q] = Asks(form', key'))
  <2>1. CASE q = r
    BY <1>5, <2>1, Submitted
  <2>2. CASE q # r
    <3>1. Current(q)
      BY <1>5, <2>2, Submitted DEF Current
    <3> QED
      BY <1>0, <1>5, <2>2, <3>1, Submitted DEF Alike, Current
  <2> QED
    BY <2>1, <2>2
<1> QED
  BY <1>1, <1>2, <1>3, <1>4, <1>5, PageSteps

LEMMA ResendsNext == IInv /\ [WebNext]_clientVars => Resends'
<1> SUFFICES ASSUME IInv, [WebNext]_clientVars, NEW p \in Requests, NEW q \in Requests,
                    sent'[p] # NoValue, sent'[q] # NoValue, origin'[p] = origin'[q]
             PROVE  sent'[p] = sent'[q] \/ Void(p)' \/ Void(q)'
  BY DEF Resends
<1> TypeOK /\ Alike /\ Resends
  BY DEF IInv
<1>1. CASE sent[p] # NoValue /\ sent[q] # NoValue
  BY <1>1, Lasting DEF Resends
\* One of the two has just been sent.
<1>2. ASSUME NEW r \in Requests, Submit(r), NEW other \in Requests \ {r}, sent'[other] # NoValue,
             origin'[other] = origin'[r]
      PROVE  sent'[other] = sent'[r] \/ Void(other)'
  <2>1. Current(other) /\ view = "app"
    BY <1>2, Submitted DEF Current
  <2>2. CASE Void(other)
    BY <2>1, <2>2, Lasting DEF Current
  <2>3. CASE key # NoValue /\ sent[other] = Asks(form, key)
    BY <1>2, <2>3, Submitted
  <2> QED
    BY <2>1, <2>2, <2>3 DEF Alike
<1>3. sent' = sent \/ \E r \in Requests : Submit(r)
  BY PageSteps DEF Waits, Enters, Edits, Ends, Drops
<1> QED
  BY <1>1, <1>2, <1>3, Submitted

LEMMA VerdictsNext == IInv /\ [WebNext]_clientVars => Verdicts'
<1> SUFFICES ASSUME IInv, [WebNext]_clientVars, NEW n \in 1..MaxAttempts, NEW s \in 0..MaxSessions,
                    told'[n] = [outcome |-> "declined", session |-> s]
             PROVE  /\ n < attempt'
                    /\ \A q \in Requests :
                          sent'[q] # NoValue /\ origin'[q] = [attempt |-> n, session |-> s] =>
                              Void(q)' \/ Failed(q)'
  BY DEF Verdicts
<1> TypeOK /\ Answers /\ Verdicts
  BY DEF IInv
<1>0. attempt \in Nat /\ n \in Nat
  BY Numbers, Sentinels
<1>1. attempt' \in {attempt, attempt + 1}
  BY PageSteps, Submitted DEF Waits, Enters, Edits, Ends, Drops
<1>2. CASE told'[n] = told[n]
  <2>1. n < attempt
    BY <1>2 DEF Verdicts
  <2>2. ASSUME NEW q \in Requests, sent'[q] # NoValue, origin'[q] = [attempt |-> n, session |-> s]
        PROVE  sent[q] # NoValue
    <3>1. ~Submit(q)
      <4> SUFFICES ASSUME Submit(q) PROVE FALSE
        OBVIOUS
      <4>1. origin'[q].attempt = attempt
        BY Submitted
      <4>2. origin'[q].attempt = n
        BY <2>2
      <4> QED
        BY <1>0, <2>1, <4>1, <4>2
    <3>2. sent' = sent \/ \E r \in Requests : Submit(r)
      BY PageSteps DEF Waits, Enters, Edits, Ends, Drops
    <3> QED
      BY <2>2, <3>1, <3>2, Submitted
  <2>3. n < attempt'
    BY <1>0, <1>1, <2>1
  <2> QED
    BY <1>2, <2>2, <2>3, Lasting DEF Verdicts
<1>3. CASE told'[n] # told[n]
  <2>1. /\ told' # told /\ Ends
    BY <1>3, PageSteps, Submitted DEF Waits, Enters, Edits, Drops
  <2>2. PICK outcome \in {"cleared", "declined"} :
            /\ told' = [told EXCEPT ![attempt] = [outcome |-> outcome, session |-> sessions]]
            /\ outcome = "declined" =>
                  \E r \in Requests : awaiting = r /\ res[r] # NoValue /\ res[r].code = "INSUFFICIENT_FUNDS"
    BY <2>1 DEF Ends
  <2>3. n = attempt /\ told'[n] = [outcome |-> outcome, session |-> sessions]
    <3>1. told \in [1..MaxAttempts -> Verdict \cup {NoValue}]
      BY DEF TypeOK
    <3>2. n = attempt
      BY <1>3, <2>2, <3>1
    <3> QED
      BY <2>2, <3>1, <3>2
  <2>4. outcome = "declined" /\ s = sessions
    <3>1. [outcome |-> outcome, session |-> sessions] = [outcome |-> "declined", session |-> s]
      BY <2>3
    <3> QED
      BY <3>1
  <2>5. PICK r \in Requests : awaiting = r /\ res[r] # NoValue /\ res[r].code = "INSUFFICIENT_FUNDS"
    BY <2>2, <2>4
  <2>6. Failed(r)
    BY <2>5 DEF Answers, Answered
  <2>7. ASSUME NEW q \in Requests, sent'[q] # NoValue, origin'[q] = [attempt |-> n, session |-> s]
        PROVE  Void(q)' \/ Failed(q)'
    <3>1. sent' = sent /\ origin' = origin
      BY <2>1 DEF Ends
    <3>2. Current(q)
      BY <2>3, <2>4, <2>7, <3>1 DEF Current
    <3>3. Void(q) \/ Failed(q)
      BY <2>6, <2>5, <3>2, AwaitedAlike DEF Failed
    <3> QED
      BY <3>2, <3>3, Lasting DEF Current
  <2>8. n < attempt'
    BY <1>0, <2>1, <2>3 DEF Ends
  <2> QED
    BY <2>7, <2>8
<1> QED
  BY <1>2, <1>3

-----------------------------------------------------------------------------
LEMMA InvInit == WebInit => IInv
<1> SUFFICES ASSUME WebInit PROVE IInv
  OBVIOUS
<1>1. TypeOK
  BY TypeInit
<1>2. Records /\ Answers
  BY DEF WebInit, Init, Records, Answers, Answered
<1>3. Origins /\ Awaited /\ Alike /\ Resends
  BY Sentinels DEF WebInit, Origins, Awaited, Alike, Current, Resends
<1>4. Verdicts
  <2>1. ASSUME NEW s \in 0..MaxSessions PROVE [outcome |-> "declined", session |-> s] # NoValue
    <3>1. [outcome |-> "declined", session |-> s] \in Verdict
      BY DEF Verdict
    <3> QED
      BY <3>1, Sentinels
  <2> QED
    BY <2>1 DEF WebInit, Verdicts
<1> QED
  BY <1>1, <1>2, <1>3, <1>4 DEF IInv

LEMMA InvNext == IInv /\ [WebNext]_clientVars => IInv'
BY TypeNext, RecordsNext, AnswersNext, OriginsNext, AwaitedNext, AlikeNext, ResendsNext, VerdictsNext
   DEF IInv

\* IInv is kept by every step of the user, the page, the network and the server.
THEOREM Invariance == WebSpec => []IInv
BY InvInit, InvNext, PTL DEF WebSpec

\* Every variable of the page keeps its type.
THEOREM TypeCorrect == WebSpec => []TypeOK
<1>1. IInv => TypeOK
  BY DEF IInv
<1> QED
  BY <1>1, Invariance, PTL

\* A row of the request that asked for it rules out that the key was taken.
LEMMA ChargedFacts ==
    ASSUME IInv, NEW row \in Charged
    PROVE  /\ row \in rows /\ row.id \in Requests /\ sent[row.id] # NoValue
           /\ UnderKeyOf(row, sent[row.id])
           /\ ~Void(row.id) /\ ~Failed(row.id)
<1> Records /\ Answers
  BY DEF IInv
<1>1. /\ row \in rows /\ row.status = "completed" /\ row.id \in Requests
      /\ req[row.id] # NoValue /\ row = RowOf(row.id, req[row.id], row.status)
  BY DEF Charged, Records
<1>2. sent[row.id] # NoValue /\ sent[row.id] = req[row.id]
  BY <1>1 DEF Answers, Answered
<1>3. UnderKeyOf(row, sent[row.id]) /\ ParamsMatch(row, sent[row.id])
  BY <1>1, <1>2 DEF RowOf, UnderKeyOf, ParamsMatch
<1>4. \A other \in rows : UnderKeyOf(other, sent[row.id]) => other = row
  BY <1>1, <1>3 DEF Records, UnderKeyOf
<1> QED
  BY <1>1, <1>2, <1>3, <1>4 DEF Void, Failed

\* app.js:124-126: an attempt moves money at most once for as long as the user
\* need not sign in again.
THEOREM ChargedOnce == WebSpec => []ChargedOncePerSignIn
<1>1. IInv => ChargedOncePerSignIn
  <2> SUFFICES ASSUME IInv, NEW x \in Charged, NEW y \in Charged, origin[x.id] = origin[y.id]
               PROVE  x = y
    BY DEF ChargedOncePerSignIn
  <2>1. sent[x.id] = sent[y.id]
    BY ChargedFacts DEF IInv, Resends
  <2>2. UnderKeyOf(x, y)
    BY <2>1, ChargedFacts DEF UnderKeyOf
  <2> QED
    BY <2>2, ChargedFacts DEF IInv, Records
<1> QED
  BY <1>1, Invariance, PTL

\* No request of an attempt the page called declined moves money in that sign-in.
THEOREM DeclinedForGood == WebSpec => []DeclinedMeansNotCharged
<1>1. IInv => DeclinedMeansNotCharged
  <2> SUFFICES ASSUME IInv, NEW row \in Charged,
                      told[origin[row.id].attempt] =
                          [outcome |-> "declined", session |-> origin[row.id].session]
               PROVE  FALSE
    BY DEF DeclinedMeansNotCharged
  <2>1. row.id \in Requests /\ sent[row.id] # NoValue /\ ~Void(row.id) /\ ~Failed(row.id)
    BY ChargedFacts
  <2>2. origin[row.id] # NoValue
    BY <2>1 DEF IInv, Origins
  <2>3. /\ origin[row.id].attempt \in 1..MaxAttempts /\ origin[row.id].session \in 0..MaxSessions
        /\ origin[row.id] = [attempt |-> origin[row.id].attempt, session |-> origin[row.id].session]
    BY <2>1, <2>2, Numbers DEF IInv
  <2> QED
    BY <2>1, <2>3 DEF IInv, Verdicts
<1> QED
  BY <1>1, Invariance, PTL
=============================================================================

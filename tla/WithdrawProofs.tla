-------------------------- MODULE WithdrawProofs --------------------------
(***************************************************************************)
(* Withdraw keeps its inductive invariant, and implements Ledger, for any  *)
(* number of requests, accounts, keys and amounts and any pool size.       *)
(***************************************************************************)
EXTENDS Withdraw, FiniteSetTheorems, TLAPS

LEMMA RowOfType ==
    ASSUME NEW r \in Requests, NEW i \in Input, NEW s \in Statuses
    PROVE  RowOf(r, i, s) \in Row
BY DEF RowOf, Row, Input

LEMMA SendWithdrawalType ==
    ASSUME NEW row \in Row, NEW b \in BOOLEAN
    PROVE  SendWithdrawal(row, b) \in Answer
BY DEF SendWithdrawal, Answer

LEMMA RefusalType ==
    ASSUME NEW c \in Refusals
    PROVE  Refusal(c) \in Answer
BY DEF Refusal, Answer

LEMMA AbandonedType ==
    ASSUME NEW p \in Places
    PROVE  Abandoned(p) \in Places
BY DEF Abandoned, Places, Connected, InTransaction, Orphaned

LEMMA RefusalCodes ==
    /\ "ACCOUNT_NOT_FOUND" \in Refusals
    /\ "IDEMPOTENCY_KEY_REUSED" \in Refusals
    /\ "IDEMPOTENCY_CONFLICT" \in Refusals
    /\ "INTERNAL_ERROR" \in Refusals
BY DEF Refusals

LEMMA PlaceNames ==
    /\ "idle" \in Places /\ "connect" \in Places /\ "done" \in Places
    /\ "lookup" \in Places /\ "claim" \in Places /\ "debit" \in Places
    /\ "lockwait" \in Places /\ "settle" \in Places /\ "commit" \in Places
    /\ "ack" \in Places /\ "unwind" \in Places /\ "replay" \in Places
    /\ "rollback" \in Places /\ "orphan" \in Places /\ "orphan_commit" \in Places
BY DEF Places, Connected, InTransaction, Orphaned

-----------------------------------------------------------------------------
(* What a request at a given place is known to have.                       *)

LEMMA AmountsPositive == \A m \in Amounts : m \in Nat /\ m > 0
BY DataAssumption DEF DataAssumption

LEMMA OpeningsNatural == \A b \in Openings : b \in Nat
BY DataAssumption DEF DataAssumption

LEMMA DebitType ==
    ASSUME TypeOK, NEW r \in Requests
    PROVE  debit[r] \in Nat
<1>1. debit[r] \in Amounts \cup {0}
  BY DEF TypeOK
<1> QED
  BY <1>1, AmountsPositive

LEMMA Asked ==
    ASSUME TypeOK, Stages, NEW r \in Requests, pc[r] # "idle"
    PROVE  /\ req[r] \in Input
           /\ req[r].account \in Accounts /\ req[r].key \in Keys
           /\ req[r].amount \in Amounts /\ req[r].dest \in Dests
           /\ req[r].amount \in Nat /\ req[r].amount > 0
<1>1. req[r] \in Input \cup {NoValue}
  BY DEF TypeOK
<1>2. req[r] # NoValue
  BY DEF Stages
<1>3. req[r] \in Input
  BY <1>1, <1>2
<1>4. req[r].amount \in Amounts
  BY <1>3 DEF Input
<1> QED
  BY <1>3, <1>4, AmountsPositive DEF Input

LEMMA Drafted ==
    ASSUME TypeOK, Claims, NEW r \in Requests,
           pc[r] \in {"debit", "lockwait", "settle", "commit", "orphan_commit"}
    PROVE  draft[r] \in Row /\ draft[r] # NoValue
BY DEF TypeOK, Claims

LEMMA SettledType ==
    ASSUME NEW r \in Requests, draft[r] \in Row
    PROVE  /\ Settled(r) \in Row
           /\ Settled(r).status \in {"completed", "failed"}
           /\ draft[r] = RowOf(r, req[r], draft[r].status) =>
                 Settled(r) = RowOf(r, req[r], Settled(r).status)
BY DEF Settled, Row, Statuses, RowOf

-----------------------------------------------------------------------------
LEMMA TypeInit == Init => TypeOK
BY DEF Init, TypeOK, Places

LEMMA TypeNext == IInv /\ [Next]_vars => TypeOK'
<1> SUFFICES ASSUME IInv, [Next]_vars PROVE TypeOK'
  OBVIOUS
<1> TypeOK /\ Stages /\ Claims
  BY DEF IInv
<1> USE PlaceNames, RefusalCodes DEF TypeOK, Tables, Session, Goto, Decide, Hold, EndSession
<1>1. ASSUME NEW a \in Accounts, NEW b \in Openings, CreateAccount(a, b) PROVE TypeOK'
  BY <1>1, OpeningsNatural DEF CreateAccount
<1>2. ASSUME NEW r \in Requests, NEW i \in Input, Receive(r, i) PROVE TypeOK'
  BY <1>2 DEF Receive
<1>3. ASSUME NEW r \in Requests, Connect(r) PROVE TypeOK'
  BY <1>3 DEF Connect
<1>4. ASSUME NEW r \in Requests, Lookup(r) PROVE TypeOK'
  BY <1>4, RefusalType DEF Lookup
<1>5. ASSUME NEW r \in Requests, ClaimKey(r) PROVE TypeOK'
  <2>1. RowOf(r, req[r], "pending") \in Row
    BY <1>5, Asked, RowOfType DEF ClaimKey, At, Statuses
  <2> QED
    BY <1>5, <2>1 DEF ClaimKey
<1>6. ASSUME NEW r \in Requests, Unwind(r) PROVE TypeOK'
  BY <1>6 DEF Unwind
<1>7. ASSUME NEW r \in Requests, Replay(r) PROVE TypeOK'
  <2>1. \A row \in Stored(r) : SendWithdrawal(row, TRUE) \in Answer
    BY SendWithdrawalType DEF Stored
  <2>2. Refusal("IDEMPOTENCY_KEY_REUSED") \in Answer /\ Refusal("IDEMPOTENCY_CONFLICT") \in Answer
    BY RefusalType
  <2>3. PICK answer \in Answer, place \in {"done", "rollback"} : Decide(r, answer) /\ Goto(r, place)
    BY <1>7, <2>1, <2>2 DEF Replay
  <2> QED
    BY <1>7, <2>3 DEF Replay
<1>8. ASSUME NEW r \in Requests, Debit(r) PROVE TypeOK'
  BY <1>8, Asked DEF Debit, At
<1>9. ASSUME NEW r \in Requests, Recheck(r) PROVE TypeOK'
  BY <1>9, Asked DEF Recheck, At
<1>10. ASSUME NEW r \in Requests, Settle(r) PROVE TypeOK'
  <2>1. draft[r] \in Row /\ Settled(r) \in Row
    BY <1>10, Drafted, SettledType DEF Settle, At
  <2> QED
    BY <1>10, <2>1 DEF Settle
<1>11. ASSUME NEW r \in Requests, Commit(r) PROVE TypeOK'
  <2>1. draft[r] \in Row /\ req[r].account \in Accounts /\ debit[r] \in Int
    BY <1>11, Drafted, Asked, DebitType DEF Commit, At
  <2> QED
    BY <1>11, <2>1 DEF Commit, Publish
<1>12. ASSUME NEW r \in Requests, Return(r) PROVE TypeOK'
  <2>1. transaction[r] \in Row
    BY <1>12 DEF Return, At, Stages
  <2>2. SendWithdrawal(transaction[r], FALSE) \in Answer
    BY <2>1, SendWithdrawalType
  <2> QED
    BY <1>12, <2>2 DEF Return
<1>13. ASSUME NEW r \in Requests, Rollback(r) PROVE TypeOK'
  BY <1>13 DEF Rollback
<1>14. ASSUME NEW r \in Requests, StatementFails(r) PROVE TypeOK'
  BY <1>14, RefusalType DEF StatementFails
<1>15. ASSUME NEW r \in Requests, ConnectionLost(r) PROVE TypeOK'
  BY <1>15, RefusalType, AbandonedType DEF ConnectionLost
<1>16. ASSUME Crash PROVE TypeOK'
  <2>1. PICK delivered \in SUBSET {r \in Requests : pc[r] = "commit"} :
            pc' = [r \in Requests |-> IF r \in delivered THEN "orphan_commit" ELSE Abandoned(pc[r])]
    BY <1>16 DEF Crash
  <2>2. pc' \in [Requests -> Places]
    BY <2>1, AbandonedType
  <2> QED
    BY <1>16, <2>2 DEF Crash
<1>17. ASSUME NEW r \in Requests, EndOrphan(r) PROVE TypeOK'
  <2>1. CASE At(r, "orphan")
    BY <1>17, <2>1 DEF EndOrphan, At
  <2>2. CASE At(r, "orphan_commit")
    <3>1. draft[r] \in Row /\ req[r].account \in Accounts /\ debit[r] \in Int
      BY <2>2, Drafted, Asked, DebitType DEF At
    <3>2. rows' \subseteq Row /\ balance' \in [Accounts -> Int]
      BY <1>17, <2>2, <3>1 DEF EndOrphan, Publish, At
    <3>3. /\ EndSession(r) /\ Goto(r, "done")
          /\ UNCHANGED <<accounts, opening, req, res, transaction>>
      BY <1>17 DEF EndOrphan
    <3> QED
      BY <3>2, <3>3
  <2> QED
    BY <1>17, <2>1, <2>2 DEF EndOrphan
<1>18. CASE UNCHANGED vars
  BY <1>18 DEF vars
<1> QED
  BY <1>1, <1>2, <1>3, <1>4, <1>5, <1>6, <1>7, <1>8, <1>9, <1>10, <1>11, <1>12,
     <1>13, <1>14, <1>15, <1>16, <1>17,
     <1>18 DEF Next, Serve

-----------------------------------------------------------------------------
(* The committed tables: only CreateAccount and the two commits touch them. *)

\* r's transaction commits.
Commits(r) ==
    /\ pc[r] \in {"commit", "orphan_commit"}
    /\ Publish(r)
    /\ EndSession(r)
    /\ UNCHANGED <<accounts, opening, req, res, transaction>>

LEMMA TablesChange ==
    ASSUME [Next]_vars
    PROVE  \/ UNCHANGED Tables
           \/ \E a \in Accounts, b \in Openings : CreateAccount(a, b)
           \/ \E r \in Requests : Commits(r)
<1> USE DEF Tables
<1>1. ASSUME NEW r \in Requests, Serve(r) PROVE UNCHANGED Tables \/ Commits(r)
  BY <1>1 DEF Serve, Connect, Lookup, ClaimKey, Unwind, Replay, Debit, Recheck, Settle,
              Commit, Return, Rollback, EndOrphan, Commits, At
<1>2. ASSUME NEW r \in Requests, StatementFails(r) \/ ConnectionLost(r) PROVE UNCHANGED Tables
  BY <1>2 DEF StatementFails, ConnectionLost
<1>3. ASSUME NEW r \in Requests, NEW i \in Input, Receive(r, i) PROVE UNCHANGED Tables
  BY <1>3 DEF Receive
<1>4. ASSUME Crash PROVE UNCHANGED Tables
  BY <1>4 DEF Crash
<1>5. CASE UNCHANGED vars
  BY <1>5 DEF vars
<1> QED
  BY <1>1, <1>2, <1>3, <1>4, <1>5 DEF Next

\* What a committing transaction has in hand.
LEMMA CommitFacts ==
    ASSUME IInv, NEW r \in Requests, Commits(r)
    PROVE  /\ draft[r] \in Row
           /\ draft[r].id = r
           /\ draft[r].account = req[r].account
           /\ draft[r].key = req[r].key
           /\ draft[r].status \in {"completed", "failed"}
           /\ rows' = rows \cup {draft[r]}
           /\ Stored(r) = {}
           /\ balance' = [balance EXCEPT ![req[r].account] = @ - debit[r]]
<1> TypeOK /\ Claims /\ Settlements /\ Stages
  BY DEF IInv
<1>1. draft[r] \in Row /\ draft[r] # NoValue
  BY Drafted DEF Commits
<1>2. draft[r] = RowOf(r, req[r], draft[r].status) /\ Stored(r) = {}
  BY <1>1 DEF Claims
<1>3. draft[r] = Settled(r)
  BY DEF Commits, Settlements
<1>4. draft[r].status \in {"completed", "failed"}
  BY <1>1, <1>3, SettledType
<1>5. draft[r].id = r /\ draft[r].account = req[r].account /\ draft[r].key = req[r].key
  BY <1>2 DEF RowOf
<1> QED
  BY <1>1, <1>2, <1>4, <1>5 DEF Commits, Publish

LEMMA SettledRowsNext == IInv /\ [Next]_vars => SettledRowsOnly'
<1> SUFFICES ASSUME IInv, [Next]_vars PROVE SettledRowsOnly'
  OBVIOUS
<1> USE DEF SettledRowsOnly
<1> SettledRowsOnly
  BY DEF IInv
<1>1. CASE UNCHANGED Tables
  BY <1>1 DEF Tables
<1>2. ASSUME NEW a \in Accounts, NEW b \in Openings, CreateAccount(a, b) PROVE SettledRowsOnly'
  BY <1>2 DEF CreateAccount
<1>3. ASSUME NEW r \in Requests, Commits(r) PROVE SettledRowsOnly'
  BY <1>3, CommitFacts
<1> QED
  BY <1>1, <1>2, <1>3, TablesChange

LEMMA OneRowNext == IInv /\ [Next]_vars => OneRowPerKey'
<1> SUFFICES ASSUME IInv, [Next]_vars PROVE OneRowPerKey'
  OBVIOUS
<1> USE DEF OneRowPerKey, UnderKeyOf
<1> OneRowPerKey
  BY DEF IInv
<1>1. CASE UNCHANGED Tables
  BY <1>1 DEF Tables
<1>2. ASSUME NEW a \in Accounts, NEW b \in Openings, CreateAccount(a, b) PROVE OneRowPerKey'
  BY <1>2 DEF CreateAccount
<1>3. ASSUME NEW r \in Requests, Commits(r) PROVE OneRowPerKey'
  <2>1. \A row \in rows : ~UnderKeyOf(row, draft[r]) /\ ~UnderKeyOf(draft[r], row)
    BY <1>3, CommitFacts DEF Stored
  <2> QED
    BY <1>3, <2>1, CommitFacts
<1> QED
  BY <1>1, <1>2, <1>3, TablesChange

LEMMA NoOverdraftNext == IInv /\ [Next]_vars => NoOverdraft'
<1> SUFFICES ASSUME IInv, [Next]_vars PROVE NoOverdraft'
  OBVIOUS
<1> USE DEF NoOverdraft
<1> NoOverdraft /\ TypeOK /\ Debits /\ Stages /\ Claims
  BY DEF IInv
<1>0. balance \in [Accounts -> Int]
  BY DEF TypeOK
<1>1. CASE UNCHANGED Tables
  BY <1>1 DEF Tables
<1>2. ASSUME NEW a \in Accounts, NEW b \in Openings, CreateAccount(a, b) PROVE NoOverdraft'
  BY <1>0, <1>2, OpeningsNatural DEF CreateAccount
<1>3. ASSUME NEW r \in Requests, Commits(r) PROVE NoOverdraft'
  <2>1. req[r].account \in Accounts /\ debit[r] \in Nat /\ req[r].amount \in Nat
    BY <1>3, Asked, DebitType DEF Commits
  <2>2. balance[req[r].account] - debit[r] >= 0
    <3>1. CASE debit[r] > 0
      BY <1>0, <2>1, <3>1 DEF Debits, Funded
    <3>2. CASE debit[r] = 0
      BY <1>0, <2>1, <3>2
    <3> QED
      BY <2>1, <3>1, <3>2
  <2> QED
    BY <1>0, <1>3, <2>1, <2>2, CommitFacts
<1> QED
  BY <1>1, <1>2, <1>3, TablesChange

-----------------------------------------------------------------------------
LEMMA RowsGrow == IInv /\ [Next]_vars => rows \subseteq rows'
<1> SUFFICES ASSUME IInv, [Next]_vars PROVE rows \subseteq rows'
  OBVIOUS
<1> QED
  BY TablesChange, CommitFacts DEF Tables, CreateAccount

\* Where r may go, and that nobody else moves with it; Crash moves everybody.
LEMMA StagesNext == IInv /\ [Next]_vars => Stages'
<1> SUFFICES ASSUME IInv, [Next]_vars PROVE Stages'
  OBVIOUS
<1> TypeOK /\ Stages /\ Claims
  BY DEF IInv
<1>0. /\ pc \in [Requests -> Places] /\ req \in [Requests -> Input \cup {NoValue}]
      /\ res \in [Requests -> Answer \cup {NoValue}]
      /\ transaction \in [Requests -> Row \cup {NoValue}]
      /\ draft \in [Requests -> Row \cup {NoValue}]
      /\ rows \subseteq rows' /\ NoValue \notin Input
  BY RowsGrow, DataAssumption DEF TypeOK, DataAssumption
<1> USE <1>0 DEF Stages, Stored, Connected, InTransaction, Tables, Session, Goto, Decide, Hold,
                 EndSession, At
<1>1. ASSUME NEW a \in Accounts, NEW b \in Openings, CreateAccount(a, b) PROVE Stages'
  BY <1>1 DEF CreateAccount
<1>2. ASSUME NEW r \in Requests, NEW i \in Input, Receive(r, i) PROVE Stages'
  BY <1>2 DEF Receive
<1>3. ASSUME NEW r \in Requests, Connect(r) PROVE Stages'
  BY <1>3 DEF Connect
<1>4. ASSUME NEW r \in Requests, Lookup(r) PROVE Stages'
  BY <1>4 DEF Lookup
<1>5. ASSUME NEW r \in Requests, ClaimKey(r) PROVE Stages'
  BY <1>5 DEF ClaimKey
<1>6. ASSUME NEW r \in Requests, Unwind(r) PROVE Stages'
  BY <1>6 DEF Unwind
<1>7. ASSUME NEW r \in Requests, Replay(r) PROVE Stages'
  BY <1>7 DEF Replay
<1>8. ASSUME NEW r \in Requests, Debit(r) PROVE Stages'
  BY <1>8 DEF Debit
<1>9. ASSUME NEW r \in Requests, Recheck(r) PROVE Stages'
  BY <1>9 DEF Recheck
<1>10. ASSUME NEW r \in Requests, Settle(r) PROVE Stages'
  BY <1>10 DEF Settle
<1>11. ASSUME NEW r \in Requests, Commit(r) PROVE Stages'
  BY <1>11 DEF Commit, Publish, Claims
<1>12. ASSUME NEW r \in Requests, Return(r) PROVE Stages'
  BY <1>12 DEF Return
<1>13. ASSUME NEW r \in Requests, Rollback(r) PROVE Stages'
  BY <1>13 DEF Rollback
<1>14. ASSUME NEW r \in Requests, StatementFails(r) PROVE Stages'
  BY <1>14 DEF StatementFails
<1>15. ASSUME NEW r \in Requests, ConnectionLost(r) PROVE Stages'
  BY <1>15 DEF ConnectionLost, Abandoned
<1>16. ASSUME Crash PROVE Stages'
  BY <1>16 DEF Crash, Abandoned
<1>17. ASSUME NEW r \in Requests, EndOrphan(r) PROVE Stages'
  BY <1>17 DEF EndOrphan
<1>18. CASE UNCHANGED vars
  BY <1>18 DEF vars
<1> QED
  BY <1>1, <1>2, <1>3, <1>4, <1>5, <1>6, <1>7, <1>8, <1>9, <1>10, <1>11, <1>12,
     <1>13, <1>14, <1>15, <1>16, <1>17,
     <1>18 DEF Next, Serve

LEMMA CommittedNext == IInv /\ [Next]_vars => Committed'
<1> SUFFICES ASSUME IInv, [Next]_vars PROVE Committed'
  OBVIOUS
<1> TypeOK /\ Committed
  BY DEF IInv
<1>0. pc \in [Requests -> Places] /\ rows \subseteq Row /\ \A row \in rows : row.id \in Requests
  BY DEF TypeOK, Row
<1> USE <1>0 DEF Committed, Goto, At
<1>1. ASSUME NEW r \in Requests, Commits(r), Commit(r) \/ EndOrphan(r) PROVE Committed'
  BY <1>1, CommitFacts DEF Commit, EndOrphan
<1>2. ASSUME NEW r \in Requests, Serve(r), UNCHANGED Tables PROVE Committed'
  BY <1>2 DEF Serve, Connect, Lookup, ClaimKey, Unwind, Replay, Debit, Recheck, Settle,
              Commit, Return, Rollback, EndOrphan, Tables
<1>3. ASSUME NEW r \in Requests, StatementFails(r) \/ ConnectionLost(r) PROVE Committed'
  BY <1>3 DEF StatementFails, ConnectionLost, Abandoned, Tables, Connected
<1>4. ASSUME NEW r \in Requests, NEW i \in Input, Receive(r, i) PROVE Committed'
  BY <1>4 DEF Receive, Tables
<1>5. ASSUME Crash PROVE Committed'
  BY <1>5 DEF Crash, Abandoned, Tables, Connected
<1>6. ASSUME NEW a \in Accounts, NEW b \in Openings, CreateAccount(a, b) PROVE Committed'
  BY <1>6 DEF CreateAccount
<1>7. CASE UNCHANGED vars
  BY <1>7 DEF vars
<1>8. ASSUME NEW r \in Requests, Serve(r)
      PROVE  UNCHANGED Tables \/ (Commits(r) /\ (Commit(r) \/ EndOrphan(r)))
  BY <1>8 DEF Serve, Connect, Lookup, ClaimKey, Unwind, Replay, Debit, Recheck, Settle,
              Commit, Return, Rollback, EndOrphan, Commits, Tables
<1> QED
  BY <1>1, <1>2, <1>3, <1>4, <1>5, <1>6, <1>7, <1>8 DEF Next

LEMMA ClaimsNext == IInv /\ [Next]_vars => Claims'
<1> SUFFICES ASSUME IInv, [Next]_vars PROVE Claims'
  OBVIOUS
<1> TypeOK /\ Stages /\ Claims /\ Debits
  BY DEF IInv
<1>0. /\ pc \in [Requests -> Places] /\ req \in [Requests -> Input \cup {NoValue}]
      /\ draft \in [Requests -> Row \cup {NoValue}]
      /\ NoValue \notin Row
  BY DataAssumption DEF TypeOK, DataAssumption
<1> USE <1>0 DEF Claims, Stored, UnderKeyOf, KeyClaimed, Orphaned, Tables, Session,
    Goto, Decide, EndSession, At
<1>1. ASSUME NEW a \in Accounts, NEW b \in Openings, CreateAccount(a, b) PROVE Claims'
  BY <1>1 DEF CreateAccount
<1>2. ASSUME NEW r \in Requests, NEW i \in Input, Receive(r, i) PROVE Claims'
  BY <1>2 DEF Receive, Stages
<1>3. ASSUME NEW r \in Requests, Connect(r) PROVE Claims'
  BY <1>3 DEF Connect
<1>4. ASSUME NEW r \in Requests, Lookup(r) PROVE Claims'
  BY <1>4 DEF Lookup
<1>5. ASSUME NEW r \in Requests, ClaimKey(r) PROVE Claims'
  <2>1. RowOf(r, req[r], "pending") \in Row
    BY <1>5, Asked, RowOfType DEF ClaimKey, Statuses
  <2>2. /\ draft'[r] = draft[r] \/ draft'[r] = RowOf(r, req[r], "pending")
        /\ \A q \in Requests \ {r} : draft'[q] = draft[q] /\ pc'[q] = pc[q]
        /\ rows' = rows /\ accounts' = accounts /\ req' = req
    BY <1>5 DEF ClaimKey
  <2>3. CASE Stored(r) # {}
    BY <1>5, <2>3 DEF ClaimKey
  <2>4. CASE Stored(r) = {}
    <3>1. draft'[r] = RowOf(r, req[r], "pending") /\ draft'[r] # NoValue /\ pc'[r] = "debit"
      BY <1>5, <2>1, <2>4 DEF ClaimKey
    <3>2. ASSUME NEW q \in Requests \ {r}, draft[q] # NoValue
          PROVE  ~UnderKeyOf(draft[q], req[r]) /\ ~UnderKeyOf(draft'[r], req[q])
      BY <1>5, <3>1, <3>2 DEF ClaimKey, RowOf
    <3> QED
      BY <1>5, <2>2, <2>4, <3>1, <3>2 DEF ClaimKey, RowOf
  <2> QED
    BY <2>3, <2>4
<1>6. ASSUME NEW r \in Requests, Unwind(r) PROVE Claims'
  BY <1>6 DEF Unwind
<1>7. ASSUME NEW r \in Requests, Replay(r) PROVE Claims'
  BY <1>7 DEF Replay
<1>8. ASSUME NEW r \in Requests, Debit(r) PROVE Claims'
  BY <1>8 DEF Debit
<1>9. ASSUME NEW r \in Requests, Recheck(r) PROVE Claims'
  BY <1>9 DEF Recheck
<1>10. ASSUME NEW r \in Requests, Settle(r) PROVE Claims'
  <2>1. draft[r] \in Row /\ Settled(r) \in Row /\ draft[r] # NoValue
    BY <1>10, Drafted, SettledType DEF Settle
  <2>2. /\ Settled(r) = RowOf(r, req[r], Settled(r).status)
        /\ Settled(r).account = draft[r].account /\ Settled(r).key = draft[r].key
    BY <2>1, SettledType DEF Settled, Row
  <2>3. /\ draft'[r] = Settled(r) /\ Settled(r) # NoValue /\ pc'[r] = "commit"
        /\ \A q \in Requests \ {r} : draft'[q] = draft[q] /\ pc'[q] = pc[q]
        /\ rows' = rows /\ accounts' = accounts /\ req' = req
    BY <1>10, <2>1 DEF Settle
  <2> QED
    BY <1>10, <2>1, <2>2, <2>3
<1>11. ASSUME NEW r \in Requests, Commit(r) PROVE Claims'
  BY <1>11 DEF Commit, Publish, RowOf
<1>12. ASSUME NEW r \in Requests, Return(r) PROVE Claims'
  BY <1>12 DEF Return
<1>13. ASSUME NEW r \in Requests, Rollback(r) PROVE Claims'
  BY <1>13 DEF Rollback
<1>14. ASSUME NEW r \in Requests, StatementFails(r) PROVE Claims'
  BY <1>14 DEF StatementFails
<1>15. ASSUME NEW r \in Requests, ConnectionLost(r) PROVE Claims'
  BY <1>15 DEF ConnectionLost, Abandoned, Connected, InTransaction
<1>16. ASSUME Crash PROVE Claims'
  BY <1>16 DEF Crash, Abandoned, Connected, InTransaction
<1>17. ASSUME NEW r \in Requests, EndOrphan(r) PROVE Claims'
  BY <1>17 DEF EndOrphan, Publish, RowOf
<1>18. CASE UNCHANGED vars
  BY <1>18 DEF vars
<1> QED
  BY <1>1, <1>2, <1>3, <1>4, <1>5, <1>6, <1>7, <1>8, <1>9, <1>10, <1>11, <1>12, <1>13, <1>14, <1>15, <1>16, <1>17,
     <1>18 DEF Next, Serve


LEMMA SettlementsNext == IInv /\ [Next]_vars => Settlements'
<1> SUFFICES ASSUME IInv, [Next]_vars PROVE Settlements'
  OBVIOUS
<1> TypeOK /\ Claims /\ Settlements
  BY DEF IInv
<1>0. /\ pc \in [Requests -> Places]
      /\ draft \in [Requests -> Row \cup {NoValue}]
      /\ debit \in [Requests -> Amounts \cup {0}]
  BY DEF TypeOK
<1> USE <1>0 DEF Settlements, Settled, Tables, Session, Goto, Decide, EndSession, At
<1>1. ASSUME NEW a \in Accounts, NEW b \in Openings, CreateAccount(a, b) PROVE Settlements'
  BY <1>1 DEF CreateAccount
<1>2. ASSUME NEW r \in Requests, NEW i \in Input, Receive(r, i) PROVE Settlements'
  BY <1>2 DEF Receive
<1>3. ASSUME NEW r \in Requests, Connect(r) PROVE Settlements'
  BY <1>3 DEF Connect
<1>4. ASSUME NEW r \in Requests, Lookup(r) PROVE Settlements'
  BY <1>4 DEF Lookup
<1>5. ASSUME NEW r \in Requests, ClaimKey(r) PROVE Settlements'
  BY <1>5 DEF ClaimKey
<1>6. ASSUME NEW r \in Requests, Unwind(r) PROVE Settlements'
  BY <1>6 DEF Unwind
<1>7. ASSUME NEW r \in Requests, Replay(r) PROVE Settlements'
  BY <1>7 DEF Replay
<1>8. ASSUME NEW r \in Requests, Debit(r) PROVE Settlements'
  BY <1>8 DEF Debit
<1>9. ASSUME NEW r \in Requests, Recheck(r) PROVE Settlements'
  BY <1>9 DEF Recheck
<1>10. ASSUME NEW r \in Requests, Settle(r) PROVE Settlements'
  BY <1>10, Drafted DEF Settle, Row
<1>11. ASSUME NEW r \in Requests, Commit(r) PROVE Settlements'
  BY <1>11 DEF Commit
<1>12. ASSUME NEW r \in Requests, Return(r) PROVE Settlements'
  BY <1>12 DEF Return
<1>13. ASSUME NEW r \in Requests, Rollback(r) PROVE Settlements'
  BY <1>13 DEF Rollback
<1>14. ASSUME NEW r \in Requests, StatementFails(r) PROVE Settlements'
  BY <1>14 DEF StatementFails
<1>15. ASSUME NEW r \in Requests, ConnectionLost(r) PROVE Settlements'
  BY <1>15 DEF ConnectionLost, Abandoned, Connected, InTransaction
<1>16. ASSUME Crash PROVE Settlements'
  BY <1>16 DEF Crash, Abandoned, Connected, InTransaction
<1>17. ASSUME NEW r \in Requests, EndOrphan(r) PROVE Settlements'
  BY <1>17 DEF EndOrphan
<1>18. CASE UNCHANGED vars
  BY <1>18 DEF vars
<1> QED
  BY <1>1, <1>2, <1>3, <1>4, <1>5, <1>6, <1>7, <1>8, <1>9,
     <1>10, <1>11, <1>12, <1>13, <1>14, <1>15, <1>16, <1>17,
     <1>18 DEF Next, Serve

\* What the steps may rely on about the balances and the debits.
LEMMA Numbers ==
    ASSUME IInv
    PROVE  /\ balance \in [Accounts -> Int]
           /\ debit \in [Requests -> Nat]
           /\ \A r \in Requests : pc[r] # "idle" =>
                 req[r].amount \in Nat /\ req[r].amount > 0 /\ req[r].account \in Accounts
<1> TypeOK /\ Stages
  BY DEF IInv
<1>1. balance \in [Accounts -> Int] /\ debit \in [Requests -> Amounts \cup {0}]
  BY DEF TypeOK
<1>2. debit \in [Requests -> Nat]
  BY <1>1, AmountsPositive
<1> QED
  BY <1>1, <1>2, Asked

LEMMA ShortfallsNext == IInv /\ [Next]_vars => Shortfalls'
<1> SUFFICES ASSUME IInv, [Next]_vars PROVE Shortfalls'
  OBVIOUS
<1> TypeOK /\ Stages /\ Claims /\ Shortfalls
  BY DEF IInv
<1>0. /\ pc \in [Requests -> Places]
      /\ balance \in [Accounts -> Int]
      /\ debit \in [Requests -> Nat]
      /\ \A r \in Requests : pc[r] # "idle" =>
            req[r].amount \in Nat /\ req[r].amount > 0 /\ req[r].account \in Accounts
  BY Numbers DEF TypeOK
<1> USE <1>0 DEF Shortfalls, Funded, Tables, Session, Goto, Decide, EndSession, At
<1>1. ASSUME NEW a \in Accounts, NEW b \in Openings, CreateAccount(a, b) PROVE Shortfalls'
  BY <1>1 DEF CreateAccount, Claims
<1>2. ASSUME NEW r \in Requests, NEW i \in Input, Receive(r, i) PROVE Shortfalls'
  BY <1>2 DEF Receive, Stages
<1>3. ASSUME NEW r \in Requests, Connect(r) PROVE Shortfalls'
  BY <1>3 DEF Connect
<1>4. ASSUME NEW r \in Requests, Lookup(r) PROVE Shortfalls'
  BY <1>4 DEF Lookup
<1>5. ASSUME NEW r \in Requests, ClaimKey(r) PROVE Shortfalls'
  BY <1>5 DEF ClaimKey
<1>6. ASSUME NEW r \in Requests, Unwind(r) PROVE Shortfalls'
  BY <1>6 DEF Unwind
<1>7. ASSUME NEW r \in Requests, Replay(r) PROVE Shortfalls'
  BY <1>7 DEF Replay
<1>8. ASSUME NEW r \in Requests, Debit(r) PROVE Shortfalls'
  BY <1>8 DEF Debit
<1>9. ASSUME NEW r \in Requests, Recheck(r) PROVE Shortfalls'
  BY <1>9 DEF Recheck
<1>10. ASSUME NEW r \in Requests, Settle(r) PROVE Shortfalls'
  BY <1>10 DEF Settle
<1>11. ASSUME NEW r \in Requests, Commit(r) PROVE Shortfalls'
  BY <1>11 DEF Commit, Publish
<1>12. ASSUME NEW r \in Requests, Return(r) PROVE Shortfalls'
  BY <1>12 DEF Return
<1>13. ASSUME NEW r \in Requests, Rollback(r) PROVE Shortfalls'
  BY <1>13 DEF Rollback
<1>14. ASSUME NEW r \in Requests, StatementFails(r) PROVE Shortfalls'
  BY <1>14 DEF StatementFails
<1>15. ASSUME NEW r \in Requests, ConnectionLost(r) PROVE Shortfalls'
  BY <1>15 DEF ConnectionLost, Abandoned, Connected, InTransaction
<1>16. ASSUME Crash PROVE Shortfalls'
  BY <1>16 DEF Crash, Abandoned, Connected, InTransaction
<1>17. ASSUME NEW r \in Requests, EndOrphan(r) PROVE Shortfalls'
  BY <1>17 DEF EndOrphan, Publish
<1>18. CASE UNCHANGED vars
  BY <1>18 DEF vars
<1> QED
  BY <1>1, <1>2, <1>3, <1>4, <1>5, <1>6, <1>7, <1>8, <1>9,
     <1>10, <1>11, <1>12, <1>13, <1>14, <1>15, <1>16, <1>17,
     <1>18 DEF Next, Serve

LEMMA DebitsNext == IInv /\ [Next]_vars => Debits'
<1> SUFFICES ASSUME IInv, [Next]_vars PROVE Debits'
  OBVIOUS
<1> TypeOK /\ Stages /\ Claims /\ Debits
  BY DEF IInv
<1>0. /\ pc \in [Requests -> Places]
      /\ draft \in [Requests -> Row \cup {NoValue}]
      /\ balance \in [Accounts -> Int]
      /\ debit \in [Requests -> Nat]
      /\ \A r \in Requests : pc[r] # "idle" =>
            req[r].amount \in Nat /\ req[r].amount > 0 /\ req[r].account \in Accounts
  BY Numbers DEF TypeOK
<1> USE <1>0 DEF Debits, Funded, RowLocked, Orphaned, Tables, Session,
    Goto, Decide, EndSession, At
<1>1. ASSUME NEW a \in Accounts, NEW b \in Openings, CreateAccount(a, b) PROVE Debits'
  BY <1>1 DEF CreateAccount, Claims
<1>2. ASSUME NEW r \in Requests, NEW i \in Input, Receive(r, i) PROVE Debits'
  BY <1>2 DEF Receive, Stages
<1>3. ASSUME NEW r \in Requests, Connect(r) PROVE Debits'
  BY <1>3 DEF Connect
<1>4. ASSUME NEW r \in Requests, Lookup(r) PROVE Debits'
  BY <1>4 DEF Lookup
<1>5. ASSUME NEW r \in Requests, ClaimKey(r) PROVE Debits'
  BY <1>5 DEF ClaimKey
<1>6. ASSUME NEW r \in Requests, Unwind(r) PROVE Debits'
  BY <1>6 DEF Unwind
<1>7. ASSUME NEW r \in Requests, Replay(r) PROVE Debits'
  BY <1>7 DEF Replay
<1>8. ASSUME NEW r \in Requests, Debit(r) PROVE Debits'
  BY <1>8 DEF Debit, Claims
<1>9. ASSUME NEW r \in Requests, Recheck(r) PROVE Debits'
  BY <1>9 DEF Recheck, Claims
<1>10. ASSUME NEW r \in Requests, Settle(r) PROVE Debits'
  <2>1. draft[r] \in Row /\ Settled(r) \in Row /\ Settled(r) # NoValue
    BY <1>10, Drafted, SettledType, DataAssumption DEF Settle, DataAssumption
  <2>2. /\ draft'[r] = Settled(r) /\ pc'[r] = "commit"
        /\ \A q \in Requests \ {r} : draft'[q] = draft[q] /\ pc'[q] = pc[q]
        /\ debit' = debit /\ balance' = balance /\ req' = req
    BY <1>10 DEF Settle
  <2> QED
    BY <2>1, <2>2
<1>11. ASSUME NEW r \in Requests, Commit(r) PROVE Debits'
  BY <1>11 DEF Commit, Publish
<1>12. ASSUME NEW r \in Requests, Return(r) PROVE Debits'
  BY <1>12 DEF Return
<1>13. ASSUME NEW r \in Requests, Rollback(r) PROVE Debits'
  BY <1>13 DEF Rollback
<1>14. ASSUME NEW r \in Requests, StatementFails(r) PROVE Debits'
  BY <1>14 DEF StatementFails
<1>15. ASSUME NEW r \in Requests, ConnectionLost(r) PROVE Debits'
  BY <1>15 DEF ConnectionLost, Abandoned, Connected, InTransaction
<1>16. ASSUME Crash PROVE Debits'
  BY <1>16 DEF Crash, Abandoned, Connected, InTransaction
<1>17. ASSUME NEW r \in Requests, EndOrphan(r) PROVE Debits'
  BY <1>17 DEF EndOrphan, Publish
<1>18. CASE UNCHANGED vars
  BY <1>18 DEF vars
<1> QED
  BY <1>1, <1>2, <1>3, <1>4, <1>5, <1>6, <1>7, <1>8, <1>9,
     <1>10, <1>11, <1>12, <1>13, <1>14, <1>15, <1>16, <1>17,
     <1>18 DEF Next, Serve

-----------------------------------------------------------------------------
(* Answers: who decides one, and that what it names stays.                 *)

\* r is given this answer, or nobody is given one.
LEMMA AnswersChange ==
    ASSUME IInv, [Next]_vars
    PROVE  \/ res' = res
           \/ \E r \in Requests :
                 /\ pc[r] # "idle"
                 /\ \/ \E code \in Refusals \ {"IDEMPOTENCY_CONFLICT"} : Decide(r, Refusal(code))
                    \/ \E row \in rows : ParamsMatch(row, req[r]) /\ UnderKeyOf(row, req[r])
                                            /\ Decide(r, SendWithdrawal(row, TRUE))
                    \/ \E row \in rows : ParamsMatch(row, req[r]) /\ UnderKeyOf(row, req[r])
                                            /\ Decide(r, SendWithdrawal(row, FALSE))
<1> TypeOK /\ Stages
  BY DEF IInv
<1> USE DEF Tables, At, Refusals
<1>1. ASSUME NEW r \in Requests, Lookup(r)
      PROVE  res' = res \/ Decide(r, Refusal("ACCOUNT_NOT_FOUND"))
  BY <1>1 DEF Lookup
<1>2. ASSUME NEW r \in Requests, Replay(r)
      PROVE  \/ Decide(r, Refusal("IDEMPOTENCY_KEY_REUSED"))
             \/ \E row \in rows : ParamsMatch(row, req[r]) /\ UnderKeyOf(row, req[r])
                                     /\ Decide(r, SendWithdrawal(row, TRUE))
  BY <1>2 DEF Replay, Stages, Stored
<1>3. ASSUME NEW r \in Requests, Return(r)
      PROVE  \E row \in rows : ParamsMatch(row, req[r]) /\ UnderKeyOf(row, req[r])
                                  /\ Decide(r, SendWithdrawal(row, FALSE))
  BY <1>3 DEF Return, Stages, RowOf, ParamsMatch, UnderKeyOf
<1>4. ASSUME NEW r \in Requests, StatementFails(r)
      PROVE  Decide(r, Refusal("INTERNAL_ERROR"))
  BY <1>4 DEF StatementFails
<1>5. ASSUME NEW r \in Requests, ConnectionLost(r)
      PROVE  res' = res \/ Decide(r, Refusal("INTERNAL_ERROR"))
  <2>1. CASE res[r] = NoValue
    BY <1>5, <2>1 DEF ConnectionLost
  <2>2. CASE res[r] # NoValue
    <3>1. res \in [Requests -> Answer \cup {NoValue}]
      BY DEF TypeOK
    <3> QED
      BY <1>5, <2>2, <3>1 DEF ConnectionLost, Decide
  <2> QED
    BY <2>1, <2>2
<1>6. ASSUME NEW r \in Requests,
             Connect(r) \/ ClaimKey(r) \/ Unwind(r) \/ Debit(r) \/ Recheck(r) \/ Settle(r)
               \/ Commit(r) \/ Rollback(r) \/ EndOrphan(r)
      PROVE  res' = res
  BY <1>6 DEF Connect, ClaimKey, Unwind, Debit, Recheck, Settle, Commit, Rollback, EndOrphan
<1>7. ASSUME \/ \E a \in Accounts, b \in Openings : CreateAccount(a, b)
             \/ \E r \in Requests, i \in Input : Receive(r, i)
             \/ Crash
             \/ UNCHANGED vars
      PROVE  res' = res
  BY <1>7 DEF CreateAccount, Receive, Crash, vars
<1>8. ASSUME NEW r \in Requests,
             Lookup(r) \/ Replay(r) \/ Return(r) \/ StatementFails(r) \/ ConnectionLost(r)
      PROVE  pc[r] # "idle"
  BY <1>8 DEF Lookup, Replay, Return, StatementFails, ConnectionLost, Connected, InTransaction
<1> QED
  BY <1>1, <1>2, <1>3, <1>4, <1>5, <1>6, <1>7, <1>8 DEF Next, Serve

\* A request keeps its input.
LEMMA InputsKept ==
    ASSUME IInv, [Next]_vars, NEW r \in Requests, pc[r] # "idle"
    PROVE  req'[r] = req[r]
<1>1. ASSUME NEW q \in Requests, NEW i \in Input, Receive(q, i) PROVE req'[r] = req[r]
  <2>1. req \in [Requests -> Input \cup {NoValue}]
    BY DEF IInv, TypeOK
  <2> QED
    BY <1>1, <2>1 DEF Receive, At
<1>2. ASSUME NEW q \in Requests, Serve(q) \/ StatementFails(q) \/ ConnectionLost(q)
      PROVE  req' = req
  BY <1>2 DEF Serve, Connect, Lookup, ClaimKey, Unwind, Replay, Debit, Recheck, Settle, Commit,
              Return, Rollback, EndOrphan, StatementFails, ConnectionLost
<1>3. ASSUME Crash \/ UNCHANGED vars \/ \E a \in Accounts, b \in Openings : CreateAccount(a, b)
      PROVE  req' = req
  BY <1>3 DEF Crash, vars, CreateAccount
<1> QED
  BY <1>1, <1>2, <1>3 DEF Next

LEMMA NoConflictNext == IInv /\ [Next]_vars => NoIdempotencyConflict'
<1> SUFFICES ASSUME IInv, [Next]_vars PROVE NoIdempotencyConflict'
  OBVIOUS
<1>0. NoIdempotencyConflict /\ res \in [Requests -> Answer \cup {NoValue}] /\ rows \subseteq Row
  BY DEF IInv, TypeOK
<1>1. \A code \in Refusals \ {"IDEMPOTENCY_CONFLICT"} :
         Refusal(code) # Refusal("IDEMPOTENCY_CONFLICT")
  BY DEF Refusal
<1>2. ASSUME NEW row \in rows, NEW b \in BOOLEAN
      PROVE  SendWithdrawal(row, b) # Refusal("IDEMPOTENCY_CONFLICT")
  BY DEF SendWithdrawal, Refusal
<1> QED
  BY <1>0, <1>1, <1>2, AnswersChange DEF NoIdempotencyConflict, Decide

LEMMA DurableNext == IInv /\ [Next]_vars => AnswersAreDurable'
<1> SUFFICES ASSUME IInv, [Next]_vars,
                    NEW q \in Requests, res'[q] # NoValue, res'[q].row # NoValue
             PROVE  /\ res'[q].row \in rows'
                    /\ UnderKeyOf(res'[q].row, req'[q])
                    /\ ParamsMatch(res'[q].row, req'[q])
  BY DEF AnswersAreDurable
<1>0. res \in [Requests -> Answer \cup {NoValue}] /\ rows \subseteq rows' /\ AnswersAreDurable
  BY RowsGrow DEF IInv, TypeOK
<1>1. CASE res'[q] = res[q]
  <2>1. pc[q] # "idle"
    BY <1>1 DEF IInv, Stages
  <2> QED
    BY <1>0, <1>1, <2>1, InputsKept DEF AnswersAreDurable
<1>2. CASE res'[q] # res[q]
  <2>1. /\ pc[q] # "idle"
        /\ \/ \E code \in Refusals : Decide(q, Refusal(code))
           \/ \E row \in rows, b \in BOOLEAN :
                 ParamsMatch(row, req[q]) /\ UnderKeyOf(row, req[q])
                    /\ Decide(q, SendWithdrawal(row, b))
    BY <1>0, <1>2, AnswersChange DEF Decide
  <2>2. ~ \E code \in Refusals : Decide(q, Refusal(code))
    BY <1>0 DEF Decide, Refusal
  <2>3. PICK row \in rows, b \in BOOLEAN :
           /\ ParamsMatch(row, req[q]) /\ UnderKeyOf(row, req[q])
           /\ Decide(q, SendWithdrawal(row, b))
    BY <2>1, <2>2
  <2>4. res'[q].row = row
    BY <1>0, <2>3 DEF Decide, SendWithdrawal
  <2> QED
    BY <1>0, <2>1, <2>3, <2>4, InputsKept
<1> QED
  BY <1>1, <1>2

-----------------------------------------------------------------------------
LEMMA InvInit == Init => IInv
<1> SUFFICES ASSUME Init PROVE IInv
  OBVIOUS
<1>1. TypeOK
  BY TypeInit
<1>2. Stages /\ Claims /\ Committed /\ Debits /\ Shortfalls /\ Settlements
  BY DEF Init, Stages, Claims, Committed, Debits, Shortfalls, Settlements, Connected,
         InTransaction, Orphaned
<1>3. NoOverdraft /\ OneRowPerKey /\ SettledRowsOnly /\ AnswersAreDurable
  BY DEF Init, NoOverdraft, OneRowPerKey, SettledRowsOnly, AnswersAreDurable
<1>4. NoIdempotencyConflict
  <2>1. NoValue \notin Answer
    BY DataAssumption DEF DataAssumption
  <2>2. Refusal("IDEMPOTENCY_CONFLICT") \in Answer
    BY RefusalType, RefusalCodes
  <2> QED
    BY <2>1, <2>2 DEF Init, NoIdempotencyConflict
<1> QED
  BY <1>1, <1>2, <1>3, <1>4 DEF IInv

LEMMA InvNext == IInv /\ [Next]_vars => IInv'
BY TypeNext, StagesNext, ClaimsNext, CommittedNext, DebitsNext, ShortfallsNext, SettlementsNext,
   NoOverdraftNext, OneRowNext, SettledRowsNext, DurableNext, NoConflictNext DEF IInv

(***************************************************************************)
(* The exclusions of the unique index and of the row locks hold at every   *)
(* stage of every execution of withdraw() (src/service.ts).                *)
(***************************************************************************)
THEOREM Invariance == Spec => []IInv
<1>1. Init => IInv
  BY InvInit
<1>2. IInv /\ [Next]_vars => IInv'
  BY InvNext
<1> QED
  BY <1>1, <1>2, PTL DEF Spec

\* Every variable of withdraw() keeps its type.
THEOREM TypeCorrect == Spec => []TypeOK
<1>1. IInv => TypeOK
  BY DEF IInv
<1> QED
  BY <1>1, Invariance, PTL

\* No number of concurrent withdrawals takes a balance below zero.
THEOREM NeverOverdrawn == Spec => []NoOverdraft
<1>1. IInv => NoOverdraft
  BY DEF IInv
<1> QED
  BY <1>1, Invariance, PTL

\* At most one attempt per (account, idempotency key) is ever recorded.
THEOREM RecordedOnce == Spec => []OneRowPerKey
<1>1. IInv => OneRowPerKey
  BY DEF IInv
<1> QED
  BY <1>1, Invariance, PTL

\* An answer that names a withdrawal names a committed one, which was asked for.
THEOREM Durability == Spec => []AnswersAreDurable
<1>1. IInv => AnswersAreDurable
  BY DEF IInv
<1> QED
  BY <1>1, Invariance, PTL

\* The !existing branch of replayStoredResult is never taken.
THEOREM NeverConflicting == Spec => []NoIdempotencyConflict
<1>1. IInv => NoIdempotencyConflict
  BY DEF IInv
<1> QED
  BY <1>1, Invariance, PTL

-----------------------------------------------------------------------------
(* Implementation of Ledger: the commit is the indivisible step.           *)

LEMMA SameVocabulary ==
    /\ \A x, y : L!UnderKeyOf(x, y) = UnderKeyOf(x, y)
    /\ \A x, y : L!ParamsMatch(x, y) = ParamsMatch(x, y)
    /\ \A x, y, z : L!RowOf(x, y, z) = RowOf(x, y, z)
    /\ \A x, y : L!SendWithdrawal(x, y) = SendWithdrawal(x, y)
    /\ \A x : L!Refusal(x) = Refusal(x)
    /\ L!Input = Input
BY DEF L!UnderKeyOf, UnderKeyOf, L!ParamsMatch, ParamsMatch, L!RowOf, RowOf,
       L!SendWithdrawal, SendWithdrawal, L!Refusal, Refusal, L!Input, Input

LEMMA CommitRecords ==
    ASSUME IInv, NEW r \in Requests, Commits(r)
    PROVE  L!Record(r)
<1> TypeOK /\ Stages /\ Claims /\ Debits /\ Shortfalls /\ Settlements
  BY DEF IInv
<1>1. pc[r] # "idle" /\ req[r] # NoValue
  BY DEF Commits, Stages
<1>2. draft[r] # NoValue /\ req[r].account \in accounts /\ Stored(r) = {}
  BY DEF Commits, Claims
<1>3. \A row \in rows : ~UnderKeyOf(row, req[r])
  BY <1>2 DEF Stored
<1>4. draft[r] = RowOf(r, req[r], IF debit[r] > 0 THEN "completed" ELSE "failed")
  <2>1. draft[r] \in Row /\ draft[r] = Settled(r) /\ draft[r] = RowOf(r, req[r], draft[r].status)
    BY <1>2, CommitFacts DEF Commits, Claims, Settlements
  <2>2. Settled(r).status = IF debit[r] > 0 THEN "completed" ELSE "failed"
    BY <2>1 DEF Settled, Row
  <2> QED
    BY <2>1, <2>2
<1>5. /\ rows' = rows \cup {draft[r]}
      /\ balance' = [balance EXCEPT ![req[r].account] = @ - debit[r]]
      /\ UNCHANGED <<accounts, opening, req, res>>
  BY CommitFacts DEF Commits
<1>6. /\ balance \in [Accounts -> Int] /\ debit[r] \in Nat
      /\ req[r].amount \in Nat /\ req[r].account \in Accounts
  BY <1>1, Numbers
<1>7. CASE debit[r] > 0
  <2>1. debit[r] = req[r].amount /\ balance[req[r].account] >= req[r].amount
    BY <1>7 DEF Debits, Funded
  <2> QED
    BY <1>1, <1>2, <1>3, <1>4, <1>5, <1>7, <2>1, SameVocabulary DEF L!Record
<1>8. CASE debit[r] = 0
  <2>1. balance[req[r].account] < req[r].amount
    BY <1>6, <1>8 DEF Shortfalls, Funded, Commits
  <2>2. balance' = balance
    BY <1>5, <1>6, <1>8
  <2> QED
    BY <1>1, <1>2, <1>3, <1>4, <1>5, <1>6, <1>8, <2>1, <2>2, SameVocabulary DEF L!Record
<1> QED
  BY <1>6, <1>7, <1>8

LEMMA StepImplements == IInv /\ [Next]_vars => [L!Next]_(L!vars)
<1> SUFFICES ASSUME IInv, [Next]_vars PROVE L!Next \/ UNCHANGED L!vars
  OBVIOUS
<1> TypeOK /\ Stages /\ Claims /\ Committed
  BY DEF IInv
<1> USE SameVocabulary DEF L!vars, L!Next, L!AnswerWith, L!Outstanding, Tables, At, Decide
<1>1. ASSUME NEW a \in Accounts, NEW b \in Openings, CreateAccount(a, b) PROVE L!CreateAccount(a, b)
  BY <1>1 DEF CreateAccount, L!CreateAccount
<1>2. ASSUME NEW r \in Requests, NEW i \in Input, Receive(r, i) PROVE L!Arrive(r, i)
  BY <1>2 DEF Receive, L!Arrive, Stages
<1>3. ASSUME NEW r \in Requests, Lookup(r) PROVE L!AnswerNotFound(r) \/ UNCHANGED L!vars
  BY <1>3 DEF Lookup, L!AnswerNotFound, Stages, Connected
<1>4. ASSUME NEW r \in Requests, Replay(r) PROVE L!AnswerRecorded(r) \/ L!AnswerKeyReused(r)
  <2>1. /\ req[r] # NoValue /\ res[r] = NoValue /\ Stored(r) # {}
        /\ UNCHANGED <<accounts, balance, opening, rows, req>>
    BY <1>4 DEF Replay, Stages, Connected
  <2>2. ASSUME NEW row \in Stored(r), ParamsMatch(row, req[r]),
               Decide(r, SendWithdrawal(row, TRUE))
        PROVE  L!AnswerRecorded(r)
    <3>1. row \in rows /\ UnderKeyOf(row, req[r])
      BY DEF Stored
    <3>2. row.id # r
      BY <1>4, <3>1 DEF Committed, Replay
    <3> QED
      BY <2>1, <2>2, <3>1, <3>2 DEF L!AnswerRecorded
  <2>3. ASSUME NEW row \in Stored(r), ~ParamsMatch(row, req[r]),
               Decide(r, Refusal("IDEMPOTENCY_KEY_REUSED"))
        PROVE  L!AnswerKeyReused(r)
    BY <2>1, <2>3 DEF L!AnswerKeyReused, Stored
  <2> QED
    BY <1>4, <2>1, <2>2, <2>3 DEF Replay
<1>5. ASSUME NEW r \in Requests, Return(r) PROVE L!AnswerRecorded(r)
  <2>1. /\ req[r] # NoValue /\ res[r] = NoValue /\ transaction[r] \in rows
        /\ transaction[r] = RowOf(r, req[r], transaction[r].status)
        /\ UNCHANGED <<accounts, balance, opening, rows, req>>
    BY <1>5 DEF Return, Stages, Connected
  <2>2. /\ transaction[r].id = r /\ UnderKeyOf(transaction[r], req[r])
        /\ ParamsMatch(transaction[r], req[r])
    BY <2>1 DEF RowOf, UnderKeyOf, ParamsMatch
  <2>3. Decide(r, SendWithdrawal(transaction[r], FALSE))
    BY <1>5 DEF Return
  <2> QED
    BY <2>1, <2>2, <2>3 DEF L!AnswerRecorded
<1>6. ASSUME NEW r \in Requests, StatementFails(r) PROVE L!AnswerError(r)
  BY <1>6 DEF StatementFails, L!AnswerError, Stages, Connected, InTransaction
<1>7. ASSUME NEW r \in Requests, ConnectionLost(r) PROVE L!AnswerError(r) \/ UNCHANGED L!vars
  <2>1. pc[r] # "idle" /\ req[r] # NoValue /\ UNCHANGED <<accounts, balance, opening, rows, req>>
    BY <1>7 DEF ConnectionLost, Stages, Connected, InTransaction
  <2>2. CASE res[r] = NoValue
    BY <1>7, <2>1, <2>2 DEF ConnectionLost, L!AnswerError
  <2>3. CASE res[r] # NoValue
    <3>1. res \in [Requests -> Answer \cup {NoValue}]
      BY DEF TypeOK
    <3> QED
      BY <1>7, <2>1, <2>3, <3>1 DEF ConnectionLost
  <2> QED
    BY <2>2, <2>3
<1>8. ASSUME NEW r \in Requests, Commit(r) PROVE L!Record(r)
  BY <1>8, CommitRecords DEF Commit, Commits
<1>9. ASSUME NEW r \in Requests, EndOrphan(r) PROVE L!Record(r) \/ UNCHANGED L!vars
  BY <1>9, CommitRecords DEF EndOrphan, Commits
<1>10. ASSUME NEW r \in Requests,
              Connect(r) \/ ClaimKey(r) \/ Unwind(r) \/ Debit(r) \/ Recheck(r) \/ Settle(r)
                \/ Rollback(r)
       PROVE  UNCHANGED L!vars
  BY <1>10 DEF Connect, ClaimKey, Unwind, Debit, Recheck, Settle, Rollback
<1>11. ASSUME Crash \/ UNCHANGED vars PROVE UNCHANGED L!vars
  BY <1>11 DEF Crash, vars
<1> QED
  BY <1>1, <1>2, <1>3, <1>4, <1>5, <1>6, <1>7, <1>8, <1>9, <1>10, <1>11 DEF Next, Serve

(***************************************************************************)
(* Every execution of withdraw(), faults and crashes included, is one in   *)
(* which each withdrawal happens in one indivisible step and every answer  *)
(* agrees with it: never charged twice, and an error is never a lie.       *)
(***************************************************************************)
THEOREM Refinement == Spec => ImplementsLedger
<1>1. Init => L!Init
  BY DEF Init, L!Init
<1>2. IInv /\ [Next]_vars => [L!Next]_(L!vars)
  BY StepImplements
<1> QED
  BY <1>1, <1>2, Invariance, PTL DEF Spec, ImplementsLedger, L!Spec

-----------------------------------------------------------------------------
(***************************************************************************)
(* A sum over a finite set, as the folds compute it: one row at a time, in *)
(* whatever order CHOOSE takes them. Induction over the set is an argument *)
(* by a smallest subset at which the claim would fail.                     *)
(***************************************************************************)
LEMMA SmallestSubset ==
    ASSUME NEW S, IsFiniteSet(S), NEW T, T \subseteq SUBSET S, T # {}
    PROVE  \E s \in T : \A t \in T : t \subseteq s => t = s
<1>1. IsWellFoundedOn(StrictSubsetOrdering(S), SUBSET S)
  BY FS_StrictSubsetOrderingWellFounded, FS_FiniteSubsetsOfFinite
<1>2. \E s \in T : \A t \in T : ~ (<<t, s>> \in StrictSubsetOrdering(S))
  BY <1>1, WFMin
<1> QED
  BY <1>2 DEF StrictSubsetOrdering

\* The row the fold takes out of s first.
Foremost(s) == CHOOSE x \in s : TRUE

\* g is the sum of the amounts of every subset of S.
IsTally(g, S) ==
    g = [s \in SUBSET S |-> IF s = {} THEN 0 ELSE Foremost(s).amount + g[s \ {Foremost(s)}]]

\* What Conservation sums, of any set of rows.
Total(S) == MapThenSumSet(LAMBDA row : row.amount, S)

LEMMA TotalIsTally == ASSUME NEW S PROVE Total(S) = (CHOOSE g : IsTally(g, S))[S]
BY DEF Total, MapThenSumSet, MapThenFoldSet, IsTally, Foremost

LEMMA TallyStep ==
    ASSUME NEW S, NEW g, IsTally(g, S), NEW s, s \subseteq S
    PROVE  /\ s = {} => g[s] = 0
           /\ s # {} => /\ Foremost(s) \in s
                        /\ g[s] = Foremost(s).amount + g[s \ {Foremost(s)}]
<1>1. g[s] = IF s = {} THEN 0 ELSE Foremost(s).amount + g[s \ {Foremost(s)}]
  BY DEF IsTally
<1>2. s # {} => Foremost(s) \in s
  BY DEF Foremost
<1> QED
  BY <1>1, <1>2

\* A sum depends on nothing but the set.
LEMMA TalliesAgree ==
    ASSUME NEW S, NEW R, IsFiniteSet(S), NEW g, NEW h, IsTally(g, S), IsTally(h, R),
           NEW s, s \subseteq S, s \subseteq R
    PROVE  g[s] = h[s]
<1> DEFINE T == {t \in SUBSET s : g[t] # h[t]}
<1> SUFFICES ASSUME T # {} PROVE FALSE
  OBVIOUS
<1>1. IsFiniteSet(s)
  BY FS_Subset
<1>2. PICK t \in T : \A u \in T : u \subseteq t => u = t
  <2>1. T \subseteq SUBSET s
    OBVIOUS
  <2> HIDE DEF T
  <2> QED
    BY <1>1, <2>1, SmallestSubset
<1>3. t \subseteq S /\ t \subseteq R /\ t \subseteq s /\ g[t] # h[t]
  OBVIOUS
<1>4. t # {} /\ Foremost(t) \in t
      /\ g[t] = Foremost(t).amount + g[t \ {Foremost(t)}] /\ h[t] = Foremost(t).amount + h[t \ {Foremost(t)}]
  BY <1>3, TallyStep
<1>5. t \ {Foremost(t)} \in T
  BY <1>3, <1>4
<1> QED
  BY <1>2, <1>4, <1>5

\* There is a smallest set without a sum, or none.
LEMMA TallyExists ==
    ASSUME NEW S, IsFiniteSet(S), \A x \in S : x.amount \in Int
    PROVE  \E g \in [SUBSET S -> Int] : IsTally(g, S)
<1> DEFINE T == {t \in SUBSET S : ~ \E g \in [SUBSET t -> Int] : IsTally(g, t)}
<1> SUFFICES ASSUME T # {} PROVE FALSE
  OBVIOUS
<1>1. PICK t \in T : \A u \in T : u \subseteq t => u = t
  <2>1. T \subseteq SUBSET S
    OBVIOUS
  <2> HIDE DEF T
  <2> QED
    BY <2>1, SmallestSubset
<1> DEFINE W(u) == CHOOSE g \in [SUBSET u -> Int] : IsTally(g, u)
<1>2. ASSUME NEW u, u \subseteq t, u # t PROVE W(u) \in [SUBSET u -> Int] /\ IsTally(W(u), u)
  <2>1. u \in SUBSET S /\ u \notin T
    BY <1>1, <1>2
  <2>2. \E g \in [SUBSET u -> Int] : IsTally(g, u)
    BY <2>1
  <2> QED
    BY <2>2
<1> HIDE DEF W
<1> DEFINE g == [s \in SUBSET t |-> IF s = {} THEN 0 ELSE Foremost(s).amount + W(s \ {Foremost(s)})[s \ {Foremost(s)}]]
<1>3. ASSUME NEW s, s \subseteq t, s # {}
      PROVE  LET u == s \ {Foremost(s)} IN
             u \subseteq t /\ u # t /\ Foremost(s) \in s /\ Foremost(s).amount \in Int /\ W(u)[u] \in Int
  <2>1. Foremost(s) \in s /\ s \subseteq S
    BY <1>1, <1>3 DEF Foremost
  <2> DEFINE u == s \ {Foremost(s)}
  <2>2. u \subseteq t /\ u # t
    BY <1>3, <2>1
  <2>3. W(u)[u] \in Int
    <3> HIDE DEF u
    <3> QED
      BY <1>2, <2>2
  <2> QED
    BY <2>1, <2>2, <2>3
<1>4. g \in [SUBSET t -> Int]
  BY <1>3
<1>5. ASSUME NEW s, s \subseteq t, s # {}
      PROVE  g[s \ {Foremost(s)}] = W(s \ {Foremost(s)})[s \ {Foremost(s)}]
  <2> DEFINE u == s \ {Foremost(s)}
  <2>1. u \subseteq t /\ u # t
    BY <1>3, <1>5
  <2>2. IsTally(W(u), u) /\ IsFiniteSet(u)
    BY <1>1, <1>2, <2>1, FS_Subset
  <2>3. CASE u = {}
    BY <2>1, <2>2, <2>3, TallyStep
  <2>4. CASE u # {}
    <3> DEFINE v == u \ {Foremost(u)}
    <3>1. g[u] = Foremost(u).amount + W(v)[v]
      BY <2>1, <2>4
    <3>2. W(u)[u] = Foremost(u).amount + W(u)[v]
      <4>1. u \subseteq u
        OBVIOUS
      <4> HIDE DEF u
      <4> QED
        BY <2>2, <2>4, <4>1, TallyStep
    <3>3. v \subseteq t /\ v # t /\ v \subseteq u
      BY <1>3, <2>1, <2>4
    <3>4. IsTally(W(v), v)
      BY <1>2, <3>3
    <3>5. W(u)[v] = W(v)[v]
      <4> HIDE DEF u, v
      <4> QED
        BY <2>2, <3>3, <3>4, TalliesAgree
    <3> QED
      BY <3>1, <3>2, <3>5
  <2> QED
    BY <2>3, <2>4
<1>6. IsTally(g, t)
  <2>1. ASSUME NEW s \in SUBSET t
        PROVE  g[s] = IF s = {} THEN 0 ELSE Foremost(s).amount + g[s \ {Foremost(s)}]
    <3>1. s # {} => g[s] = Foremost(s).amount + W(s \ {Foremost(s)})[s \ {Foremost(s)}]
      OBVIOUS
    <3>2. s = {} => g[s] = 0
      OBVIOUS
    <3> HIDE DEF g
    <3> QED
      BY <1>5, <3>1, <3>2
  <2> HIDE DEF g
  <2> QED
    BY <1>4, <2>1 DEF IsTally
<1> QED
  BY <1>1, <1>4, <1>6

\* The row taken out of s first might have been x.
TakesOff(g, s, x) ==
    g[s] = x.amount + g[s \ {x}]

LEMMA AnyOrder ==
    ASSUME NEW S, IsFiniteSet(S), \A x \in S : x.amount \in Int,
           NEW g \in [SUBSET S -> Int], IsTally(g, S)
    PROVE  \A s \in SUBSET S : \A x \in s : TakesOff(g, s, x)
<1> USE DEF TakesOff
<1> DEFINE T == {t \in SUBSET S : \E y \in t : g[t] # y.amount + g[t \ {y}]}
<1> SUFFICES ASSUME T # {} PROVE FALSE
  OBVIOUS
<1>1. PICK t \in T : \A u \in T : u \subseteq t => u = t
  <2>1. T \subseteq SUBSET S
    OBVIOUS
  <2> HIDE DEF T
  <2> QED
    BY <2>1, SmallestSubset
<1>2. PICK y \in t : g[t] # y.amount + g[t \ {y}]
  BY <1>1
<1>3. t \subseteq S /\ t # {} /\ Foremost(t) \in t /\ g[t] = Foremost(t).amount + g[t \ {Foremost(t)}]
  BY <1>1, <1>2, TallyStep
<1> DEFINE z == Foremost(t)
<1>4. z # y /\ z \in S /\ y \in S
  BY <1>2, <1>3
<1>5. g[t \ {z}] = y.amount + g[(t \ {z}) \ {y}]
  <2>1. t \ {z} \notin T /\ t \ {z} \in SUBSET S
    BY <1>1, <1>3
  <2> QED
    BY <1>2, <1>4, <2>1
<1>6. g[t \ {y}] = z.amount + g[(t \ {y}) \ {z}]
  <2>1. t \ {y} \notin T /\ t \ {y} \in SUBSET S
    BY <1>1, <1>2
  <2> QED
    BY <1>3, <1>4, <2>1
<1>7. (t \ {z}) \ {y} = (t \ {y}) \ {z}
  OBVIOUS
<1>8. PICK rest \in Int : rest = g[(t \ {y}) \ {z}]
  BY <1>3
<1>9. g[t] = z.amount + (y.amount + rest) /\ g[t \ {y}] = z.amount + rest
  BY <1>3, <1>5, <1>6, <1>7, <1>8
<1>10. z.amount \in Int /\ y.amount \in Int
  BY <1>4
<1> QED
  BY <1>2, <1>8, <1>9, <1>10

LEMMA TotalFacts ==
    ASSUME NEW S, IsFiniteSet(S), \A x \in S : x.amount \in Int
    PROVE  \E g \in [SUBSET S -> Int] : IsTally(g, S) /\ Total(S) = g[S]
<1>1. PICK g \in [SUBSET S -> Int] : IsTally(g, S)
  BY TallyExists
<1>2. IsTally((CHOOSE h : IsTally(h, S)), S)
  BY <1>1
<1>3. (CHOOSE h : IsTally(h, S))[S] = g[S]
  BY <1>1, <1>2, TalliesAgree
<1> QED
  BY <1>1, <1>3, TotalIsTally

LEMMA TotalEmpty == Total({}) = 0
<1>1. IsFiniteSet({})
  BY FS_EmptySet
<1>2. PICK g \in [SUBSET {} -> Int] : IsTally(g, {}) /\ Total({}) = g[{}]
  BY <1>1, TotalFacts
<1> QED
  BY <1>2, TallyStep

\* A row more is its amount more.
LEMMA TotalRemove ==
    ASSUME NEW S, IsFiniteSet(S), \A y \in S : y.amount \in Int, NEW x \in S
    PROVE  Total(S) = x.amount + Total(S \ {x}) /\ Total(S \ {x}) \in Int
<1>1. PICK g \in [SUBSET S -> Int] : IsTally(g, S) /\ Total(S) = g[S]
  BY TotalFacts
<1>2. TakesOff(g, S, x)
  <2>1. \A s \in SUBSET S : \A y \in s : TakesOff(g, s, y)
    BY <1>1, AnyOrder
  <2> QED
    BY <2>1
<1>3. PICK h \in [SUBSET (S \ {x}) -> Int] : IsTally(h, S \ {x}) /\ Total(S \ {x}) = h[S \ {x}]
  <2>1. IsFiniteSet(S \ {x})
    BY FS_RemoveElement
  <2> QED
    BY <2>1, TotalFacts
<1>4. g[S \ {x}] = h[S \ {x}]
  BY <1>1, <1>3, TalliesAgree
<1> QED
  BY <1>1, <1>2, <1>3, <1>4 DEF TakesOff

-----------------------------------------------------------------------------
(* What has left an account.                                               *)

\* The withdrawals from a that moved money.
Moved(a) == {row \in rows : row.account = a /\ row.status = "completed"}

\* The books: rows are of accounts there are, and add up to what has left them.
Balanced ==
    /\ IsFiniteSet(rows)
    /\ \A row \in rows : row.account \in accounts
    /\ \A a \in Accounts : opening[a] - balance[a] = Total(Moved(a))

LEMMA MovedFacts ==
    ASSUME TypeOK, Balanced, NEW a
    PROVE  IsFiniteSet(Moved(a)) /\ \A row \in Moved(a) : row.amount \in Int
<1>1. Moved(a) \subseteq rows
  BY DEF Moved
<1>2. \A row \in rows : row.amount \in Int
  BY AmountsPositive DEF TypeOK, Row
<1> QED
  BY <1>1, <1>2, FS_Subset DEF Balanced

\* A commit moves what it records, of one account.
LEMMA CommitMoves ==
    ASSUME IInv, Balanced, NEW r \in Requests, Commits(r), NEW a \in Accounts
    PROVE  opening'[a] - balance'[a] = Total(Moved(a)')
<1> TypeOK /\ Stages /\ Claims /\ Settlements /\ Debits
  BY DEF IInv
<1> DEFINE row == draft[r]
<1>1. /\ row \in Row /\ row.account = req[r].account /\ rows' = rows \cup {row}
      /\ balance' = [balance EXCEPT ![req[r].account] = @ - debit[r]]
      /\ opening' = opening /\ Stored(r) = {} /\ row.status \in {"completed", "failed"}
  BY CommitFacts DEF Commits
<1>2. row \notin rows
  BY <1>1, CommitFacts DEF Stored, UnderKeyOf
<1>3. /\ req[r].account \in Accounts /\ debit[r] \in Nat /\ req[r].amount \in Nat
      /\ balance \in [Accounts -> Int] /\ opening[a] \in Int
  <2>1. req[r].account \in Accounts /\ debit[r] \in Nat /\ req[r].amount \in Nat
    BY Asked, DebitType DEF Commits
  <2> QED
    BY <2>1, OpeningsNatural DEF TypeOK
<1>4. row.amount = req[r].amount /\ (row.status = "completed" <=> debit[r] > 0)
  <2>1. row = RowOf(r, req[r], row.status)
    BY <1>1, DataAssumption DEF Claims, DataAssumption
  <2>2. row = Settled(r)
    BY DEF Commits, Settlements
  <2>3. Settled(r).status = IF debit[r] > 0 THEN "completed" ELSE "failed"
    BY <1>1 DEF Settled, Row
  <2> QED
    BY <2>1, <2>2, <2>3 DEF RowOf
<1>5. debit[r] > 0 => debit[r] = row.amount
  BY <1>4 DEF Debits
<1>6. opening[a] - balance[a] = Total(Moved(a))
  BY DEF Balanced
<1> HIDE DEF row
<1>7. CASE row.status = "completed" /\ a = row.account
  <2>1. Moved(a)' = Moved(a) \cup {row} /\ row \notin Moved(a)
    BY <1>1, <1>2, <1>7 DEF Moved
  <2> DEFINE S == Moved(a) \cup {row}
  <2>2. IsFiniteSet(S) /\ (\A x \in S : x.amount \in Int) /\ row \in S /\ S \ {row} = Moved(a)
    <3>1. row.amount \in Int
      BY <1>3, <1>4
    <3> QED
      BY <2>1, <3>1, MovedFacts, FS_AddElement
  <2> HIDE DEF S
  <2>3. Total(S) = row.amount + Total(Moved(a)) /\ Total(Moved(a)) \in Int
    BY <2>2, TotalRemove
  <2>4. Moved(a)' = S
    BY <2>1 DEF S
  <2>5. balance'[a] = balance[a] - row.amount /\ row.amount \in Int /\ balance[a] \in Int
    BY <1>1, <1>3, <1>4, <1>5, <1>7
  <2> QED
    BY <1>1, <1>3, <1>6, <2>3, <2>4, <2>5
<1>8. CASE ~(row.status = "completed" /\ a = row.account)
  <2>1. Moved(a)' = Moved(a)
    BY <1>1, <1>8 DEF Moved
  <2>2. balance'[a] = balance[a]
    BY <1>1, <1>3, <1>4, <1>8
  <2> QED
    BY <1>1, <1>6, <2>1, <2>2
<1> QED
  BY <1>7, <1>8

LEMMA BalancedNext == IInv /\ Balanced /\ [Next]_vars => Balanced'
<1> SUFFICES ASSUME IInv, Balanced, [Next]_vars PROVE Balanced'
  OBVIOUS
<1> TypeOK /\ Stages /\ Claims
  BY DEF IInv
<1>1. CASE UNCHANGED Tables
  BY <1>1 DEF Tables, Balanced, Moved
<1>2. ASSUME NEW b \in Accounts, NEW o \in Openings, CreateAccount(b, o) PROVE Balanced'
  <2>1. /\ b \notin accounts /\ accounts' = accounts \cup {b} /\ rows' = rows
        /\ balance' = [balance EXCEPT ![b] = o] /\ opening' = [opening EXCEPT ![b] = o]
    BY <1>2 DEF CreateAccount
  <2>2. ASSUME NEW a \in Accounts PROVE opening'[a] - balance'[a] = Total(Moved(a)')
    <3>1. Moved(a)' = Moved(a)
      BY <2>1 DEF Moved
    <3>2. CASE a = b
      <4>1. Moved(a) = {}
        BY <2>1, <3>2 DEF Moved, Balanced
      <4>2. opening'[a] = o /\ balance'[a] = o /\ o \in Int
        BY <2>1, <3>2, OpeningsNatural DEF TypeOK
      <4> QED
        BY <3>1, <4>1, <4>2, TotalEmpty
    <3>3. CASE a # b
      BY <2>1, <3>1, <3>3 DEF Balanced, TypeOK
    <3> QED
      BY <3>2, <3>3
  <2> QED
    BY <2>1, <2>2 DEF Balanced
<1>3. ASSUME NEW r \in Requests, Commits(r) PROVE Balanced'
  <2>1. IsFiniteSet(rows')
    BY <1>3, CommitFacts, FS_AddElement DEF Balanced
  <2>2. \A row \in rows' : row.account \in accounts'
    <3>1. draft[r].account = req[r].account /\ rows' = rows \cup {draft[r]} /\ accounts' = accounts
      BY <1>3, CommitFacts DEF Commits
    <3>2. req[r].account \in accounts
      BY <1>3 DEF Claims, Commits
    <3> QED
      BY <3>1, <3>2 DEF Balanced
  <2> QED
    BY <1>3, <2>1, <2>2, CommitMoves DEF Balanced
<1> QED
  BY <1>1, <1>2, <1>3, TablesChange

LEMMA BalancedInit == Init => Balanced
<1> SUFFICES ASSUME Init PROVE Balanced
  OBVIOUS
<1>1. \A a \in Accounts : Moved(a) = {} /\ opening[a] - balance[a] = 0
  BY DEF Init, Moved
<1> QED
  BY <1>1, TotalEmpty, FS_EmptySet DEF Init, Balanced

(***************************************************************************)
(* "The debit and the ledger row commit or disappear together": what has   *)
(* left an account is the sum of its completed rows, however withdrawals   *)
(* overlap, fail and are cut off.                                          *)
(***************************************************************************)
THEOREM BooksBalance == Spec => []Conservation
<1>1. Balanced => Conservation
  BY DEF Balanced, Conservation, Total, Moved
<1> QED
  BY <1>1, BalancedInit, BalancedNext, Invariance, PTL DEF Spec
=============================================================================

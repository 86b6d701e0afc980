------------------------------ MODULE Ledger ------------------------------
(***************************************************************************)
(* What the ledger promises, with no database, pool or failure in it: a    *)
(* withdrawal is one indivisible step that records an outcome under        *)
(* (account, key) and moves the money exactly when the balance covers it,  *)
(* every other request under that key is told about that one outcome, and  *)
(* an error says nothing about whether the step was or will be taken.      *)
(***************************************************************************)
EXTENDS LedgerData

VARIABLES
    accounts,   \* the accounts that exist
    balance,    \* the balance of each (0 while it does not exist)
    opening,    \* history: the balance each was created with
    rows,       \* recorded withdrawals
    req,        \* what each request asks for, NoValue before it arrives
    res         \* the outcome each request is answered with, NoValue before

vars == <<accounts, balance, opening, rows, req, res>>

Init ==
    /\ accounts = {}
    /\ balance = [a \in Accounts |-> 0]
    /\ opening = [a \in Accounts |-> 0]
    /\ rows = {}
    /\ req = [r \in Requests |-> NoValue]
    /\ res = [r \in Requests |-> NoValue]

CreateAccount(a, b) ==
    /\ a \notin accounts
    /\ accounts' = accounts \cup {a}
    /\ balance' = [balance EXCEPT ![a] = b]
    /\ opening' = [opening EXCEPT ![a] = b]
    /\ UNCHANGED <<rows, req, res>>

Arrive(r, i) ==
    /\ req[r] = NoValue
    /\ req' = [req EXCEPT ![r] = i]
    /\ UNCHANGED <<accounts, balance, opening, rows, res>>

(***************************************************************************)
(* The indivisible step. It needs no answer to be outstanding: a request   *)
(* that was answered INTERNAL_ERROR may still be recorded, once.           *)
(***************************************************************************)
Record(r) ==
    /\ req[r] # NoValue
    /\ req[r].account \in accounts
    /\ \A row \in rows : ~UnderKeyOf(row, req[r])
    /\ \/ /\ balance[req[r].account] >= req[r].amount
          /\ balance' = [balance EXCEPT ![req[r].account] = @ - req[r].amount]
          /\ rows' = rows \cup {RowOf(r, req[r], "completed")}
       \/ /\ balance[req[r].account] < req[r].amount
          /\ rows' = rows \cup {RowOf(r, req[r], "failed")}
          /\ UNCHANGED balance
    /\ UNCHANGED <<accounts, opening, req, res>>

Outstanding(r) == req[r] # NoValue /\ res[r] = NoValue

AnswerWith(r, answer) ==
    /\ res' = [res EXCEPT ![r] = answer]
    /\ UNCHANGED <<accounts, balance, opening, rows, req>>

\* The outcome stored under the request's key, replayed unless it is its own.
AnswerRecorded(r) ==
    /\ Outstanding(r)
    /\ \E row \in rows :
          /\ UnderKeyOf(row, req[r])
          /\ ParamsMatch(row, req[r])
          /\ AnswerWith(r, SendWithdrawal(row, row.id # r))

AnswerKeyReused(r) ==
    /\ Outstanding(r)
    /\ \E row \in rows : UnderKeyOf(row, req[r]) /\ ~ParamsMatch(row, req[r])
    /\ AnswerWith(r, Refusal("IDEMPOTENCY_KEY_REUSED"))

AnswerNotFound(r) ==
    /\ Outstanding(r)
    /\ req[r].account \notin accounts
    /\ AnswerWith(r, Refusal("ACCOUNT_NOT_FOUND"))

AnswerError(r) ==
    /\ Outstanding(r)
    /\ AnswerWith(r, Refusal("INTERNAL_ERROR"))

Next ==
    \/ \E a \in Accounts, b \in Openings : CreateAccount(a, b)
    \/ \E r \in Requests, i \in Input : Arrive(r, i)
    \/ \E r \in Requests :
          \/ Record(r)
          \/ AnswerRecorded(r)
          \/ AnswerKeyReused(r)
          \/ AnswerNotFound(r)
          \/ AnswerError(r)

Spec == Init /\ [][Next]_vars
=============================================================================

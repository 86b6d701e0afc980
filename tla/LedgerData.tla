---------------------------- MODULE LedgerData ----------------------------
(***************************************************************************)
(* The vocabulary of a withdrawal: what a client asks for, the row the     *)
(* `transactions` table keeps of it, and the answer the HTTP layer gives.  *)
(* An address and its network are one model value (Dests): the code only   *)
(* compares them for equality once they are validated.                     *)
(***************************************************************************)
EXTENDS Integers, FiniteSets

CONSTANTS
    Requests,   \* HTTP withdrawal requests; each is served once
    Accounts,   \* account ids a client may name, existing or not
    Keys,       \* idempotency keys, after trimming
    Amounts,    \* amounts a client may ask for
    Dests,      \* (network, address) pairs
    Openings,   \* balances an account may be created with
    NoValue     \* no request, no row, no answer

Statuses == {"pending", "completed", "failed"}

Refusals == {"ACCOUNT_NOT_FOUND", "IDEMPOTENCY_KEY_REUSED", "IDEMPOTENCY_CONFLICT",
             "INTERNAL_ERROR"}

Input == [account : Accounts, key : Keys, amount : Amounts, dest : Dests]

Row == [id : Requests, account : Accounts, key : Keys, amount : Amounts,
        dest : Dests, status : Statuses]

Answer == [code : {"CREATED", "INSUFFICIENT_FUNDS"} \cup Refusals,
           row : Row \cup {NoValue}, replayed : BOOLEAN]

(***************************************************************************)
(* parseWithdrawal rejects every amount that is not greater than zero and  *)
(* parseCreateAccount every negative balance.                              *)
(***************************************************************************)
ASSUME DataAssumption ==
    /\ Amounts \subseteq Nat \ {0}
    /\ Openings \subseteq Nat
    /\ NoValue \notin Input \cup Row \cup Answer

-----------------------------------------------------------------------------
\* The row request r inserts for input i, with the status given.
RowOf(r, i, status) ==
    [id |-> r, account |-> i.account, key |-> i.key, amount |-> i.amount,
     dest |-> i.dest, status |-> status]

\* row was stored under the account and the key of i.
UnderKeyOf(row, i) == row.account = i.account /\ row.key = i.key

\* row describes what i asks for (the params_match column of the replay query).
ParamsMatch(row, i) == row.amount = i.amount /\ row.dest = i.dest

\* The answer that renders a recorded withdrawal.
SendWithdrawal(row, replayed) ==
    [code |-> IF row.status = "completed" THEN "CREATED" ELSE "INSUFFICIENT_FUNDS",
     row |-> row, replayed |-> replayed]

\* The answer that renders a thrown error.
Refusal(code) == [code |-> code, row |-> NoValue, replayed |-> FALSE]
=============================================================================

----------------------------- MODULE Withdraw -----------------------------
(***************************************************************************)
(* withdraw() of src/service.ts, statement by statement, over the parts of *)
(* Postgres it leans on, and the connection pool of src/db.ts. Every       *)
(* request holds one pooled connection and runs one READ COMMITTED         *)
(* transaction on it:                                                      *)
(*                                                                         *)
(*   connect -> lookup -> claim -> debit [-> lockwait] -> settle           *)
(*                          |                    -> commit -> ack -> done  *)
(*                          +-> unwind -> replay -> done                   *)
(*                                                                         *)
(* What a transaction has written and not committed is draft[r] (its       *)
(* ledger row) and debit[r] (what it took off the balance). A draft keeps  *)
(* its entry in the unique index, and a non-zero debit the lock of the     *)
(* account row, until the transaction ends. A connection can break and the *)
(* process can die at any point; the session it leaves behind in Postgres  *)
(* is an orphan that keeps its locks until the server ends it, and commits *)
(* if COMMIT had already been delivered.                                   *)
(***************************************************************************)
EXTENDS LedgerData, FiniteSetsExt

CONSTANT PoolMax    \* PG_POOL_MAX

ASSUME PoolAssumption == PoolMax \in Nat \ {0}

VARIABLES
    accounts, balance,  \* the committed `accounts` table
    opening,            \* history: the balance each account was created with
    rows,               \* the committed `transactions` table
    req,                \* the input of each request, NoValue before it arrives
    res,                \* the outcome withdraw() settled on, NoValue before
    pc,                 \* where each request is
    transaction,        \* the settled row withdraw() holds until it returns
    draft,              \* its uncommitted ledger row, or NoValue
    debit               \* the amount of its uncommitted UPDATE of the balance

vars == <<accounts, balance, opening, rows, req, res, pc, transaction, draft, debit>>

InTransaction == {"claim", "debit", "lockwait", "settle", "commit"}
Connected == InTransaction \cup {"lookup", "unwind", "replay", "ack", "rollback"}
Orphaned == {"orphan", "orphan_commit"}
Places == {"idle", "connect", "done"} \cup Connected \cup Orphaned

-----------------------------------------------------------------------------
Goto(r, place) == pc' = [pc EXCEPT ![r] = place]

At(r, place) == pc[r] = place

Decide(r, outcome) == res' = [res EXCEPT ![r] = outcome]

Tables == <<accounts, balance, opening, rows>>

Session == <<draft, debit>>

Hold(r, row) == transaction' = [transaction EXCEPT ![r] = row]

\* The account row is locked by another transaction's uncommitted UPDATE.
RowLocked(r) ==
    \E q \in Requests \ {r} : debit[q] > 0 /\ req[q].account = req[r].account

\* Fault variant: the key is looked up and not claimed (no UNIQUE constraint).
KeyUnclaimed(r) == FALSE

\* The unique index holds another transaction's uncommitted entry for the key.
KeyClaimed(r) ==
    \E q \in Requests \ {r} : draft[q] # NoValue /\ UnderKeyOf(draft[q], req[r])

\* The committed rows under the key of r (at most one, as OneRowPerKey says).
Stored(r) == {row \in rows : UnderKeyOf(row, req[r])}

\* Fault variant: the balance must exceed the amount.
FundedWithRest(r) == balance[req[r].account] > req[r].amount

Funded(r) == balance[req[r].account] >= req[r].amount

\* The effects of a transaction's end: its writes become visible, or vanish.
Publish(r) ==
    /\ rows' = rows \cup {draft[r]}
    /\ balance' = [balance EXCEPT ![req[r].account] = @ - debit[r]]

EndSession(r) ==
    /\ draft' = [draft EXCEPT ![r] = NoValue]
    /\ debit' = [debit EXCEPT ![r] = 0]

-----------------------------------------------------------------------------
Init ==
    /\ accounts = {}
    /\ balance = [a \in Accounts |-> 0]
    /\ opening = [a \in Accounts |-> 0]
    /\ rows = {}
    /\ req = [r \in Requests |-> NoValue]
    /\ res = [r \in Requests |-> NoValue]
    /\ pc = [r \in Requests |-> "idle"]
    /\ transaction = [r \in Requests |-> NoValue]
    /\ draft = [r \in Requests |-> NoValue]
    /\ debit = [r \in Requests |-> 0]

\* createAccount: one INSERT, committed on its own.
CreateAccount(a, b) ==
    /\ a \notin accounts
    /\ accounts' = accounts \cup {a}
    /\ balance' = [balance EXCEPT ![a] = b]
    /\ opening' = [opening EXCEPT ![a] = b]
    /\ UNCHANGED <<rows, req, res, pc, transaction, Session>>

\* A validated request reaches withdraw(), which asks the pool for a client.
Receive(r, i) ==
    /\ At(r, "idle")
    /\ req' = [req EXCEPT ![r] = i]
    /\ Goto(r, "connect")
    /\ UNCHANGED <<Tables, res, transaction, Session>>

Connect(r) ==
    /\ At(r, "connect")
    /\ Cardinality({q \in Requests : pc[q] \in Connected}) < PoolMax
    /\ Goto(r, "lookup")
    /\ UNCHANGED <<Tables, req, res, transaction, Session>>

\* BEGIN, and the SELECT that rejects unknown accounts before the key is used.
Lookup(r) ==
    /\ At(r, "lookup")
    /\ \/ /\ req[r].account \in accounts
          /\ Goto(r, "claim")
          /\ UNCHANGED res
       \/ /\ req[r].account \notin accounts
          /\ Decide(r, Refusal("ACCOUNT_NOT_FOUND"))
          /\ Goto(r, "rollback")
    /\ UNCHANGED <<Tables, req, transaction, Session>>

\* Fault variant: the key is refused while another transaction is using it.
ClaimKeyNoWait(r) ==
    /\ At(r, "claim")
    /\ \/ /\ ~KeyClaimed(r)
          /\ Stored(r) = {}
          /\ draft' = [draft EXCEPT ![r] = RowOf(r, req[r], "pending")]
          /\ Goto(r, "debit")
       \/ /\ KeyClaimed(r) \/ Stored(r) # {}
          /\ Goto(r, "unwind")
          /\ UNCHANGED draft
    /\ UNCHANGED <<Tables, req, res, transaction, debit>>

(***************************************************************************)
(* CLAIM_KEY. While another transaction's entry is in the unique index the *)
(* INSERT blocks; 23505 is raised against committed rows only. The foreign *)
(* key's KEY SHARE lock on the account is compatible with every lock the   *)
(* code takes.                                                             *)
(***************************************************************************)
ClaimKey(r) ==
    /\ At(r, "claim")
    /\ ~KeyClaimed(r)
    /\ \/ /\ Stored(r) = {}
          /\ draft' = [draft EXCEPT ![r] = RowOf(r, req[r], "pending")]
          /\ Goto(r, "debit")
       \/ /\ Stored(r) # {}
          /\ Goto(r, "unwind")
          /\ UNCHANGED draft
    /\ UNCHANGED <<Tables, req, res, transaction, debit>>

\* Fault variant: the replay is read through pool.query, while client is held.
UnwindToSecondClient(r) ==
    /\ At(r, "unwind")
    /\ Cardinality({q \in Requests : pc[q] \in Connected}) < PoolMax
    /\ EndSession(r)
    /\ Goto(r, "replay")
    /\ UNCHANGED <<Tables, req, res, transaction>>

\* The ROLLBACK that ends the transaction 23505 has aborted.
Unwind(r) ==
    /\ At(r, "unwind")
    /\ EndSession(r)
    /\ Goto(r, "replay")
    /\ UNCHANGED <<Tables, req, res, transaction>>

\* replayStoredResult, on the connection the request already holds.
Replay(r) ==
    /\ At(r, "replay")
    /\ \/ \E row \in Stored(r) :
            /\ ParamsMatch(row, req[r])
            /\ Decide(r, SendWithdrawal(row, TRUE))
            /\ Goto(r, "done")
       \/ /\ \E row \in Stored(r) : ~ParamsMatch(row, req[r])
          /\ Decide(r, Refusal("IDEMPOTENCY_KEY_REUSED"))
          /\ Goto(r, "rollback")
       \/ /\ Stored(r) = {}
          /\ Decide(r, Refusal("IDEMPOTENCY_CONFLICT"))
          /\ Goto(r, "rollback")
    /\ UNCHANGED <<Tables, req, transaction, Session>>

(***************************************************************************)
(* DEBIT. The WHERE clause is first evaluated on the statement's snapshot: *)
(* a short balance updates no row and waits for nobody. A row that passes  *)
(* but is locked makes the statement wait.                                 *)
(***************************************************************************)
Debit(r) ==
    /\ At(r, "debit")
    /\ \/ /\ ~Funded(r)
          /\ Goto(r, "settle")
          /\ UNCHANGED debit
       \/ /\ Funded(r)
          /\ RowLocked(r)
          /\ Goto(r, "lockwait")
          /\ UNCHANGED debit
       \/ /\ Funded(r)
          /\ ~RowLocked(r)
          /\ debit' = [debit EXCEPT ![r] = req[r].amount]
          /\ Goto(r, "settle")
    /\ UNCHANGED <<Tables, req, res, transaction, draft>>

\* Fault variant: the balance is checked once, before the wait.
RecheckNothing(r) ==
    /\ At(r, "lockwait")
    /\ ~RowLocked(r)
    /\ debit' = [debit EXCEPT ![r] = req[r].amount]
    /\ Goto(r, "settle")
    /\ UNCHANGED <<Tables, req, res, transaction, draft>>

\* The lock is granted and the WHERE clause re-checked on the latest version.
Recheck(r) ==
    /\ At(r, "lockwait")
    /\ ~RowLocked(r)
    /\ debit' = [debit EXCEPT ![r] = IF Funded(r) THEN req[r].amount ELSE 0]
    /\ Goto(r, "settle")
    /\ UNCHANGED <<Tables, req, res, transaction, draft>>

\* Where SETTLE leaves the draft of r, on the row count of the debit.
Settled(r) == [draft[r] EXCEPT !.status = IF debit[r] > 0 THEN "completed" ELSE "failed"]

\* Fault variant: the caller is answered before COMMIT.
SettleAndAnswer(r) ==
    /\ At(r, "settle")
    /\ draft' = [draft EXCEPT ![r] = Settled(r)]
    /\ Hold(r, Settled(r))
    /\ Decide(r, SendWithdrawal(Settled(r), FALSE))
    /\ Goto(r, "commit")
    /\ UNCHANGED <<Tables, req, debit>>

\* SETTLE: the settled row is written, and returned to withdraw().
Settle(r) ==
    /\ At(r, "settle")
    /\ draft' = [draft EXCEPT ![r] = Settled(r)]
    /\ Hold(r, Settled(r))
    /\ Goto(r, "commit")
    /\ UNCHANGED <<Tables, req, res, debit>>

\* Fault variant: the row and the balance are not one transaction.
CommitRowOnly(r) ==
    /\ At(r, "commit")
    /\ rows' = rows \cup {draft[r]}
    /\ UNCHANGED balance
    /\ EndSession(r)
    /\ Goto(r, "ack")
    /\ UNCHANGED <<accounts, opening, req, res, transaction>>

\* Postgres commits: row and balance change together, the locks are gone.
Commit(r) ==
    /\ At(r, "commit")
    /\ Publish(r)
    /\ EndSession(r)
    /\ Goto(r, "ack")
    /\ UNCHANGED <<accounts, opening, req, res, transaction>>

\* withdraw() learns that its COMMIT succeeded and returns the settled row.
Return(r) ==
    /\ At(r, "ack")
    /\ Decide(r, SendWithdrawal(transaction[r], FALSE))
    /\ Hold(r, NoValue)
    /\ Goto(r, "done")
    /\ UNCHANGED <<Tables, req, Session>>

\* Fault variant: the client is released with its transaction open.
ReleaseOnly(r) ==
    /\ At(r, "rollback")
    /\ Goto(r, "done")
    /\ UNCHANGED <<Tables, req, res, transaction, Session>>

\* The catch block: ROLLBACK, rethrow, and release in the finally block.
Rollback(r) ==
    /\ At(r, "rollback")
    /\ EndSession(r)
    /\ Goto(r, "done")
    /\ UNCHANGED <<Tables, req, res, transaction>>

-----------------------------------------------------------------------------
\* Postgres refuses a statement and the connection survives.
StatementFails(r) ==
    /\ pc[r] \in {"lookup", "claim", "debit", "lockwait", "settle", "replay"}
    /\ Decide(r, Refusal("INTERNAL_ERROR"))
    /\ Goto(r, "rollback")
    /\ UNCHANGED <<Tables, req, transaction, Session>>

\* Where the session of a request at this place goes when its client is gone.
Abandoned(place) ==
    CASE place \in Connected -> "orphan"
      [] place = "connect" -> "done"
      [] OTHER -> place

(***************************************************************************)
(* The connection breaks. The awaited query rejects, so does the ROLLBACK  *)
(* (swallowed), and the error, or the refusal already decided, is thrown.  *)
(***************************************************************************)
ConnectionLost(r) ==
    /\ pc[r] \in Connected
    /\ Decide(r, IF res[r] = NoValue THEN Refusal("INTERNAL_ERROR") ELSE res[r])
    /\ Hold(r, NoValue)
    /\ \/ Goto(r, Abandoned(pc[r]))
       \/ At(r, "commit") /\ Goto(r, "orphan_commit")
    /\ UNCHANGED <<Tables, req, Session>>

\* The API process dies: nobody it was serving is answered.
Crash ==
    /\ \E r \in Requests : pc[r] \in Connected \cup {"connect"}
    /\ \E delivered \in SUBSET {r \in Requests : pc[r] = "commit"} :
          pc' = [r \in Requests |-> IF r \in delivered THEN "orphan_commit" ELSE Abandoned(pc[r])]
    /\ transaction' = [r \in Requests |-> NoValue]
    /\ UNCHANGED <<Tables, req, res, Session>>

\* Postgres ends an orphaned session.
EndOrphan(r) ==
    /\ \/ /\ At(r, "orphan")
          /\ UNCHANGED <<rows, balance>>
       \/ /\ At(r, "orphan_commit")
          /\ Publish(r)
    /\ EndSession(r)
    /\ Goto(r, "done")
    /\ UNCHANGED <<accounts, opening, req, res, transaction>>

-----------------------------------------------------------------------------
\* The steps that serve a request: code and database working as they should.
Serve(r) ==
    \/ Connect(r) \/ Lookup(r) \/ ClaimKey(r) \/ Unwind(r) \/ Replay(r)
    \/ Debit(r) \/ Recheck(r) \/ Settle(r) \/ Commit(r) \/ Return(r)
    \/ Rollback(r) \/ EndOrphan(r)

Next ==
    \/ \E a \in Accounts, b \in Openings : CreateAccount(a, b)
    \/ \E r \in Requests, i \in Input : Receive(r, i)
    \/ \E r \in Requests : Serve(r) \/ StatementFails(r) \/ ConnectionLost(r)
    \/ Crash

Spec == Init /\ [][Next]_vars

(***************************************************************************)
(* Each request is its own chain of awaits on its own session, so none can *)
(* hold up another's scheduling; clients, faults and crashes owe nothing.  *)
(***************************************************************************)
FairSpec == Spec /\ \A r \in Requests : WF_vars(Serve(r))

-----------------------------------------------------------------------------
\* Every variable keeps its type, over every interleaving, fault and crash.
TypeOK ==
    /\ accounts \subseteq Accounts
    /\ balance \in [Accounts -> Int]
    /\ opening \in [Accounts -> Openings \cup {0}]
    /\ rows \subseteq Row
    /\ req \in [Requests -> Input \cup {NoValue}]
    /\ res \in [Requests -> Answer \cup {NoValue}]
    /\ pc \in [Requests -> Places]
    /\ transaction \in [Requests -> Row \cup {NoValue}]
    /\ draft \in [Requests -> Row \cup {NoValue}]
    /\ debit \in [Requests -> Amounts \cup {0}]

(***************************************************************************)
(* The conditional UPDATE never lets a balance go below zero, whoever      *)
(* debits the account at the same time: CHECK (balance >= 0) never fires   *)
(* and no withdrawal needs it.                                             *)
(***************************************************************************)
NoOverdraft ==
    \A a \in Accounts : balance[a] >= 0

(***************************************************************************)
(* "The debit and the ledger row commit or disappear together": what has   *)
(* left an account is exactly the sum of its completed rows, also between  *)
(* a crash and the end of the session the crash left behind.               *)
(***************************************************************************)
Conservation ==
    \A a \in Accounts :
        opening[a] - balance[a] =
            MapThenSumSet(LAMBDA row : row.amount,
                          {row \in rows : row.account = a /\ row.status = "completed"})

(***************************************************************************)
(* "At most one attempt per (account, key) is ever recorded", however      *)
(* attempts overlap, fail and are retried.                                 *)
(***************************************************************************)
OneRowPerKey ==
    \A x, y \in rows : UnderKeyOf(x, y) => x = y

(***************************************************************************)
(* 'pending' is only ever seen inside the transaction that wrote it: every *)
(* committed row says whether the money moved.                             *)
(***************************************************************************)
SettledRowsOnly ==
    \A row \in rows : row.status # "pending"

(***************************************************************************)
(* A caller is told of an outcome only once it is durable: an answer names *)
(* a committed row, which describes what that caller asked for.            *)
(***************************************************************************)
AnswersAreDurable ==
    \A r \in Requests :
        res[r] # NoValue /\ res[r].row # NoValue =>
            /\ res[r].row \in rows
            /\ UnderKeyOf(res[r].row, req[r])
            /\ ParamsMatch(res[r].row, req[r])

(***************************************************************************)
(* The 23505 that sends a request to replayStoredResult is raised against  *)
(* a committed row, and rows stay: the `!existing` branch is never taken,  *)
(* with or without a winner that rolls back.                               *)
(***************************************************************************)
NoIdempotencyConflict ==
    \A r \in Requests : res[r] # Refusal("IDEMPOTENCY_CONFLICT")

-----------------------------------------------------------------------------
(* Why these hold: the inductive invariant.                                *)

\* A request knows what it was asked from Receive on, and is undecided until
\* it leaves the body of withdraw().
Stages ==
    \A r \in Requests :
        /\ pc[r] = "idle" <=> req[r] = NoValue
        /\ pc[r] \in {"idle", "connect"} \cup (Connected \ {"rollback"}) => res[r] = NoValue
        /\ pc[r] \in {"unwind", "replay"} => Stored(r) # {}
        /\ pc[r] = "commit" => transaction[r] = draft[r]
        /\ pc[r] = "ack" =>
              /\ transaction[r] \in rows
              /\ transaction[r] = RowOf(r, req[r], transaction[r].status)

\* A draft claims its key alone: no other draft and no committed row has it.
Claims ==
    \A r \in Requests :
        /\ pc[r] = "claim" => req[r].account \in accounts
        /\ pc[r] \in {"debit", "lockwait", "settle", "commit", "orphan_commit"} =>
              draft[r] # NoValue
        /\ draft[r] # NoValue =>
              /\ pc[r] \in {"debit", "lockwait", "settle", "commit", "rollback"} \cup Orphaned
              /\ draft[r] = RowOf(r, req[r], draft[r].status)
              /\ req[r].account \in accounts
              /\ Stored(r) = {}
              /\ ~KeyClaimed(r)

\* Once a row is committed its request has only its answer left to give.
Committed ==
    \A row \in rows : pc[row.id] \in {"ack", "orphan", "done"}

\* An uncommitted debit is covered, and alone on its account.
Debits ==
    \A r \in Requests :
        debit[r] > 0 =>
            /\ draft[r] # NoValue
            /\ pc[r] \in {"settle", "commit", "rollback"} \cup Orphaned
            /\ debit[r] = req[r].amount
            /\ Funded(r)
            /\ ~RowLocked(r)

\* A debit that found the balance short still would.
Shortfalls ==
    \A r \in Requests :
        pc[r] \in {"settle", "commit", "orphan_commit"} /\ debit[r] = 0 => ~Funded(r)

\* What is about to be committed is settled.
Settlements ==
    \A r \in Requests :
        pc[r] \in {"commit", "orphan_commit"} => draft[r] = Settled(r)

(***************************************************************************)
(* The claims of the unique index and the locks of the account rows are    *)
(* exclusive at every stage of every request, orphaned sessions included,  *)
(* and what a request was told about the balance stays true until it ends. *)
(***************************************************************************)
IInv ==
    /\ TypeOK
    /\ Stages
    /\ Claims
    /\ Committed
    /\ Debits
    /\ Shortfalls
    /\ Settlements
    /\ NoOverdraft
    /\ OneRowPerKey
    /\ SettledRowsOnly
    /\ AnswersAreDurable
    /\ NoIdempotencyConflict

-----------------------------------------------------------------------------
(***************************************************************************)
(* Every withdrawal looks as if it happened in one indivisible step, and   *)
(* every answer agrees with that step (module Ledger).                     *)
(***************************************************************************)
L == INSTANCE Ledger
        WITH accounts <- accounts, balance <- balance, opening <- opening,
             rows <- rows, req <- req, res <- res

ImplementsLedger == L!Spec

(***************************************************************************)
(* A request that asks the pool for a client ends, whatever the size of    *)
(* the pool: nothing that holds a client waits for another client, and     *)
(* keys and account rows are locked in that order by everybody.            *)
(***************************************************************************)
EveryRequestServed ==
    \A r \in Requests : At(r, "connect") ~> At(r, "done")
=============================================================================

# A verification of the ledger

The repository is a small ledger service: an Express API over Postgres (`src/`,
`db/schema.sql`) that takes withdrawals, signs users in with Google, and serves one web page
(`public/`). This directory holds TLA+ models of the parts of it where the order of events
matters, TLC runs that check them on small instances, and TLAPS proofs for every instance.
Paths below are relative to the repository's root.

## 1. The system

| Component | State | Operations | Talks to |
| --- | --- | --- | --- |
| Withdrawal service, `src/service.ts` | tables `accounts`, `transactions`; one transaction per request | `createAccount`, `getAccount`, `listTransactions`, `withdraw`, `replayStoredResult` | Postgres through the pool |
| Sign-in, `src/users.ts` | tables `users`, `accounts.user_id` | `signIn`, `openAccount`, `accountOwner`, `findIdentity` | Postgres through the pool |
| Google's keys, `src/googleAuth.ts` 76-156 | `cached`, `inFlight`, `lastFetchedAt` | `signingKey`, `loadJwks`, `fetchJwks` | Google's JWKS endpoint |
| Token check and nonce, `src/googleAuth.ts` | none (the nonce is an HMAC of its time) | `issueNonce`, `verifyGoogleIdToken` | the key cache |
| Sessions, `src/session.ts` | the process's secret; the cookie itself | mint, read, clear | the routes |
| Routes and guard, `src/routes.ts`, `src/authRoutes.ts` | none | `guardOwnedAccount`, `requireSession`, one handler per route | all of the above |
| Validation, `src/validation.ts` | none | three parsers | the routes |
| Pool, startup, shutdown, `src/db.ts`, `server.ts`, `migrate.ts` | the pool's clients | `connect`, `release`, `migrate`, `shutdown` | Postgres |
| Web page, `public/app.js` | `state.idempotencyKey`, `state.account`, the form, the view | `submit`, `handleWithdrawal`, `refresh`, `enter`, `sessionEnded`, `signOut`, `boot`, decimal helpers | the API |

**What is hard.** Every request is a chain of awaited statements on a connection of its own, so
requests interleave at every statement and meet in Postgres: on the lock of an account row, on
the unique index of `(account_id, idempotency_key)`, on the unique `google_sub`. A statement can
fail, the connection can break (before, during or after COMMIT), the process can die and be
restarted while Postgres still holds its sessions, and the pool can run out. In front of that
the page submits again when a reply is lost, while the first request may still be on its way and
the session may end. The key cache shares one fetch between concurrent callers of one event loop
and must survive failures, early rotation and odd `max-age` values. Numbers are
typed as texts, sent as doubles, stored as decimals. Clocks differ, nonces and tokens run out while something is
awaited, and a process that is told to stop has connections, handlers and transactions under way. `hazards` in
`PROJECT.json` lists each of these at its line, with the properties that watch it.

**What correctness means**, per component: *service*: money leaves an account exactly as its completed
rows say, never more than it holds, one row per key, no answer before its row is durable, every
request ends; *sign-in*: one account per user, no user without account, every visit
ends; *key cache*: one fetch at a time, fetches spaced, rejections on fresh keys, no cached failure;
*page*: an attempt is charged once, and "declined" is the truth; what is shown under a name is that
person's as far as the page asked with that person's cookie, and no older than what was shown before; *guard*: nobody but
the owner moves an owned account; *token*: a genuine token is accepted, a late one is not, and a page is
loaded anew for its nonce alone; *decimals*: the amount sent, stored and shown is the amount typed; *process*: it
stops when told to, and cuts nobody off.

## 2. The modules

```
LedgerData ──► Ledger (abstract) ──────────────► WebClient ◄── MCWebClient, WebClientProofs
     └───────► Withdraw ──INSTANCE Ledger        (page over the abstract ledger)
                  └── MCWithdraw, WithdrawProofs
Directory (abstract) ──► SignIn ◄── MCSignIn, SignInProofs
Jwks ◄── MCJwks, JwksProofs                      Page ◄── MCPage, PageProofs
Access ◄── MCAccess, AccessProofs                Amounts ◄── MCAmounts, AmountsProofs
Token ◄── MCToken                                Lifecycle ◄── MCLifecycle
  └────────── ServerProofs (both) ◄────────────────┘
```

Operators introduced by a comment "Fault variant" are plausible bugs of the definition that
follows them. Nothing refers to them: they document, and let one check, that each property
would notice.

### LedgerData, Ledger
`LedgerData` is the vocabulary: a validated input, a row, an answer, and when a row matches an
input. A row is named by the request that inserted it. `(network, address)` is one value, since
`params_match` compares both for equality. `Ledger` is what the service promises to a client, without
database, pool or failure: one step, `Record`, that records an outcome under `(account, key)` and moves
the money exactly when the balance covers it; any other request under that key gets that outcome
replayed or `IDEMPOTENCY_KEY_REUSED`; and `INTERNAL_ERROR`, after which the step may still happen
(a client that got a 500 does not know).

### Withdraw (`src/service.ts`, over `db/schema.sql` and the pool)
One action per statement of `withdraw()`:

| Action | Code |
| --- | --- |
| `Receive`, `Connect` | the route calls `withdraw`, `pool.connect()` waits for one of `PoolMax` clients |
| `Lookup` | `BEGIN`, `SELECT 1`, 404 |
| `ClaimKey` | `CLAIM_KEY`: waits for an uncommitted row of the key, 23505 against a committed one |
| `Unwind`, `Replay` | `ROLLBACK` and `replayStoredResult` on the same client |
| `Debit`, `Recheck` | `DEBIT`: `WHERE` on the snapshot, wait for the row lock, `WHERE` again |
| `Settle`, `Commit`, `Return` | `SETTLE`, `COMMIT` in Postgres, the caller learns of it |
| `Rollback` | the `catch` block and the `finally` block |
| `StatementFails`, `ConnectionLost`, `Crash`, `EndOrphan` | a refused statement; a broken connection, with a COMMIT delivered or not; a dead process; Postgres ending a session whose client is gone |

`accounts`, `balance`, `rows` are the committed tables; `draft[r]` and `debit[r]` are what the
transaction of `r` has written and not committed, and they are its locks: a draft is its entry in the
unique index, a non-zero debit its lock on the account row. Postgres is modelled as the code uses it:
READ COMMITTED (the default; the code sets nothing else), blocking unique inserts, the re-check of
an `UPDATE` after a lock wait. The balance an uncommitted debit leaves is checked against the committed
one because whoever debits holds the lock. There are no deposits, so a balance only falls.
`L == INSTANCE Ledger WITH ...` is the refinement mapping: the abstract tables and answers are the committed tables and
the answers given; everything uncommitted has no counterpart.

What the model shows about comments in the code: the `IDEMPOTENCY_CONFLICT` branch
(`src/service.ts:153-161`) is never taken (`NoIdempotencyConflict`), since Postgres raises 23505
against committed rows only. README.md:114 calls the claim "the transaction's first
statement"; it is the second, after the `SELECT` that looks for the account.

### Directory, SignIn (`src/users.ts`)
`Directory` is the promise: a visit enters in one step that refreshes the user and opens the
account if there is none. `SignIn` is `signIn` and `openAccount` by statement, with the same faults as
`Withdraw`. `upserted` is the set of visits holding their user's row, `opened` those holding an entry
in `accounts_user_id_key`. A user is known by the `sub` of Google, its name stands for the display
columns the upsert refreshes. The model shows that the catch block of `openAccount` is never entered
(`NoAccountConflict`): visits of one user queue at the upsert. That matters, because the
comment at `src/users.ts:84-85` ("the loser reads the winner's account") describes a read Postgres would
refuse, the transaction having been aborted by 23505; `Open` models it as refused.

### Jwks (`src/googleAuth.ts` 76-156)
`signingKey` has two awaits, so a sign-in is at `first`, `second` or `done`. `fetches` is every
request made to Google and how it stands; continuations of a settled fetch run before the event loop
takes the next request (`Quiet`), and the clock does not move meanwhile. Google is outside: `Respond`, `Rotate`.

### Access (`src/routes.ts`, `src/authRoutes.ts`, `src/session.ts`)
Calls of browsers, each carrying the cookie the browser held when it sent it. `ReadOwner` and `Guard` are the two halves of
`guardOwnedAccount` around its await, `Handle` the handler behind it and behind `RequireSession`; `Me` and `MeAccount` are
the two SELECTs of `findIdentity`. Signing in is one step (`Google`), as `SignIn` shows it to be. `Deliver` lets answers set and
clear the cookie in any order. The process may be restarted, with a secret of its own drawn anew or `SESSION_SECRET` kept;
users may be removed from the database by its operator, since the code expects it (`src/authRoutes.ts:80-82`). Ids are
UUIDs, so they are issued once and a client names an id only after it was issued: the guard lets an unknown id through
(`src/routes.ts:62`), and the handler finds no account under it either. A 401 of `Me` clears the cookie of the browser that
it reaches, whichever that is by then; `ClearedForGood` says that no such 401 is ever sent for a user who is still there.

### WebClient (`public/app.js`)
One page, signed in as one user, over a network that loses replies and delays requests, against
`Ledger` as the server (which `Withdraw` implements) and a session that may end. `Submit`, `NoReply` and the
`Handle...` actions are `submit()` and `handleWithdrawal()`; `HandleUnauthenticated` is `sessionEnded()`, `Reload` is
`signOut()` and a reload by the user. `attempt`, `origin` and `told` are history: an attempt is what the
user means by one withdrawal, and ends when the page says how it came out, the form is edited, or the page
is loaded anew. `crypto.randomUUID()` returns a key not returned before.

### Page (`public/app.js`)
What the same page shows: name, balance, history and notice, while answers are late, lost or refused and people sign in one
after the other without a reload, on this page or in another tab of the browser: the tabs share the cookie. The idempotency key and the form are left to `WebClient`; here a ledger is how many
rows and how many debits an account has, and a reading is one of these numbers at the moment the server read it.

| Action | Code |
| --- | --- |
| `Boot`, `OnCredential` | `boot` and `onCredential` up to their awaits: who is there? |
| `NotAdmitted`, `NotAnswered` | after them: nobody (the sign-in screen, or why it was rejected), or no answer (`boot().catch`) |
| `StartSignIn`, `Started` | `startSignIn` before and after its awaits |
| `Enter`, `LandEnter` | `enter` before and after its await |
| `Submit`, `HandleRecorded`, `HandleRefused`, `SessionEnded` | `submit`, `handleWithdrawal` by answer, `sessionEnded` |
| `Begin`, `LandRefresh` | `refresh`: the two requests; `Promise.all`, `renderAccount`, `renderTransactions`, and the addendum of the caller |
| `Reload` | a reload, by the user, `signOut()` or a stale nonce |
| `Serve`, `Answer`, `SignIn`, `Elsewhere` | the server: `POST /me/withdraw`, the GETs, `POST /auth/google`, other pages |
| `SessionChanges` | the cookie: it ends or becomes anybody's, at any time, by expiry, a restart or another tab |

The GETs of one `Promise.all` are answered independently and in any order. The button is disabled while a submission is
awaited and enabled before `refresh()` is called (`public/app.js:408-414`), so two refreshes may be under way; `overlap` remembers that
they were. `astray`, `missed` and `older` are history as well: `astray` is set when the page sends a submission or asks for a reading with the cookie of somebody else
than it shows, or somebody enters while a reading of somebody else is under way. A request goes out with the cookie of the moment, and the two GETs of one `Promise.all` with the same one.

### Token (`src/googleAuth.ts` 1-75, 158-275, `src/authRoutes.ts`, `onCredential`)
Three clocks' worth of windows: the nonce is issued with the page by the server's clock, the token minted by Google's, which
is `drift` ahead, and both are judged after `await signingKey(kid)`, which may take any time (`Jwks` says how it ends). Each tab goes
`blank -> ready -> holding -> asking -> ` a verdict; requests are lost, pages reloaded, and the server restarted with the same or another
`GOOGLE_CLIENT_ID` and `SESSION_SECRET`. `Verdict` keeps the order of the checks, which decides between "reload" and "rejected": the party and the windows of
the token come before the nonce, the identity after it (`src/googleAuth.ts:257`, 259-267), so a page whose nonce is stale is loaded anew for a token that is not verified, too. Time is in
whole seconds because claims are, and because `Math.floor` makes of the code's clock whole seconds before it compares them. A signature or
an HMAC is good when its secret is the right one; malformed tokens are refused before any of this.

### Amounts (`public/app.js` 12-110, 318-380, `src/validation.ts`)
An amount from the field to the row and back to the page. `NormalizeDecimal`, `AsPlainDecimal`, `SplitAmount` and `Validate` are the page's functions on
sequences of symbols; `Nearest` is `Number()`, `Shortest` is `String()`, by their definitions in IEEE-754 and ECMAScript, for doubles of `Precision` bits.
`Type` enters a symbol, `Submit` runs the page's checks of amount and address, `Parse` the server's. A sign, a letter or an exponent is one
symbol: the pattern refuses them all alike. Blanks around the amount are trimmed at once and left out; around the address they are kept, since both sides check it.

### Lifecycle (`src/server.ts`, `src/migrate.ts`, `src/db.ts`)
`Migrate` then `listen`; `Signal`, `Drained` and `Exit` are `shutdown`, the callback of `server.close` and `process.exit(0)` behind `pool.end()`. A connection is closed,
idle or busy; its handler is queued for the pool or holds a client, takes one after another, and works on when its client has gone. Outside of the code: `server.close` of
Node turns new connections away and closes idle ones, `pool.end()` refuses later `connect()`s and resolves once no client is out, a second `end()` is rejected, which
ends the process with a failure because nothing handles it, unless the first has resolved, and exited, before that is reported; before `main` has installed its handlers a signal ends the process.

## 3. The runs

| Run | Question | Bounds |
| --- | --- | --- |
| `withdraw_safety` | do balances, rows and answers agree over all interleavings and faults, is `IInv` an invariant, and does the service implement `Ledger`? | 3 requests, 2 accounts, 2 keys, amounts 1 and 2, opening 2, pool of 2 |
| `withdraw_liveness` | does every withdrawal end? | 3 requests, 2 keys, 1 account, a balance that covers one, pool of 2 |
| `signin` | one account each, `Directory` implemented, and does every visit end? | 3 visits, 2 users, one of them under 2 names, pool of 2 |
| `jwks_safety` | one fetch, spaced, fresh rejections, no cached failure, and is `IInv` an invariant? | 3 sign-ins, 2 key ids, 5 ticks, cooldown 2, TTL 2 to 3 |
| `jwks_floor` | is the cooldown a floor between two forced fetches? **No.** | as above |
| `access_safety` | is an owned account moved by its owner's live session only, do user-based and account-based routes agree, is a cookie cleared only for a user gone for good, and is `IInv` an invariant? | 3 calls, 2 browsers, 2 people, 2 user ids and 2 account ids, one restart, sessions of one tick |
| `web_safety` | is an attempt charged once per sign-in, and "declined" the truth? | 3 submissions, 3 keys, 3 attempts, 2 sign-ins, 2 destinations |
| `web_resend` | is an attempt charged once? **No.** | as above |
| `page_safety` | does the page show its own user's account while it asks with that user's cookie, no balance older than before, and what it announces? | 2 users, a cookie that becomes anybody's, 2 readings at once, 1 row per account |
| `token_safety` | is a genuine token accepted, a late one not, and a page loaded anew for its nonce alone? | 1 tab, 6 seconds, skew 1, nonces of 3 and tokens of 2 seconds, drift up to 2, 2 client ids, a secret or none |
| `amounts_safety` | is the amount sent, stored and shown the amount typed, and does the server refuse nothing the page let through? | digits 0, 1, 5, 9; 6 symbols; doubles of 4 bits from 1/16 to 3840 |
| `lifecycle` | does the process stop when told to, and without cutting anybody off? | 3 connections, 2 requests each, 2 clients per request, pool of 1 |

*Why these bounds are enough to be interesting.* Three requests are the least that give a winner, one that
waits for it and one that comes after; two keys let two of them meet on the account row and not on the index,
one key on the index and not on the row. A balance of 2 with amounts 1 and 2 gives a debit that exhausts it,
one that no longer fits after a wait, and two that fit together. A pool smaller than the number of requests
makes them queue. Requests, accounts and keys are interchangeable, hence symmetry in the safety runs; the runs with liveness
use none. `signin` instead leaves out what renaming users, names and visits brings back (`OneGuest` in `MCSignIn`). With three sign-ins one can start a fetch, one join it and one come after it; a cooldown of
two ticks has an inside and an edge. Three submissions are what `web_resend` needs: lost, refused, sent again.
In `access_safety` three calls are two sign-ins
and the withdrawal of one on the account of the other, or a sign-in, a removal, a return and a look at `/me`.
In `page_safety` two readings are the least that overlap, a row is the least that makes one reading older than another, and the cookie passes
between two people and nobody at any point; `MCPage` does not go on from states after an overlap, of which `OutcomesAreShown` and `NeverOlderAlone` say nothing. What `OwnAccountShown` and
`ColdStartIsBuilt` say of them is proved (`PageProofs`) and not run. Tabs share nothing in `Token` but the server's configuration and clock, so one is enough; the drift goes
from inside the allowance to past it, and six seconds let nonce and token run out and a second page be served. Four-bit doubles with exponents from -4 to 8 have everything wide
ones have: gaps above and below one, ties, underflow to zero, overflow to infinity, more digits than `MaxFraction` shows.
A pool of one makes the handlers of three connections queue, and a second client per request makes them queue again while the process closes.

Bounds named in the modules: `Horizon` (`Jwks`, `Access`), `MaxRestarts` (`Access`), `MaxAttempts` and `MaxSessions` (`WebClient`), `Loads` and `MaxRows` (`Page`), `MaxTime` and
`MaxDrift` (`Token`), `Digits`, `MaxLength`, `MaxWhole` and `Places` (`Amounts`), `MaxTakes` and `MaxRequests` (`Lifecycle`).
Deadlock is not checked: each model stops once its requests are done, its time is up or its process has exited.

`TypeOK` (`ProcessTypeOK` in `Lifecycle`, whose definitions are named apart from those of `Token` so that one module can prove
about both) is in every module. It is a theorem for all of them, and in `withdraw_safety`, `jwks_safety` and `access_safety`
TLC checks it as the first conjunct of `IInv`. The other inductive invariants stand in the proof modules; TLC found no
violation of them on the instances of the runs before they were proved.

**Fairness.** `FairSpec` of `Withdraw` and `SignIn` assumes weak fairness of each request's own steps:
a request is a chain of awaits on a session of its own, the event loop and Postgres run every chain that can go on,
and Postgres ends a session whose client is gone. A step that waits for a lock or for the pool is disabled
while it waits; weak fairness suffices because requests are finitely many and a lock or a
client, once free and wanted, is taken by one of the waiters (Postgres's and the pool's queues
are first come, first served, which is stronger). Nothing is assumed of clients, failures or crashes.
`Fairness` of `Lifecycle` is weak for the callbacks, for `release` and for Node's closing of idle connections, and strong for `Take`: with one
client and several handlers a handler's turn comes and goes, and the pool's queue, first come, first served, gives it one in the end. Clients
send finitely many requests on a connection (`MaxRequests`): one that never pauses would keep its connection busy, and the shutdown waiting, for ever.

**What the two violations show.**
- `jwks_floor`: `lastFetchedAt` is set on success only (`src/googleAuth.ts:120`), so a failed forced
  refetch does not start the cooldown that the comment at lines 17-19 calls "the floor between two of
  them". What does hold is `FetchesSpaced`: a *loaded* key set keeps the next fetch away for a cooldown.
- `web_resend`: `sessionEnded()` (`public/app.js:545-552`) drops the key of an attempt whose outcome is
  unknown while the form keeps its values. Reply lost, server records; resubmitted under the same key,
  401; signed in again, resubmitted under a new key: charged twice, against the comment at lines 124-126
  and README.md:119-121. What does hold is `ChargedOncePerSignIn`.

**What the page keeps, and what it does not.** The properties of `Page` are stated as far as the code keeps them. Each loses its proviso to a behaviour
of the model; dropping the proviso from the property has TLC print it:
- `NeverOlderAlone` without `~overlap` (and without `CONSTRAINT Alone`): two refreshes are under way, the earlier lands last, and the older balance gets
  the later "as of" stamp. The comment at `public/app.js:234-235` promises a stamp of "the moment it was actually read".
- `OwnAccountShown` without `~astray`: a page shows one person; in another tab that person signs out and another signs in; the first page submits. The withdrawal is the
  second person's, and `refresh()` (`public/app.js:489-501`) renders that person's balance and history under the name of the first, and says nothing: it does not compare the account with the user shown. README.md:4
  says that the UI "shows you your own account". The same happens without a second tab when a reading is late: a refresh is under way, the session ends, another person signs in on the page, and the
  answer for the first one lands. What does hold is that nothing else puts one person's balance under another's name.
- `OutcomesAreShown` without `~astray` (in `ShowsRow`): the other tab's sign-in comes between the submission and `refresh()`, and the notice "Withdrawal recorded" of the first person's withdrawal
  stands over balance and history of the second, with no addendum.
- `OwnAccountShown` without `~missed`: a session ends, another person signs in on the same page, `GET /me/transactions` is not ok, and `enter()`
  (`public/app.js:536`) leaves the rows of the first person under the name of the second. They stay until a history is read.
- `OutcomesAreShown` without `~missed`: a withdrawal is declined, its history does not load, and the notice still says "The attempt is on the ledger
  below" (`public/app.js:452`): what `refresh()` returns is ignored there, though not after a recorded one.
- `ColdStartIsBuilt` without `user = NoValue`: a session ends, `GET /auth/config` is lost, and the sign-in screen has neither a button nor an
  explanation, since only `boot()` catches what `startSignIn()` throws; the comment at `public/app.js:542-543` wants it "built the same way a cold start builds it".

## 4. The proofs

Each proof module has one inductive invariant `IInv` (`ServerProofs` one for each of its two specifications), a lemma per conjunct (or per action) that steps keep it, the theorem
`Spec => []IInv`, and the properties as consequences. What is assumed of the constants is in the `ASSUME` of the module, and no more than this: sizes and times are natural
numbers, positive where the code's are, and a sentinel (`NoValue`, `None`: the code's `undefined` and `null`) is none of the values it stands beside. The bounds of section 3
are constants of the theorems too: they hold for every value of them.

### `WithdrawProofs`

For every set of requests, accounts, keys, destinations, every set of positive amounts and
non-negative openings (`DataAssumption`: what validation lets through) and every pool size (`PoolAssumption`):

| Theorem | Says |
| --- | --- |
| `Invariance` | `Spec => []IInv` |
| `TypeCorrect`, `NeverOverdrawn`, `RecordedOnce`, `Durability`, `NeverConflicting` | `TypeOK`, `NoOverdraft`, `OneRowPerKey`, `AnswersAreDurable`, `NoIdempotencyConflict` always hold |
| `Refinement` | `Spec => ImplementsLedger`: each step of the service is a step of `Ledger` or none |
| `BooksBalance` | `Conservation` always holds: opening minus balance is the sum of the completed rows, for any number of them |

*The argument.* None of these is inductive alone: nothing in `OneRowPerKey` stops a `Commit` that publishes
a second row. `IInv` adds what the locks mean. `Claims`: a draft is the only draft of its key and no
committed row has that key, until the session ends, orphans included. `Debits`: an uncommitted
debit is alone on its account and covered by the committed balance. `Shortfalls`: a debit that found the
balance short still would, since no commit raises a balance. `Settlements`: what is about to be committed
is settled according to the debit. `Stages` ties a request's place to what it knows, and `Committed` says a row
is committed only once its request has nothing but its answer left to give. Then a `Commit` (or the
end of a session whose COMMIT was delivered) is exactly `Record`, `Return` and `Replay` are
`AnswerRecorded`, and all else that touches no table and no answer is a stutter.
The proof has a lemma per conjunct, a step per action in each; `TablesChange` and
`AnswersChange` list the few actions that touch the tables or an answer at all.

*The sum.* `Conservation` adds up a set of rows by a fold, and a fold is a recursive definition. `Total` is characterised without induction on an operator:
a tally is a function on the subsets of a finite set that takes each to the amount of a chosen element plus the tally of the rest (`IsTally`). That there
is one, that all agree, and that taking *any* element off leaves the rest (`AnyOrder`) is shown each time from a smallest subset for which it fails (`SmallestSubset`: strict
inclusion of finite sets is well founded, a fact of the library). Then `Balanced` is inductive: rows are finite, of accounts that exist, and opening minus balance is
the `Total` of the completed ones. A `Commit` adds one row and takes off its amount (`CommitMoves`); nothing else touches either.

### `ServerProofs`
*`Token`*, for any number of tabs, any lifetimes, allowance, drift and time (natural numbers, `TokenAssumption`) and any configurations: `Windows` (`Spec => []IInv`), `TypeCorrect`, and from it
`Punctual` (`AcceptedInTime`), `Lenient` (`GenuineAccepted`) and `ForTheNonce` (`ReloadedForTheNonce`). The three properties compare what the page was given with what was judged,
and alone say nothing of the token in between. `Carries` does: a token that is on its way or judged is the one minted for this very page, with its client and its nonce, its claims
counted from the moment of minting plus the drift. Then a verdict is a comparison of sums.

*`Lifecycle`*, for any set of connections, any size of the pool and any number of takes and requests: `ProcessInvariance`, `ProcessTypeCorrect`, and from it `TablesAreThere` (no handler before the schema) and `Served`
(`NobodyCutOff`). `LifeIInv` says what each phase means: nothing is connected before the schema is there, nobody is connected once the pool is ended, nothing outlives the
process. So whoever is refused a client has no caller left.

### `SignInProofs`
For any visits, subjects, names, ids and pool size: `Invariance`, `TypeCorrect`, `OneAccount` (`OneAccountEach`), `NeverConflicting` (`NoAccountConflict`) and `Refinement`
(`ImplementsDirectory`). `OneAccountEach` alone does not stop a second visit that has already looked and found nothing. `RowLocks` does: from its upsert to its end a
transaction holds its user's row, so of two visits of one user at most one is between looking and committing, and `Openings` can say that an account is opened, uncommitted, for a
user who has none. `InHand` ties the account a visit will answer with to the table. With these a commit is one step of `Directory`, and so is an answer; everything else is none.

### `JwksProofs`
For any sign-ins, key ids, `max-age` values and bound, any positive cooldown no longer than the least lifetime, which is no longer than the greatest (they are, `src/googleAuth.ts` 12-20):
`Invariance`, `OneFetch` (`SingleFetch`), `FreshFailures` (`FailuresAreFresh`), `Spacious` (`FetchesSpaced`) and `FreshRejections` (`RejectedOnFreshKeys`).
`Flight` says that what Google has to answer is exactly `inFlight`. `Settling` is the heart of it: a fetch that is done and still awaited is the last one, nothing is in flight, and its key set is
the cached one. It holds because the sign-ins that awaited a fetch resume before anything else of the event loop (`Quiet`), so no second fetch starts in between. `Spacing`, a key set outlives
the cooldown its load began, is where the order of the three constants is needed: a fetch for an expired set is then spaced like a forced one.

### `AccessProofs`
For any calls, browsers, subjects and ids, any positive lifetime of sessions, any number of restarts: `Invariance`, `OwnersOnly` (`MovedByOwner`), `Paired` (`SessionsNamePairs`), `OneAccountPerSession`
(`MeShowsTheSessionsAccount`), `SessionsEnd` (`EndedSessionsMoveNothing`) and `OutlivedCookies` (`ClearedForGood`). The guard reads the owner, waits, and the handler acts
on what was read. `Guards` says how that can be out of date: ids are not issued twice and an account never changes hands, so its owner is still the one seen or is gone with the account.
`Holders` says of every session at large, in a cookie, on a call or in an answer, that its ids were issued together to somebody who signed in at that browser.

### `WebClientProofs`
Over the abstract ledger, for any submissions, keys, accounts, destinations, amounts, attempts and sign-ins: `Invariance`, `TypeCorrect`, `ChargedOnce` (`ChargedOncePerSignIn`) and `DeclinedForGood`
(`DeclinedMeansNotCharged`). `Alike` and `Resends`: everything sent in one attempt and one sign-in asks for the same under the same key, except what can no longer be recorded because another withdrawal has its key (`Void`,
after `IDEMPOTENCY_KEY_REUSED` the page goes on under a new key). `Records`, one row per key, then gives one charge. `Awaited` covers the form that is edited while a reply is out, and `Verdicts` what "declined" fixes for
the requests of the attempt that are still on their way. That keys are fresh is not needed: a key met again could only make requests void. That this is per sign-in is the provision `web_resend` shows to be necessary.

### `PageProofs`
For any users, readings, rows and bound: `Invariance`, `TypeCorrect`, `AnnouncedIsShown` (`OutcomesAreShown`), `OwnersAccount` (`OwnAccountShown`), `NeverOlder` (`NeverOlderAlone`) and `ColdStart`
(`ColdStartIsBuilt`), and here also for what follows an overlap, which the run leaves out. `Books`, `Gets`, `Entered` and `Own` hold whatever overlaps: the ledger only grows and nothing shown, said or read
is ahead of it; a page nobody has entered asks only who is there; and unless the page is `astray`, the balance is of its user and so is everything awaited, an answer to nobody's cookie aside. `Own` is what `OwnAccountShown` needs
to be inductive: a balance on its way is as good as one on the page. The rest is what holds until two readings have overlapped (`Lonely`): the one reading that may be under way knows no less than the
page shows of whom it is of (`Ahead`), what is announced is of the page's user unless it is astray (`OneUser`), and what was announced is on the page once nothing is awaited (`Shown`). While readings come one at a time people change
places only when nothing is awaited, because a page that went back to the sign-in view with a submission outstanding or an outcome announced offers no way in: it got there by `boot().catch`
(`public/app.js:711-714`), whose screen has no button (`Barred`).

### `AmountsProofs`
For any digits, any lengths, any number of places, any `MaxFraction` within them, and doubles of any precision and any range of exponents that leaves every double a whole number of units
(`AmountsAssumption`; 53 bits, -1074 and 1074 places are an instance): `Invariance`, `TypeCorrect`, `StoredExactly` (`StoredIsTyped`), `CaughtByThePage` (`CaughtHereFirst`), `ExactNumbersAreSent`
(`ExactIsSent`), `NormalFormIsTheNumber` (`NormalForm`) and `DigitsShownTruly` (`ShownTruly`). `IInv` only carries the verdict along: what is sent has passed the check of the text in the field, and is the double that text
is read as. All of the work is in what the functions compute on every text and every double:

- *Induction.* `Numeral`, `Grouped` and `WithoutCommas` are folds, `Power` and `Written` recursive functions. `Induction`, `StrongInduction` and `BoundedInduction` are stated of the *set* of the numbers with a property, so no operator
  has to be instantiated. Each use defines that set. `FoldExists` and `PositionsUpTo` give the values of a fold after each prefix of its sequence, and with them each fold is a recursion that one such set settles.
- *Texts.* A text is a whole part and a fraction (`HalvesOfPlain`), a numeral without leading zeros is `Written` of its value, a fraction without trailing ones is the trimmed `Padded`. Hence `NormalizeIsDecimal` (`normalizeDecimal` gives the decimal
  of the value), `ValueOfDecimal` and `DecimalInjective` (a decimal has one value), and together `OneNormalForm`.
- *Doubles.* They are a finite set of natural numbers with zero in it (`DoublesAre`), so the neighbours of a number exist. `NearestBetween`: everything between a number and the double it is read as is read as that double, ties included.
  So if any multiple of a step is read as `d`, one of the two around `d` is; the step of `Shortest` is a largest one of a finite set that is never empty. That is `ShortestIs`, and `RoundTrip`.
- *The check.* `validate` compares the normal form of the text with that of `toLocaleString`, which cuts after `MaxFraction` places. `ValidateIsExact`: when they agree, the cut value is read as `d` (it is the value that was typed), the step of `Shortest` is no
  finer than the cut, and nothing was cut: the number that `String()` gives the server is the one that was typed. `ExactIsValid` is the converse.
- *What is shown.* `GroupedIs`: dropping the commas gives the whole part back, and each comma has whole groups of three behind it, by an invariant of the fold that knows how long the text will be. `TailIs`: digits sent and digits kept are a
  prefix of the fraction, all of it exactly when no ellipsis is there.

### Only model-checked
`EveryRequestServed`, `EveryVisitEnds` and `ShutsDown`: liveness is out of the prover's reach. Every other property of a passing run is a theorem.

## 5. Not modelled, and the plan

Left out for good: rendering and style, wording of errors, container and build files, the cryptography
(HMAC, RSA, constant-time comparison are the platform's), query timeouts (none are configured), and the order of the
history: it is `created_at DESC, id DESC`, `created_at` is the time of BEGIN, and nothing in the repository promises that two
withdrawals under way at once are listed in the order of their debits. Of validation, `Amounts` has the amount and the address; lengths, UUIDs and the
owner's name are checks of one field that keep no state. Error classes and row types appear as the answers of the services that use them.

Next: the page's two models side by side (`WebClient` has the form and the key, `Page` the view; a theorem that the outcome announced in one is the one told in the other would need them composed), and shorter proofs
where the cases of `PageProofs` and `WithdrawProofs` repeat themselves.

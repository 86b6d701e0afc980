----------------------------- MODULE PageProofs -----------------------------
(***************************************************************************)
(* What the page shows is of whoever it names unless it asked with another *)
(* cookie; it is never older than what was shown, and has what was         *)
(* announced, while readings do not overlap; and a page never entered does *)
(* not stay blank. For any people, any number of readings and any ledger.  *)
(***************************************************************************)
EXTENDS Page, TLAPS

-----------------------------------------------------------------------------
(* The inductive invariant.                                                *)

\* The notice says how a submission came out.
Announced == notice # NoValue /\ notice.kind \in Outcomes

\* A ledger that stands at x has come as far as y.
Covers(x, y) == x.rows >= y.rows /\ x.debits >= y.debits

\* Nothing on the page is ahead of the ledger, which only grows.
Books ==
    /\ \A u \in Users : ledger[u].debits <= ledger[u].rows
    /\ account # NoValue => account.debits <= ledger[account.user].debits
    /\ sub # NoValue /\ sub.kind \in Outcomes => Covers(ledger[sub.user], sub.at)
    /\ Announced => Covers(ledger[notice.user], notice.at)

\* What a reading is of.
Gets(l) ==
    load[l] # NoValue =>
        /\ load[l].account # NoValue <=> Asks(l) \/ load[l].after \in Outcomes
        /\ Asks(l) => load[l].after \in {"boot", "signin"}
        /\ \A p \in {"account", "history"} : IsRead(l, p) => load[l].who # NoValue
        /\ IsRead(l, "account") => load[l].account.n <= ledger[load[l].who].debits

\* A page nobody has entered asks for nothing but who is there, and it is being
\* built or has been; any other has a balance on it.
Entered ==
    /\ user = NoValue =>
          /\ view # "app" /\ starting # "ended"
          /\ sub = NoValue /\ notice = NoValue
          /\ \A l \in Loads : load[l] # NoValue => Asks(l)
          /\ view = "signin" /\ starting = "no" => screen # "empty"
    /\ user # NoValue => view # "blank" /\ account # NoValue
    /\ view = "blank" => starting = "no"

\* No history is awaited.
AtRest == \A l \in Loads : load[l] # NoValue => Asks(l)

\* Unless the page asked with the cookie of somebody else, all of what is shown
\* and read is of its user.
Own ==
    user # NoValue /\ ~astray =>
        /\ account.user = user
        /\ \A l \in Loads : load[l] # NoValue /\ ~Asks(l) => load[l].who \in {user, NoValue}
        /\ AtRest /\ ~missed /\ rows # NoValue => rows.user = user

\* A page that went back to the sign-in view with something said or awaited
\* offers no way in.
Barred ==
    (sub # NoValue \/ Announced) /\ view = "signin" => screen = "fallback" /\ starting = "no"

\* And so is what is said and awaited.
OneUser ==
    ~astray =>
        /\ sub # NoValue /\ sub.kind \in Outcomes \cup {"sent"} => sub.user \in {user, NoValue}
        /\ Announced => notice.user = user

\* The one reading under way knows no less than the page of whom it is of, and
\* whoever is asked to sign in has nothing said or awaited.
Ahead(l) ==
    load[l] # NoValue =>
        /\ IsRead(l, "account") /\ account # NoValue /\ account.user = load[l].who =>
              load[l].account.n >= account.debits
        /\ Asks(l) => sub = NoValue /\ view # "app" /\ ~Announced
        /\ load[l].after = "boot" =>
              /\ ~Announced
              /\ view = "app" \/ sub # NoValue \/ Asks(l) => starting = "no"
        /\ Announced =>
              /\ load[l].after = notice.kind
              /\ load[l].who = notice.user =>
                    /\ IsRead(l, "account") => load[l].account.n >= notice.at.debits
                    /\ IsRead(l, "history") => load[l].history.n >= notice.at.rows

\* The rows shown are those of somebody else, or have the row of the reply.
Below(reply) ==
    /\ rows # NoValue
    /\ rows.user = reply.user => rows.rows >= reply.at.rows

\* What was announced is shown once it has been read again.
Shown ==
    Announced /\ Idle = Loads =>
        /\ (notice.kind = "recorded" /\ ~addendum) =>
               /\ ~missed /\ Below(notice)
               /\ account.user = rows.user
               /\ account.user = notice.user => account.debits >= notice.at.debits
        /\ (notice.kind = "declined" /\ ~missed) => Below(notice)

Lonely ==
    ~overlap =>
        /\ \A l, m \in Loads : load[l] # NoValue /\ load[m] # NoValue => l = m
        /\ \A l \in Loads : Ahead(l)
        /\ Barred
        /\ OneUser
        /\ Shown
        /\ ~older

(***************************************************************************)
(* Readings are begun by whoever changes what they are to show. While they *)
(* come one at a time, people change places on the page only when nothing  *)
(* is awaited; and whatever the order, they are of the page's user unless  *)
(* the cookie they went out with was not.                                  *)
(***************************************************************************)
IInv ==
    /\ TypeOK
    /\ Books
    /\ \A l \in Loads : Gets(l)
    /\ Entered
    /\ Own
    /\ Lonely

-----------------------------------------------------------------------------
LEMMA Sentinels ==
    /\ MaxRows \in Nat
    /\ NoValue \notin Users /\ NoValue \notin Reply /\ NoValue \notin Answers /\ NoValue \notin Reading
    /\ NoValue \notin Balance /\ NoValue \notin History
    /\ Refused # NoValue /\ Unauthenticated # NoValue
    /\ NoValue \notin [kind : {"sent"}, user : Users \cup {NoValue}]
BY PageAssumption DEF PageAssumption

LEMMA AnswerTypes ==
    /\ Asked \in Answers /\ Asked # NoValue /\ Asked.is = "asked"
    /\ \A n \in 0..MaxRows : [is |-> "read", n |-> n] \in Answers
    /\ \A no \in {"refused", "lost"} : [is |-> no] \in Answers
<1>1. Asked \in Answers /\ Asked.is = "asked"
  BY DEF Asked, Answers
<1>2. \A n \in 0..MaxRows : [is |-> "read", n |-> n] \in Answers
  BY DEF Answers
<1>3. \A no \in {"refused", "lost"} : [is |-> no] \in Answers
  BY DEF Answers
<1> QED
  BY <1>1, <1>2, <1>3, Sentinels

\* What the submission awaited may be.
LEMMA SubKinds ==
    ASSUME TypeOK, sub # NoValue
    PROVE  /\ sub.kind \in Outcomes \cup {"sent", "refused", "unauthenticated"}
           /\ sub.kind \in Outcomes =>
                 sub \in Reply /\ sub.user \in Users /\ sub.at \in Ledgers
           /\ sub.kind = "sent" => sub.user \in Users \cup {NoValue}
<1>1. \/ sub \in Reply
      \/ sub \in {Refused, Unauthenticated}
      \/ sub \in [kind : {"sent"}, user : Users \cup {NoValue}]
  BY DEF TypeOK
<1>2. CASE sub \in Reply
  BY <1>2 DEF Reply, Outcomes
<1>3. CASE sub \in {Refused, Unauthenticated}
  BY <1>3 DEF Refused, Unauthenticated, Outcomes
<1>4. CASE sub \in [kind : {"sent"}, user : Users \cup {NoValue}]
  BY <1>4 DEF Outcomes
<1> QED
  BY <1>1, <1>2, <1>3, <1>4

\* What is announced is a reply of the server.
LEMMA AnnouncedType ==
    ASSUME TypeOK, Announced
    PROVE  notice \in Reply /\ notice.user \in Users /\ notice.at \in Ledgers
                /\ notice.at.rows \in Nat /\ notice.at.debits \in Nat
<1>1. notice \in Reply
  BY DEF TypeOK, Announced, Refused, Outcomes
<1> QED
  BY <1>1, Sentinels DEF Reply, Ledgers

LEMMA LoadTypes ==
    ASSUME TypeOK, NEW l \in Loads, load[l] # NoValue
    PROVE  /\ load[l] \in Reading
           /\ load[l].after \in Outcomes \cup {"boot", "signin"} /\ load[l].who \in Users \cup {NoValue}
           /\ load[l].account \in Answers \cup {NoValue} /\ load[l].history \in Answers \cup {NoValue}
           /\ IsRead(l, "account") => load[l].account.n \in 0..MaxRows /\ load[l].account.n \in Nat
           /\ IsRead(l, "history") => load[l].history.n \in 0..MaxRows /\ load[l].history.n \in Nat
<1>1. load[l] \in Reading
  BY DEF TypeOK
<1>2. \A a \in Answers : a.is = "read" => a.n \in 0..MaxRows
  BY DEF Answers
<1>3. \A n \in 0..MaxRows : n \in Nat
  BY Sentinels
<1>4. /\ load[l].after \in Outcomes \cup {"boot", "signin"} /\ load[l].who \in Users \cup {NoValue}
      /\ load[l].account \in Answers \cup {NoValue} /\ load[l].history \in Answers \cup {NoValue}
  BY <1>1 DEF Reading
<1> QED
  BY <1>1, <1>2, <1>3, <1>4, Sentinels DEF IsRead

LEMMA BalanceTypes ==
    ASSUME TypeOK
    PROVE  /\ \A u \in Users : /\ ledger[u] \in Ledgers
                               /\ ledger[u].debits \in 0..MaxRows /\ ledger[u].rows \in 0..MaxRows
                               /\ ledger[u].debits \in Nat /\ ledger[u].rows \in Nat
           /\ account # NoValue => account.user \in Users /\ account.debits \in Nat
           /\ rows # NoValue => rows.user \in Users /\ rows.rows \in Nat
<1>1. MaxRows \in Nat
  BY Sentinels
<1>2. \A u \in Users : ledger[u] \in Ledgers
  BY DEF TypeOK
<1>3. \A x \in Ledgers : x.rows \in 0..MaxRows /\ x.debits \in 0..MaxRows
  BY DEF Ledgers
<1>4. account # NoValue => account.user \in Users /\ account.debits \in 0..MaxRows
  BY DEF TypeOK, Balance
<1>5. rows # NoValue => rows.user \in Users /\ rows.rows \in 0..MaxRows
  BY DEF TypeOK, History
<1> QED
  BY <1>1, <1>2, <1>3, <1>4, <1>5

-----------------------------------------------------------------------------
(* What the parts of a step do.                                            *)

\* Whoever is rendered, has a balance on the page.
LEMMA RenderFacts ==
    ASSUME NEW u \in Users, NEW n \in 0..MaxRows, RenderAccount(u, n)
    PROVE  account' \in Balance /\ account' # NoValue /\ account'.user = u /\ account'.debits = n
<1>1. account' = [user |-> u, debits |-> n]
  BY DEF RenderAccount
<1>2. account' \in Balance
  BY <1>1 DEF Balance
<1> QED
  BY <1>1, <1>2, Sentinels

\* A reading begins with nothing read, beside those under way.
LEMMA BeginFacts ==
    ASSUME TypeOK, NEW after \in Outcomes \cup {"boot", "signin"}, NEW who \in Users \cup {NoValue},
           NEW history \in {Asked, NoValue}, Begin(after, who, history)
    PROVE  /\ load' \in [Loads -> Reading \cup {NoValue}]
           /\ overlap' = (overlap \/ Idle # Loads)
           /\ \E l \in Loads :
                 /\ load[l] = NoValue
                 /\ load'[l] # NoValue /\ load'[l].after = after /\ load'[l].who = who
                 /\ load'[l].account # NoValue /\ load'[l].history = history
                 /\ ~IsRead(l, "account")' /\ ~IsRead(l, "history")'
                 /\ \A m \in Loads \ {l} : load'[m] = load[m]
<1> DEFINE reading == [after |-> after, who |-> who, account |-> Asked, history |-> history]
<1>1. PICK l \in Idle : load' = [load EXCEPT ![l] = reading] /\ overlap' = (overlap \/ Idle # Loads)
  BY DEF Begin
<1>2. l \in Loads /\ load[l] = NoValue
  BY DEF Idle
<1>3. history \in Answers \cup {NoValue} /\ (history # NoValue => history.is # "read")
  BY AnswerTypes
<1>4. reading \in Reading /\ reading # NoValue
  <2>1. reading \in Reading
    BY <1>3, AnswerTypes DEF Reading
  <2> QED
    BY <2>1, Sentinels
<1>5. reading.after = after /\ reading.who = who /\ reading.account = Asked /\ reading.history = history
  OBVIOUS
<1> HIDE DEF reading
<1>6. load'[l] = reading /\ \A m \in Loads \ {l} : load'[m] = load[m]
  BY <1>1, <1>2 DEF TypeOK
<1>7. load' \in [Loads -> Reading \cup {NoValue}]
  BY <1>1, <1>2, <1>4 DEF TypeOK
<1> QED
  BY <1>1, <1>2, <1>3, <1>4, <1>5, <1>6, <1>7, AnswerTypes DEF IsRead

\* One part of a reading is answered, and nothing else of any reading changes.
LEMMA AnswerFacts ==
    ASSUME TypeOK, NEW l \in Loads, NEW part \in {"account", "history"}, Answer(l, part)
    PROVE  /\ load[l] # NoValue
           /\ load' \in [Loads -> Reading \cup {NoValue}]
           /\ \A m \in Loads \ {l} : load'[m] = load[m]
           /\ load'[l] # NoValue /\ load'[l].after = load[l].after /\ load'[l].who = load[l].who
           /\ load'[l].account # NoValue <=> load[l].account # NoValue
           /\ load'[l].history # NoValue <=> load[l].history # NoValue
           /\ IsRead(l, "account")' =>
                 \/ IsRead(l, "account") /\ load'[l].account.n = load[l].account.n
                 \/ load[l].who # NoValue /\ load'[l].account.n = ledger[load[l].who].debits
           /\ IsRead(l, "history")' =>
                 \/ IsRead(l, "history") /\ load'[l].history.n = load[l].history.n
                 \/ load[l].who # NoValue /\ load'[l].history.n = ledger[load[l].who].rows
           /\ UNCHANGED <<ledger, session, view, slot, seen, told, sub, overlap, astray, missed, older>>
<1>0. load[l] # NoValue /\ load[l] \in Reading
      /\ UNCHANGED <<ledger, session, view, slot, seen, told, sub, overlap, astray, missed, older>>
  BY LoadTypes DEF Answer
<1>1. PICK x \in Answers :
          /\ load' = [load EXCEPT ![l] = [load[l] EXCEPT ![part] = x]]
          /\ x.is = "read" =>
                /\ load[l].who # NoValue
                /\ x.n = IF part = "account" THEN ledger[load[l].who].debits ELSE ledger[load[l].who].rows
  <2>1. CASE \E no \in {"refused", "lost"} : load' = [load EXCEPT ![l][part] = [is |-> no]]
    <3>1. PICK no \in {"refused", "lost"} : load' = [load EXCEPT ![l][part] = [is |-> no]]
      BY <2>1
    <3>2. [is |-> no] \in Answers /\ [is |-> no].is # "read"
      BY AnswerTypes
    <3> QED
      BY <3>1, <3>2
  <2>2. CASE ~ \E no \in {"refused", "lost"} : load' = [load EXCEPT ![l][part] = [is |-> no]]
    <3> DEFINE n == IF part = "account" THEN ledger[load[l].who].debits ELSE ledger[load[l].who].rows
    <3>1. load[l].who # NoValue /\ load' = [load EXCEPT ![l][part] = [is |-> "read", n |-> n]]
      BY <2>2 DEF Answer
    <3>2. n \in 0..MaxRows
      BY <1>0, <3>1, LoadTypes, BalanceTypes
    <3>3. [is |-> "read", n |-> n] \in Answers /\ [is |-> "read", n |-> n].n = n
      BY <3>2, AnswerTypes
    <3> QED
      BY <3>1, <3>3
  <2> QED
    BY <2>1, <2>2
<1> DEFINE reading == [load[l] EXCEPT ![part] = x]
<1>2. x # NoValue
  BY Sentinels
<1>3. part = "account" =>
        /\ reading \in Reading /\ reading.after = load[l].after /\ reading.who = load[l].who
        /\ reading.account = x /\ reading.history = load[l].history
  BY <1>0 DEF Reading
<1>4. part = "history" =>
        /\ reading \in Reading /\ reading.after = load[l].after /\ reading.who = load[l].who
        /\ reading.account = load[l].account /\ reading.history = x
  BY <1>0 DEF Reading
<1>5. load' = [load EXCEPT ![l] = reading]
  BY <1>1
<1> HIDE DEF reading
<1>6. load'[l] = reading /\ \A m \in Loads \ {l} : load'[m] = load[m]
  BY <1>5 DEF TypeOK
<1>7. load' \in [Loads -> Reading \cup {NoValue}] /\ reading # NoValue
  BY <1>3, <1>4, <1>5, Sentinels DEF TypeOK
<1>8. load[l][part] # NoValue
  BY AnswerTypes DEF Answer
<1> QED
  BY <1>0, <1>1, <1>2, <1>3, <1>4, <1>6, <1>7, <1>8 DEF IsRead

\* One more row, and a debit if it moved money.
LEMMA RecordedFacts ==
    ASSUME TypeOK, Books, NEW u \in Users, ledger[u].rows < MaxRows, NEW at \in Recorded(u)
    PROVE  /\ at \in Ledgers
           /\ at.rows \in Nat /\ at.debits \in Nat /\ at.debits <= at.rows
           /\ Covers(at, ledger[u])
<1>1. /\ ledger[u].debits \in Nat /\ ledger[u].rows \in Nat /\ MaxRows \in Nat
      /\ ledger[u].debits <= ledger[u].rows
  BY BalanceTypes, Sentinels DEF Books
<1>2. PICK d \in {ledger[u].debits, ledger[u].debits + 1} :
          at = [rows |-> ledger[u].rows + 1, debits |-> d]
  BY DEF Recorded
<1>3. d \in 0..MaxRows /\ ledger[u].rows + 1 \in 0..MaxRows
  BY <1>1, <1>2
<1> QED
  BY <1>1, <1>2, <1>3 DEF Ledgers, Covers

\* What the server's answer to a submission is.
LEMMA ServeFacts ==
    ASSUME TypeOK, Books, Serve
    PROVE  /\ sub # NoValue /\ sub.kind = "sent" /\ sub' # NoValue
           /\ ledger' \in [Users -> Ledgers]
           /\ \A u \in Users : ledger'[u].debits <= ledger'[u].rows /\ Covers(ledger'[u], ledger[u])
           /\ \/ sub' \in {Refused, Unauthenticated}
              \/ /\ sub' \in Reply /\ sub'.kind \in Outcomes
                 /\ sub'.user = sub.user /\ sub.user \in Users
                 /\ Covers(ledger'[sub'.user], sub'.at)
           /\ UNCHANGED <<session, view, slot, seen, told, load, overlap, astray, missed, older>>
<1>0. /\ sub # NoValue /\ sub.kind = "sent" /\ sub.user \in Users \cup {NoValue}
      /\ \A u \in Users : Covers(ledger[u], ledger[u]) /\ ledger[u].debits <= ledger[u].rows
  BY SubKinds, BalanceTypes DEF Serve, Covers, Books
<1>1. CASE sub' \in {Refused, Unauthenticated} /\ UNCHANGED ledger
  BY <1>0, <1>1, Sentinels DEF Serve, TypeOK
<1>2. ASSUME sub.user # NoValue, ledger[sub.user].rows < MaxRows,
             NEW at \in Recorded(sub.user), NEW kind \in Outcomes,
             ledger' = [ledger EXCEPT ![sub.user] = at],
             sub' = [kind |-> kind, user |-> sub.user, at |-> at]
      PROVE  /\ sub' # NoValue /\ ledger' \in [Users -> Ledgers]
             /\ \A u \in Users : ledger'[u].debits <= ledger'[u].rows /\ Covers(ledger'[u], ledger[u])
             /\ sub' \in Reply /\ sub'.kind \in Outcomes
             /\ sub'.user = sub.user /\ sub.user \in Users
             /\ Covers(ledger'[sub'.user], sub'.at)
  <2>1. sub.user \in Users
    BY <1>0, <1>2
  <2>2. at \in Ledgers /\ at.debits <= at.rows /\ Covers(at, ledger[sub.user]) /\ Covers(at, at)
    BY <1>2, <2>1, RecordedFacts DEF Covers
  <2>3. sub' \in Reply /\ sub'.kind = kind /\ sub'.user = sub.user /\ sub'.at = at
    BY <1>2, <2>1, <2>2 DEF Reply
  <2>4. ledger' \in [Users -> Ledgers] /\ ledger'[sub.user] = at
        /\ \A u \in Users \ {sub.user} : ledger'[u] = ledger[u]
    BY <1>2, <2>1, <2>2 DEF TypeOK
  <2> QED
    BY <1>0, <2>1, <2>2, <2>3, <2>4, Sentinels
<1>3. CASE /\ sub.user # NoValue /\ ledger[sub.user].debits > 0
           /\ sub' = [kind |-> "recorded", user |-> sub.user, at |-> [rows |-> 1, debits |-> 1]]
           /\ UNCHANGED ledger
  <2>1. sub.user \in Users
    BY <1>0, <1>3
  <2>2. 1 \in 0..MaxRows /\ ledger[sub.user].debits >= 1 /\ ledger[sub.user].rows >= 1
    BY <1>0, <1>3, <2>1, BalanceTypes, Sentinels
  <2> DEFINE one == [rows |-> 1, debits |-> 1]
  <2>3. one \in Ledgers /\ Covers(ledger[sub.user], one)
    BY <2>2 DEF Ledgers, Covers
  <2> HIDE DEF one
  <2>4. sub' = [kind |-> "recorded", user |-> sub.user, at |-> one]
    BY <1>3 DEF one
  <2>5. sub' \in Reply /\ sub'.kind = "recorded" /\ sub'.user = sub.user /\ sub'.at = one
    BY <2>1, <2>3, <2>4 DEF Reply, Outcomes
  <2> QED
    BY <1>0, <1>3, <2>1, <2>3, <2>5, Sentinels DEF Serve, TypeOK, Outcomes
<1> QED
  BY <1>0, <1>1, <1>2, <1>3 DEF Serve, Outcomes

\* A step of the ledger that the page does not see.
LEMMA ElsewhereFacts ==
    ASSUME TypeOK, Books, NEW w \in Users, Elsewhere(w)
    PROVE  /\ ledger' \in [Users -> Ledgers]
           /\ \A u \in Users : ledger'[u].debits <= ledger'[u].rows /\ Covers(ledger'[u], ledger[u])
           /\ UNCHANGED <<session, view, slot, seen, told, sub, load, overlap, astray, missed, older>>
<1>1. ASSUME NEW u \in Users PROVE Covers(ledger[u], ledger[u]) /\ ledger[u].debits <= ledger[u].rows
  BY BalanceTypes DEF Covers, Books
<1>2. PICK at \in Recorded(w) : ledger' = [ledger EXCEPT ![w] = at]
  BY DEF Elsewhere
<1>3. at \in Ledgers /\ at.debits <= at.rows /\ Covers(at, ledger[w])
  BY RecordedFacts DEF Elsewhere
<1>4. /\ ledger' \in [Users -> Ledgers] /\ ledger'[w] = at
      /\ \A u \in Users \ {w} : ledger'[u] = ledger[u]
  BY <1>2, <1>3 DEF TypeOK
<1> QED
  BY <1>1, <1>3, <1>4 DEF Elsewhere

\* What a reading that has landed leaves on the page.
LEMMA LandFacts ==
    ASSUME TypeOK, NEW l \in Loads, Gets(l), LandRefresh(l) \/ LandEnter(l)
    PROVE  /\ load[l] # NoValue /\ ~Asks(l)
           /\ load' \in [Loads -> Reading \cup {NoValue}] /\ load'[l] = NoValue
           /\ \A m \in Loads \ {l} : load'[m] = load[m]
           /\ \/ UNCHANGED <<account, older>>
              \/ /\ LandRefresh(l) /\ IsRead(l, "account") /\ load[l].who \in Users
                 /\ RenderAccount(load[l].who, load[l].account.n)
           /\ \/ rows' = rows /\ missed' = TRUE
              \/ /\ IsRead(l, "history") /\ load[l].who \in Users /\ missed' = FALSE
                 /\ rows' = [user |-> load[l].who, rows |-> load[l].history.n]
           /\ UNCHANGED <<ledger, session, user, notice, sub, overlap, astray>>
           /\ missed' \in BOOLEAN
<1>1. load[l] # NoValue /\ load' = [load EXCEPT ![l] = NoValue]
  BY DEF LandRefresh, LandEnter, Landed
<1>2. \A p \in {"account", "history"} : IsRead(l, p) => load[l].who \in Users
  BY <1>1, LoadTypes DEF Gets
<1>3. \/ UNCHANGED <<account, older>>
      \/ LandRefresh(l) /\ IsRead(l, "account") /\ RenderAccount(load[l].who, load[l].account.n)
  BY DEF LandRefresh, LandEnter
<1>4. \/ rows' = rows /\ missed' = TRUE
      \/ RenderTransactions(l)
  BY DEF LandRefresh, LandEnter
<1>5. RenderTransactions(l) =>
        \/ rows' = rows /\ missed' = TRUE
        \/ /\ IsRead(l, "history") /\ missed' = FALSE
           /\ rows' = [user |-> load[l].who, rows |-> load[l].history.n]
  BY DEF RenderTransactions
<1>6. ~Asks(l)
  BY <1>1 DEF LandRefresh, LandEnter, Gets, Outcomes
<1>7. UNCHANGED <<ledger, session, user, notice, sub, overlap, astray>>
  BY DEF LandRefresh, LandEnter, told
<1> QED
  BY <1>1, <1>2, <1>3, <1>4, <1>5, <1>6, <1>7 DEF TypeOK

-----------------------------------------------------------------------------
\* Somebody is asked for, by boot() or by signing in.
Asking(after) ==
    \/ Boot /\ after = "boot"
    \/ OnCredential /\ after = "signin"

LEMMA AskingFacts ==
    ASSUME TypeOK, NEW after \in {"boot", "signin"}, Asking(after)
    PROVE  /\ after \in Outcomes \cup {"boot", "signin"} /\ NoValue \in {Asked, NoValue}
           /\ \E who \in Users \cup {NoValue} : Begin(after, who, NoValue)
           /\ UNCHANGED <<ledger, session, view, slot, seen, told, sub, astray, missed, older>>
<1>1. session \in Users \cup {NoValue}
  BY DEF TypeOK
<1> QED
  BY <1>1 DEF Asking, Boot, OnCredential

\* Whoever the server signs in, is read with the balance as it stands.
LEMMA SignInFacts ==
    ASSUME TypeOK, NEW l \in Loads, Gets(l), SignIn(l)
    PROVE  /\ load[l] # NoValue /\ Asks(l)
           /\ load' \in [Loads -> Reading \cup {NoValue}]
           /\ \A m \in Loads \ {l} : load'[m] = load[m]
           /\ load'[l] # NoValue /\ load'[l].after = "signin" /\ load[l].after = "signin"
           /\ load'[l].account # NoValue /\ load'[l].history = NoValue
           /\ load'[l].who \in Users /\ load'[l].account.n = ledger[load'[l].who].debits
           /\ session' \in Users
           /\ UNCHANGED <<ledger, view, slot, seen, told, sub, overlap, astray, missed, older>>
<1>1. /\ load[l] # NoValue /\ load[l].after = "signin" /\ load[l].account = Asked
      /\ UNCHANGED <<ledger, view, slot, seen, told, sub, overlap, astray, missed, older>>
  BY DEF SignIn
<1>2. PICK u \in Users :
         /\ session' = u
         /\ load' = [load EXCEPT ![l].who = u,
                                ![l].account = [is |-> "read", n |-> ledger[u].debits]]
  BY DEF SignIn
<1>3. load[l] \in Reading /\ Asks(l) /\ load[l].history = NoValue
  BY <1>1, LoadTypes, AnswerTypes DEF Gets, Outcomes, Asks
<1> DEFINE x == [is |-> "read", n |-> ledger[u].debits]
<1>4. x \in Answers /\ x.n = ledger[u].debits /\ x # NoValue
  BY BalanceTypes, AnswerTypes, Sentinels
<1> HIDE DEF x
<1> DEFINE reading == [load[l] EXCEPT !.who = u, !.account = x]
<1>5. /\ reading \in Reading /\ reading.after = "signin" /\ reading.who = u
      /\ reading.account = x /\ reading.history = NoValue
  BY <1>1, <1>3, <1>4 DEF Reading
<1>6. load' = [load EXCEPT ![l] = reading]
  BY <1>2 DEF x
<1> HIDE DEF reading
<1>7. load'[l] = reading /\ \A m \in Loads \ {l} : load'[m] = load[m]
  BY <1>6 DEF TypeOK
<1>8. load' \in [Loads -> Reading \cup {NoValue}] /\ reading # NoValue
  BY <1>5, <1>6, Sentinels DEF TypeOK
<1> QED
  BY <1>1, <1>2, <1>3, <1>4, <1>5, <1>7, <1>8

\* Somebody is shown on the page, and the history is asked for.
LEMMA EnterFacts ==
    ASSUME TypeOK, NEW l \in Loads, Gets(l), Enter(l)
    PROVE  /\ load[l] # NoValue /\ Asks(l) /\ IsRead(l, "account") /\ load[l].who \in Users
           /\ RenderAccount(load[l].who, load[l].account.n)
           /\ load' \in [Loads -> Reading \cup {NoValue}]
           /\ \A m \in Loads \ {l} : load'[m] = load[m]
           /\ load'[l] # NoValue /\ load'[l].after = load[l].after /\ load'[l].who = session
           /\ load'[l].account = NoValue /\ load'[l].history # NoValue
           /\ ~IsRead(l, "account")' /\ ~IsRead(l, "history")'
           /\ astray' = \/ session \notin {load[l].who, NoValue}
                        \/ \E m \in Loads \ {l} : OfAnother(m, load[l].who)
           /\ user' = load[l].who /\ user' # NoValue /\ view' = "app"
           /\ UNCHANGED <<ledger, session, screen, starting, rows, notice, addendum, sub, overlap, missed>>
<1>1. /\ load[l] # NoValue /\ Asks(l) /\ IsRead(l, "account") /\ AskHistory(l)
      /\ RenderAccount(load[l].who, load[l].account.n)
      /\ user' = load[l].who /\ view' = "app"
      /\ UNCHANGED <<ledger, session, screen, starting, rows, notice, addendum, sub, overlap, missed>>
  BY DEF Enter, Asks, slot, told
<1>2. load[l] \in Reading /\ load[l].who \in Users
  BY <1>1, LoadTypes DEF Gets
<1> DEFINE reading == [load[l] EXCEPT !.who = session, !.account = NoValue, !.history = Asked]
<1>3. /\ reading \in Reading /\ reading.after = load[l].after /\ reading.who = session
      /\ reading.account = NoValue /\ reading.history = Asked
  BY <1>2, AnswerTypes DEF Reading, TypeOK
<1>4. load' = [load EXCEPT ![l] = reading]
  BY <1>1 DEF AskHistory
<1> HIDE DEF reading
<1>5. load'[l] = reading /\ \A m \in Loads \ {l} : load'[m] = load[m]
  BY <1>4 DEF TypeOK
<1>6. load' \in [Loads -> Reading \cup {NoValue}] /\ reading # NoValue
  BY <1>3, <1>4, Sentinels DEF TypeOK
<1>7. ~IsRead(l, "account")' /\ ~IsRead(l, "history")'
  BY <1>3, <1>5, AnswerTypes DEF IsRead
<1>8. load[l].who # NoValue
  BY <1>2, Sentinels
<1> QED
  BY <1>1, <1>2, <1>3, <1>5, <1>6, <1>7, <1>8, AnswerTypes DEF AskHistory

\* Nobody is.
Leaves(l) == NotAdmitted(l) \/ NotAnswered(l)

LEMMA LeaveFacts ==
    ASSUME TypeOK, NEW l \in Loads, Leaves(l)
    PROVE  /\ load[l] # NoValue /\ Asks(l)
           /\ load' \in [Loads -> Reading \cup {NoValue}] /\ load'[l] = NoValue
           /\ \A m \in Loads \ {l} : load'[m] = load[m]
           /\ UNCHANGED <<ledger, session, seen, told, sub, overlap, astray, missed, older>>
           /\ \/ view' = "signin" /\ starting' = "boot" /\ screen' = screen
              \/ view' = "signin" /\ starting' = starting /\ screen' = "fallback"
              \/ view' = view /\ starting' = starting /\ screen' \in {screen, "fallback"}
           /\ load[l].after = "boot" => view' = "signin"
<1>1. /\ load[l] # NoValue /\ Asks(l) /\ load' = [load EXCEPT ![l] = NoValue]
      /\ UNCHANGED <<ledger, session, seen, told, sub, overlap, astray, missed, older>>
  BY DEF Leaves, NotAdmitted, NotAnswered, Landed, Asks
<1>2. /\ \/ view' = "signin" /\ starting' = "boot" /\ screen' = screen
         \/ view' = "signin" /\ starting' = starting /\ screen' = "fallback"
         \/ view' = view /\ starting' = starting /\ screen' \in {screen, "fallback"}
      /\ load[l].after = "boot" => view' = "signin"
  BY DEF Leaves, NotAdmitted, NotAnswered, StartSignIn
<1> QED
  BY <1>1, <1>2 DEF TypeOK

LEMMA TypeInit == Init => TypeOK
<1>1. 0 \in 0..MaxRows
  BY Sentinels
<1>2. Opened \in Ledgers
  BY <1>1 DEF Opened, Ledgers
<1> QED
  BY <1>2 DEF Init, TypeOK

LEMMA TypeNext == IInv /\ [Next]_vars => TypeOK'
<1> SUFFICES ASSUME IInv, [Next]_vars PROVE TypeOK'
  OBVIOUS
<1> TypeOK /\ Books /\ \A l \in Loads : Gets(l)
  BY DEF IInv
<1> USE DEF seen, told, slot
<1>a. ASSUME NEW u \in Users, NEW n \in 0..MaxRows, RenderAccount(u, n)
      PROVE  account' \in Balance /\ older' \in BOOLEAN
  BY <1>a, RenderFacts DEF RenderAccount, TypeOK
<1>1. ASSUME NEW after \in {"boot", "signin"}, Asking(after) PROVE TypeOK'
  <2>1. PICK who \in Users \cup {NoValue} : Begin(after, who, NoValue)
    BY <1>1, AskingFacts
  <2>2. load' \in [Loads -> Reading \cup {NoValue}] /\ overlap' \in BOOLEAN
    BY <1>1, <2>1, AskingFacts, BeginFacts DEF TypeOK
  <2> QED
    BY <1>1, <2>2, AskingFacts DEF TypeOK
<1>2. ASSUME NEW l \in Loads, SignIn(l) PROVE TypeOK'
  BY <1>2, SignInFacts DEF TypeOK
<1>3. ASSUME NEW l \in Loads, Enter(l) \/ Leaves(l) PROVE TypeOK'
  <2>1. CASE Enter(l)
    <3>1. load[l].who \in Users /\ load[l].account.n \in 0..MaxRows
          /\ RenderAccount(load[l].who, load[l].account.n)
      BY <2>1, EnterFacts, LoadTypes
    <3>2. account' \in Balance /\ older' \in BOOLEAN
      BY <1>a, <3>1
    <3>3. astray' \in BOOLEAN
      BY <2>1, EnterFacts
    <3>4. /\ load' \in [Loads -> Reading \cup {NoValue}]
          /\ user' \in Users /\ view' = "app"
          /\ UNCHANGED <<ledger, session, screen, starting, rows, notice, addendum, sub, overlap, missed>>
      BY <2>1, <3>1, EnterFacts
    <3>5. /\ ledger' \in [Users -> Ledgers] /\ session' \in Users \cup {NoValue}
          /\ screen' \in {"empty", "button", "fallback"} /\ starting' \in {"no", "boot", "ended"}
          /\ rows' \in History \cup {NoValue} /\ overlap' \in BOOLEAN /\ missed' \in BOOLEAN
      BY <3>4 DEF TypeOK
    <3>6. /\ notice' \in Reply \cup {Refused, NoValue} /\ addendum' \in BOOLEAN
          /\ sub' \in Reply \cup {Refused, Unauthenticated, NoValue}
                         \cup [kind : {"sent"}, user : Users \cup {NoValue}]
      BY <3>4 DEF TypeOK
    <3> QED
      BY <3>2, <3>3, <3>4, <3>5, <3>6, Zenon DEF TypeOK
  <2>2. CASE Leaves(l)
    BY <2>2, LeaveFacts DEF TypeOK
  <2> QED
    BY <1>3, <2>1, <2>2
<1>4. CASE Started \/ SessionChanges \/ Reload
  <2>1. CASE Started
    BY <2>1 DEF Started, TypeOK
  <2>2. CASE SessionChanges
    BY <2>2 DEF SessionChanges, TypeOK
  <2>3. CASE Reload
    BY <2>3 DEF Reload, Says, TypeOK
  <2> QED
    BY <1>4, <2>1, <2>2, <2>3
<1>5. CASE Submit
  <2>1. [kind |-> "sent", user |-> session] \in [kind : {"sent"}, user : Users \cup {NoValue}]
    BY DEF TypeOK
  <2> QED
    BY <1>5, <2>1 DEF Submit, TypeOK
<1>6. CASE Serve
  BY <1>6, ServeFacts DEF TypeOK
<1>7. CASE HandleRecorded
  <2>1. sub \in Reply /\ sub.kind \in Outcomes
    BY <1>7, SubKinds DEF HandleRecorded
  <2>2. load' \in [Loads -> Reading \cup {NoValue}] /\ overlap' \in BOOLEAN
    <3>1. session \in Users \cup {NoValue} /\ overlap \in BOOLEAN
      BY DEF TypeOK
    <3>2. Begin(sub.kind, session, Asked)
      BY <1>7 DEF HandleRecorded
    <3> QED
      BY <2>1, <3>1, <3>2, BeginFacts
  <2>3. /\ notice' = sub /\ addendum' = FALSE /\ sub' = NoValue /\ astray' \in BOOLEAN
        /\ UNCHANGED <<ledger, session, view, screen, starting, user, account, rows, missed, older>>
    BY <1>7 DEF HandleRecorded, Says
  <2>4. /\ notice' \in Reply \cup {Refused, NoValue} /\ addendum' \in BOOLEAN
        /\ sub' \in Reply \cup {Refused, Unauthenticated, NoValue}
                       \cup [kind : {"sent"}, user : Users \cup {NoValue}]
    BY <2>1, <2>3
  <2>5. /\ ledger' \in [Users -> Ledgers] /\ session' \in Users \cup {NoValue}
        /\ view' \in {"blank", "signin", "app"} /\ screen' \in {"empty", "button", "fallback"}
        /\ starting' \in {"no", "boot", "ended"} /\ user' \in Users \cup {NoValue}
        /\ account' \in Balance \cup {NoValue} /\ rows' \in History \cup {NoValue}
        /\ missed' \in BOOLEAN /\ older' \in BOOLEAN
    BY <2>3 DEF TypeOK
  <2> QED
    BY <2>2, <2>3, <2>4, <2>5, Zenon DEF TypeOK
<1>8. CASE HandleRefused \/ SessionEnded
  <2>1. /\ notice' \in {Refused, NoValue} /\ addendum' = FALSE /\ sub' = NoValue
        /\ view' \in {"signin", view} /\ starting' \in {"ended", starting}
        /\ UNCHANGED <<ledger, session, screen, user, account, rows, load, overlap,
                       astray, missed, older>>
    BY <1>8, Zenon DEF HandleRefused, SessionEnded, Says, StartSignIn
  <2>2. /\ notice' \in Reply \cup {Refused, NoValue} /\ addendum' \in BOOLEAN
        /\ sub' \in Reply \cup {Refused, Unauthenticated, NoValue}
                       \cup [kind : {"sent"}, user : Users \cup {NoValue}]
    BY <2>1
  <2>3. /\ ledger' \in [Users -> Ledgers] /\ session' \in Users \cup {NoValue}
        /\ view' \in {"blank", "signin", "app"} /\ screen' \in {"empty", "button", "fallback"}
        /\ starting' \in {"no", "boot", "ended"} /\ user' \in Users \cup {NoValue}
        /\ account' \in Balance \cup {NoValue} /\ rows' \in History \cup {NoValue}
    BY <2>1 DEF TypeOK
  <2>4. /\ load' \in [Loads -> Reading \cup {NoValue}] /\ overlap' \in BOOLEAN
        /\ astray' \in BOOLEAN /\ missed' \in BOOLEAN /\ older' \in BOOLEAN
    BY <2>1 DEF TypeOK
  <2> QED
    BY <2>2, <2>3, <2>4, Zenon DEF TypeOK
<1>9. ASSUME NEW u \in Users, Elsewhere(u) PROVE TypeOK'
  BY <1>9, ElsewhereFacts DEF TypeOK
<1>10. ASSUME NEW l \in Loads, NEW part \in {"account", "history"}, Answer(l, part) PROVE TypeOK'
  BY <1>10, AnswerFacts DEF TypeOK
<1>11. ASSUME NEW l \in Loads, LandRefresh(l) \/ LandEnter(l) PROVE TypeOK'
  <2>1. load' \in [Loads -> Reading \cup {NoValue}]
    BY <1>11, LandFacts
  <2>2. account' \in Balance \cup {NoValue} /\ older' \in BOOLEAN
    <3>1. UNCHANGED <<account, older>> \/ \E u \in Users, n \in 0..MaxRows : RenderAccount(u, n)
      BY <1>11, LandFacts, LoadTypes
    <3> QED
      BY <1>a, <3>1 DEF TypeOK
  <2>3. rows' \in History \cup {NoValue}
    <3>1. rows' = rows \/ \E u \in Users, n \in 0..MaxRows : rows' = [user |-> u, rows |-> n]
      <4>1. \/ rows' = rows
            \/ /\ load[l] # NoValue /\ IsRead(l, "history") /\ load[l].who \in Users
               /\ rows' = [user |-> load[l].who, rows |-> load[l].history.n]
        BY <1>11, LandFacts
      <4>2. load[l] # NoValue /\ IsRead(l, "history") => load[l].history.n \in 0..MaxRows
        BY LoadTypes
      <4> QED
        BY <4>1, <4>2, Zenon
    <3> QED
      BY <3>1 DEF TypeOK, History
  <2>4. /\ view' \in {"blank", "signin", "app"} /\ screen' \in {"empty", "button", "fallback"}
        /\ starting' = starting /\ addendum' \in BOOLEAN
    BY <1>11 DEF LandRefresh, LandEnter, TypeOK
  <2>5. UNCHANGED <<ledger, session, user, notice, sub, overlap, astray>> /\ missed' \in BOOLEAN
    BY <1>11, LandFacts
  <2> QED
    BY <2>1, <2>2, <2>3, <2>4, <2>5 DEF TypeOK
<1>12. CASE UNCHANGED vars
  BY <1>12 DEF vars, TypeOK
<1> QED
  BY <1>1, <1>2, <1>3, <1>4, <1>5, <1>6, <1>7, <1>8, <1>9, <1>10, <1>11, <1>12
  DEF Next, Asking, Leaves

\* The steps at which readings begin, go on and end.
LEMMA ReadingSteps ==
    ASSUME TypeOK, [Next]_vars
    PROVE  \/ \E after \in {"boot", "signin"} : Asking(after)
           \/ HandleRecorded
           \/ UNCHANGED <<load, overlap>>
           \/ \E l \in Loads, part \in {"account", "history"} : Answer(l, part)
           \/ \E l \in Loads : SignIn(l) \/ Enter(l) \/ Leaves(l)
           \/ \E l \in Loads : LandRefresh(l) \/ LandEnter(l)
           \/ Reload
<1>1. CASE Boot \/ OnCredential
  BY <1>1 DEF Asking
<1>2. CASE Started \/ SessionChanges \/ Submit \/ Serve \/ HandleRefused \/ SessionEnded
              \/ UNCHANGED vars \/ \E u \in Users : Elsewhere(u)
  BY <1>2 DEF Started, SessionChanges, Submit, Serve, HandleRefused, SessionEnded, vars, Elsewhere
<1> QED
  BY <1>1, <1>2 DEF Next, Leaves

LEMMA LedgerGrows ==
    ASSUME TypeOK, Books, [Next]_vars
    PROVE  \A u \in Users : ledger'[u].debits <= ledger'[u].rows /\ Covers(ledger'[u], ledger[u])
<1>1. ASSUME NEW u \in Users PROVE ledger[u].debits <= ledger[u].rows /\ Covers(ledger[u], ledger[u])
  BY BalanceTypes DEF Covers, Books
<1>2. CASE ledger' = ledger
  BY <1>1, <1>2
<1>3. CASE Serve
  BY <1>3, ServeFacts
<1>4. ASSUME NEW w \in Users, Elsewhere(w)
      PROVE  \A u \in Users : ledger'[u].debits <= ledger'[u].rows /\ Covers(ledger'[u], ledger[u])
  BY <1>4, ElsewhereFacts
<1>5. Serve \/ ledger' = ledger \/ \E w \in Users : Elsewhere(w)
  BY DEF Next, Boot, Started, OnCredential, SessionChanges, Reload, Submit, HandleRecorded, HandleRefused,
     SessionEnded, Answer, SignIn, Enter, NotAdmitted, NotAnswered, LandRefresh, LandEnter, vars
<1> QED
  BY <1>2, <1>3, <1>4, <1>5

\* The balance shown is the one it was, or that of a reading that is rendered.
LEMMA AccountSteps ==
    ASSUME TypeOK, \A l \in Loads : Gets(l), [Next]_vars
    PROVE  \/ UNCHANGED <<account, older>>
           \/ account' = NoValue /\ Reload
           \/ \E l \in Loads : /\ load[l] # NoValue /\ IsRead(l, "account") /\ load[l].who \in Users
                               /\ RenderAccount(load[l].who, load[l].account.n)
<1>1. ASSUME NEW l \in Loads, LandRefresh(l) \/ LandEnter(l)
      PROVE  \/ UNCHANGED <<account, older>>
             \/ /\ load[l] # NoValue /\ IsRead(l, "account") /\ load[l].who \in Users
                /\ RenderAccount(load[l].who, load[l].account.n)
  BY <1>1, LandFacts
<1>2. ASSUME NEW l \in Loads, Enter(l)
      PROVE  /\ load[l] # NoValue /\ IsRead(l, "account") /\ load[l].who \in Users
             /\ RenderAccount(load[l].who, load[l].account.n)
  BY <1>2, EnterFacts
<1>3. CASE Reload
  BY <1>3 DEF Reload
<1>4. ASSUME NEW l \in Loads, NEW part \in {"account", "history"},
             Answer(l, part) \/ SignIn(l) \/ NotAdmitted(l) \/ NotAnswered(l)
      PROVE  UNCHANGED <<account, older>>
  BY <1>4 DEF Answer, SignIn, NotAdmitted, NotAnswered, seen
<1>5. CASE \/ Boot \/ OnCredential \/ Started \/ SessionChanges \/ Submit \/ Serve \/ HandleRecorded
           \/ HandleRefused \/ SessionEnded \/ UNCHANGED vars \/ \E u \in Users : Elsewhere(u)
  BY <1>5 DEF Boot, OnCredential, Started, SessionChanges, Submit, Serve, HandleRecorded, HandleRefused,
     SessionEnded, vars, Elsewhere, seen
<1> QED
  BY <1>1, <1>2, <1>3, <1>4, <1>5 DEF Next

\* The submission awaited is new, answered, taken in or still what it was.
LEMMA SubSteps ==
    ASSUME [Next]_vars
    PROVE  sub' = sub \/ sub' = NoValue \/ Submit \/ Serve
BY DEF Next, Boot, Started, OnCredential, SessionChanges, Reload, HandleRecorded, HandleRefused,
   SessionEnded, Answer, SignIn, Enter, NotAdmitted, NotAnswered, LandRefresh, LandEnter, Elsewhere, vars

LEMMA NoticeSteps ==
    ASSUME [Next]_vars
    PROVE  \/ notice' = notice
           \/ notice' \in {NoValue, Refused} /\ (HandleRefused \/ SessionEnded \/ Reload)
           \/ HandleRecorded
BY DEF Next, Boot, Started, OnCredential, SessionChanges, Reload, Submit, Serve, HandleRefused,
   SessionEnded, Answer, SignIn, Enter, NotAdmitted, NotAnswered, LandRefresh, LandEnter, Elsewhere,
   vars, told, Says

LEMMA BooksNext == IInv /\ [Next]_vars => Books'
<1> SUFFICES ASSUME IInv, [Next]_vars PROVE Books'
  OBVIOUS
<1> TypeOK /\ Books /\ (\A l \in Loads : Gets(l)) /\ TypeOK'
  BY TypeNext DEF IInv
<1>0. \A u \in Users : ledger'[u].debits <= ledger'[u].rows /\ Covers(ledger'[u], ledger[u])
  BY LedgerGrows
<1>n. \A u \in Users : /\ ledger[u].debits \in Nat /\ ledger[u].rows \in Nat
                       /\ ledger'[u].debits \in Nat /\ ledger'[u].rows \in Nat
  <2>1. \A x \in Ledgers : x.debits \in Nat /\ x.rows \in Nat
    BY Sentinels DEF Ledgers
  <2> QED
    BY <2>1 DEF TypeOK
<1>1. account' # NoValue => account'.debits <= ledger'[account'.user].debits
  <2>1. CASE account' = account
    BY <1>0, <1>n, <2>1, BalanceTypes DEF Books, Covers
  <2>2. ASSUME NEW u \in Users, NEW n \in 0..MaxRows, RenderAccount(u, n), n <= ledger[u].debits
        PROVE  account'.debits <= ledger'[account'.user].debits
    <3>1. account'.user = u /\ account'.debits = n /\ n \in Nat
      BY <2>2, RenderFacts, Sentinels
    <3> QED
      BY <1>0, <1>n, <2>2, <3>1 DEF Covers
  <2>3. ASSUME NEW l \in Loads, load[l] # NoValue, IsRead(l, "account"), load[l].who \in Users,
               RenderAccount(load[l].who, load[l].account.n)
        PROVE  account'.debits <= ledger'[account'.user].debits
    BY <2>2, <2>3, LoadTypes DEF Gets
  <2> QED
    BY <2>1, <2>3, AccountSteps
<1>2. sub' # NoValue /\ sub'.kind \in Outcomes => Covers(ledger'[sub'.user], sub'.at)
  <2>1. CASE Serve
    BY <2>1, ServeFacts DEF Refused, Unauthenticated, Outcomes
  <2>2. CASE Submit
    BY <2>2 DEF Submit, Outcomes
  <2>3. CASE sub' = sub
    <3> SUFFICES ASSUME sub # NoValue, sub.kind \in Outcomes PROVE Covers(ledger'[sub.user], sub.at)
      BY <2>3
    <3>1. sub.user \in Users /\ sub.at.rows \in Nat /\ sub.at.debits \in Nat
      BY SubKinds, Sentinels DEF Ledgers
    <3> QED
      BY <1>0, <1>n, <3>1 DEF Books, Covers
  <2> QED
    BY <2>1, <2>2, <2>3, SubSteps
<1>3. Announced' => Covers(ledger'[notice'.user], notice'.at)
  <2>1. CASE notice' = notice
    <3> SUFFICES ASSUME Announced PROVE Covers(ledger'[notice.user], notice.at)
      BY <2>1 DEF Announced
    <3>1. notice.user \in Users /\ notice.at.rows \in Nat /\ notice.at.debits \in Nat
      BY AnnouncedType
    <3> QED
      BY <1>0, <1>n, <3>1 DEF Books, Covers
  <2>2. CASE HandleRecorded
    BY <2>2 DEF HandleRecorded, Says, Books, Covers
  <2>3. CASE notice' \in {NoValue, Refused}
    BY <2>3 DEF Announced, Refused, Outcomes
  <2> QED
    BY <2>1, <2>2, <2>3, NoticeSteps
<1> QED
  BY <1>0, <1>1, <1>2, <1>3 DEF Books

\* What a reading brings was on the ledger when it was read.
LEMMA GetsNext == ASSUME IInv, [Next]_vars, NEW l \in Loads PROVE Gets(l)'
<1> TypeOK /\ Books /\ Gets(l) /\ \A m \in Loads : Gets(m)
  BY DEF IInv
<1>0. \A u \in Users : /\ ledger[u].debits \in Nat /\ ledger'[u].debits \in Nat
                       /\ ledger'[u].debits >= ledger[u].debits
  <2>1. TypeOK'
    BY TypeNext
  <2>2. \A x \in Ledgers : x.debits \in Nat
    BY Sentinels DEF Ledgers
  <2>3. \A u \in Users : ledger[u].debits \in Nat /\ ledger'[u].debits \in Nat
    BY <2>1, <2>2 DEF TypeOK
  <2> QED
    BY <2>3, LedgerGrows DEF Covers
<1>1. CASE load'[l] = load[l]
  <2>1. CASE load[l] = NoValue
    BY <1>1, <2>1 DEF Gets
  <2>2. CASE load[l] # NoValue
    BY <1>0, <1>1, <2>2, LoadTypes DEF Gets, IsRead, Asks
  <2> QED
    BY <2>1, <2>2
<1>2. ASSUME NEW after \in Outcomes \cup {"boot", "signin"}, NEW who \in Users \cup {NoValue},
             NEW history \in {Asked, NoValue}, Begin(after, who, history),
             history = NoValue <=> after \in {"boot", "signin"}
      PROVE  Gets(l)'
  <2>1. PICK m \in Loads :
          /\ load'[m] # NoValue /\ load'[m].after = after /\ load'[m].who = who
          /\ load'[m].account # NoValue /\ load'[m].history = history
          /\ ~IsRead(m, "account")' /\ ~IsRead(m, "history")'
          /\ \A k \in Loads \ {m} : load'[k] = load[k]
    BY <1>2, BeginFacts
  <2>2. CASE l = m
    BY <1>2, <2>1, <2>2 DEF Gets, Asks
  <2>3. CASE l # m
    BY <1>1, <2>1, <2>3
  <2> QED
    BY <2>2, <2>3
<1>3. ASSUME NEW after \in {"boot", "signin"}, Asking(after) PROVE Gets(l)'
  <2>1. PICK who \in Users \cup {NoValue} : Begin(after, who, NoValue)
    BY <1>3, AskingFacts
  <2> QED
    BY <1>2, <1>3, <2>1, AskingFacts
<1>4. CASE HandleRecorded
  <2>1. sub.kind \in Outcomes /\ Begin(sub.kind, session, Asked) /\ session \in Users \cup {NoValue}
    BY <1>4 DEF HandleRecorded, TypeOK
  <2>2. Asked # NoValue /\ sub.kind \notin {"boot", "signin"}
    BY <2>1, AnswerTypes DEF Outcomes
  <2> QED
    BY <1>2, <2>1, <2>2
<1>5. CASE load' = load
  BY <1>1, <1>5
<1>6. ASSUME NEW m \in Loads, NEW part \in {"account", "history"}, Answer(m, part) PROVE Gets(l)'
  <2>1. CASE l # m
    BY <1>1, <1>6, <2>1, AnswerFacts
  <2>2. CASE l = m
    <3>1. load[m] # NoValue /\ ledger' = ledger
      BY <1>6, AnswerFacts
    <3>2. load[m].who \in Users \cup {NoValue}
      BY <3>1, LoadTypes
    <3> QED
      BY <1>0, <1>6, <2>2, <3>1, <3>2, AnswerFacts DEF Gets, Asks
  <2> QED
    BY <2>1, <2>2
<1>7. ASSUME NEW m \in Loads, SignIn(m) PROVE Gets(l)'
  <2>1. CASE l # m
    BY <1>1, <1>7, <2>1, SignInFacts
  <2>2. CASE l = m
    <3>1. load'[m].who \in Users /\ load'[m].account.n = ledger[load'[m].who].debits /\ ledger' = ledger
      BY <1>7, SignInFacts
    <3>2. load'[m].account.n <= ledger'[load'[m].who].debits
      BY <1>0, <3>1
    <3> QED
      BY <1>7, <2>2, <3>1, <3>2, SignInFacts, Sentinels DEF Gets, Asks
  <2> QED
    BY <2>1, <2>2
<1>8. ASSUME NEW m \in Loads, Enter(m) PROVE Gets(l)'
  <2>1. CASE l # m
    BY <1>1, <1>8, <2>1, EnterFacts
  <2>2. CASE l = m
    <3>1. load[m].after \in {"boot", "signin"}
      BY <1>8, EnterFacts DEF Gets
    <3> QED
      BY <1>8, <2>2, <3>1, EnterFacts DEF Gets, Asks, Outcomes
  <2> QED
    BY <2>1, <2>2
<1>9. ASSUME NEW m \in Loads, LandRefresh(m) \/ LandEnter(m) \/ Leaves(m) PROVE Gets(l)'
  <2>1. load'[m] = NoValue /\ \A k \in Loads \ {m} : load'[k] = load[k]
    BY <1>9, LandFacts, LeaveFacts
  <2> QED
    BY <1>1, <2>1 DEF Gets
<1>10. CASE Reload
  BY <1>10 DEF Reload, Gets
<1> QED
  BY <1>3, <1>4, <1>5, <1>6, <1>7, <1>8, <1>9, <1>10, ReadingSteps

LEMMA EnteredNext == IInv /\ [Next]_vars => Entered'
<1> SUFFICES ASSUME IInv, [Next]_vars PROVE Entered'
  OBVIOUS
<1> TypeOK /\ Books /\ Entered /\ \A m \in Loads : Gets(m)
  BY DEF IInv
<1>1. ASSUME NEW after \in {"boot", "signin"}, Asking(after) PROVE Entered'
  <2>1. PICK who \in Users \cup {NoValue} : Begin(after, who, NoValue)
    BY <1>1, AskingFacts
  <2>2. \A l \in Loads : load'[l] # NoValue => load'[l] = load[l] \/ load'[l].history = NoValue
    BY <1>1, <2>1, AskingFacts, BeginFacts
  <2>3. UNCHANGED <<view, slot, seen, told, sub>>
    BY <1>1, AskingFacts
  <2> QED
    BY <2>2, <2>3 DEF Entered, seen, told, slot, Asks
<1>2. ASSUME NEW l \in Loads, Enter(l) PROVE Entered'
  <2>1. account' # NoValue
    BY <1>2, EnterFacts, LoadTypes, RenderFacts
  <2> QED
    BY <1>2, <2>1, EnterFacts DEF Entered
<1>3. ASSUME NEW l \in Loads, SignIn(l) \/ Leaves(l) PROVE Entered'
  <2>1. /\ UNCHANGED <<user, account, notice, sub>>
        /\ \A m \in Loads : load'[m] # NoValue => load[m] # NoValue /\ load'[m].history = load[m].history
    <3>1. CASE SignIn(l)
      BY <3>1, SignInFacts DEF seen, told, Asks
    <3>2. CASE Leaves(l)
      BY <3>2, LeaveFacts DEF seen, told
    <3> QED
      BY <1>3, <3>1, <3>2
  <2>2. \/ UNCHANGED <<view, screen, starting>>
        \/ view' = "signin" /\ starting' = "boot"
        \/ view' = "signin" /\ starting' = starting /\ screen' = "fallback"
        \/ view' = view /\ starting' = starting /\ screen' = "fallback"
    BY <1>3, SignInFacts, LeaveFacts DEF slot
  <2> QED
    BY <2>1, <2>2 DEF Entered, Asks
<1>4. CASE Started
  <2>1. CASE user # NoValue
    BY <1>4, <2>1 DEF Started, Entered, seen, told
  <2>2. CASE user = NoValue
    <3>1. starting = "boot" /\ screen' # "empty"
      BY <1>4, <2>2 DEF Started, Entered, TypeOK
    <3> QED
      BY <1>4, <2>2, <3>1 DEF Started, Entered, seen, told, Asks
  <2> QED
    BY <2>1, <2>2
<1>5. CASE SessionChanges
  BY <1>5 DEF SessionChanges, Entered, seen, told, slot, Asks
<1>6. CASE Submit
  BY <1>6 DEF Submit, Entered, seen, told, slot, Asks
<1>7. CASE Serve
  BY <1>7, ServeFacts DEF Entered, seen, told, slot, Asks
<1>8. CASE HandleRecorded
  BY <1>8 DEF HandleRecorded, Entered, seen, told, slot
<1>9. CASE HandleRefused
  BY <1>9 DEF HandleRefused, Entered, seen, told, slot
<1>10. CASE SessionEnded
  BY <1>10 DEF SessionEnded, StartSignIn, Entered, seen, told, slot
<1>11. ASSUME NEW u \in Users, Elsewhere(u) PROVE Entered'
  BY <1>11 DEF Elsewhere, Entered, seen, told, slot, Asks
<1>12. ASSUME NEW l \in Loads, NEW part \in {"account", "history"}, Answer(l, part) PROVE Entered'
  <2>1. /\ \A m \in Loads : load'[m] # NoValue =>
               load[m] # NoValue /\ (load'[m].history # NoValue <=> load[m].history # NoValue)
        /\ UNCHANGED <<session, view, slot, seen, told, sub>>
    BY <1>12, AnswerFacts
  <2> QED
    BY <2>1 DEF Entered, seen, slot, told, Asks
<1>13. ASSUME NEW l \in Loads, LandRefresh(l) \/ LandEnter(l) PROVE Entered'
  <2>1. load[l] # NoValue /\ ~Asks(l) /\ UNCHANGED <<session, user, sub>>
    BY <1>13, LandFacts
  <2>2. user # NoValue
    BY <2>1 DEF Entered
  <2>3. account' # NoValue
    <3>1. IsRead(l, "account") => load[l].account.n \in 0..MaxRows
      BY <2>1, LoadTypes
    <3>2. account # NoValue
      BY <2>2 DEF Entered
    <3> QED
      BY <1>13, <3>1, <3>2, LandFacts, RenderFacts
  <2>4. view' = view \/ view' = "signin"
    BY <1>13 DEF LandRefresh, LandEnter
  <2> QED
    BY <2>1, <2>2, <2>3, <2>4 DEF Entered
<1>14. CASE Reload
  BY <1>14 DEF Reload, Says, Entered
<1>15. CASE UNCHANGED vars
  BY <1>15 DEF vars, Entered, Asks
<1> QED
  BY <1>1, <1>2, <1>3, <1>4, <1>5, <1>6, <1>7, <1>8, <1>9, <1>10, <1>11, <1>12, <1>13, <1>14, <1>15
  DEF Next, Asking, Leaves

-----------------------------------------------------------------------------
(* Whose everything is.                                                    *)

\* What the page shows is changed by readings only.
LEMMA SeenSteps ==
    ASSUME TypeOK, [Next]_vars
    PROVE  \/ \E l \in Loads : Enter(l)
           \/ \E l \in Loads : LandRefresh(l) \/ LandEnter(l)
           \/ Reload
           \/ UNCHANGED <<user, account, rows, missed>> /\ (astray => astray')
<1>1. ASSUME NEW l \in Loads, NEW part \in {"account", "history"},
             Answer(l, part) \/ SignIn(l) \/ NotAdmitted(l) \/ NotAnswered(l)
      PROVE  UNCHANGED <<user, account, rows, missed>> /\ (astray => astray')
  BY <1>1 DEF Answer, SignIn, NotAdmitted, NotAnswered, seen
<1>2. CASE \/ Boot \/ OnCredential \/ Started \/ SessionChanges \/ Submit \/ Serve \/ HandleRecorded
           \/ HandleRefused \/ SessionEnded \/ UNCHANGED vars \/ \E u \in Users : Elsewhere(u)
  BY <1>2 DEF Boot, OnCredential, Started, SessionChanges, Submit, Serve, HandleRecorded, HandleRefused,
     SessionEnded, vars, Elsewhere, seen
<1> QED
  BY <1>1, <1>2 DEF Next

\* A reading that is neither new nor of whoever is asked to sign in is of whom
\* it was of.
LEMMA WhoSteps ==
    ASSUME TypeOK, \A m \in Loads : Gets(m), [Next]_vars, \A m \in Loads : ~Enter(m), ~HandleRecorded,
           NEW l \in Loads, load'[l] # NoValue, ~Asks(l)'
    PROVE  load[l] # NoValue /\ ~Asks(l) /\ load'[l].who = load[l].who
<1>1. CASE UNCHANGED load
  BY <1>1 DEF Asks
<1>2. ASSUME NEW after \in {"boot", "signin"}, Asking(after)
      PROVE  load[l] # NoValue /\ ~Asks(l) /\ load'[l].who = load[l].who
  <2>1. PICK who \in Users \cup {NoValue} : Begin(after, who, NoValue)
    BY <1>2, AskingFacts
  <2>2. load'[l] = load[l] \/ (load'[l] # NoValue /\ load'[l].history = NoValue)
    BY <1>2, <2>1, AskingFacts, BeginFacts
  <2> QED
    BY <2>2 DEF Asks
<1>3. ASSUME NEW m \in Loads, NEW part \in {"account", "history"}, Answer(m, part)
      PROVE  load[l] # NoValue /\ ~Asks(l) /\ load'[l].who = load[l].who
  BY <1>3, AnswerFacts DEF Asks
<1>4. ASSUME NEW m \in Loads, SignIn(m)
      PROVE  load[l] # NoValue /\ ~Asks(l) /\ load'[l].who = load[l].who
  BY <1>4, SignInFacts DEF Asks
<1>5. ASSUME NEW m \in Loads, LandRefresh(m) \/ LandEnter(m) \/ Leaves(m)
      PROVE  load[l] # NoValue /\ ~Asks(l) /\ load'[l].who = load[l].who
  <2>1. load'[m] = NoValue /\ \A k \in Loads \ {m} : load'[k] = load[k]
    BY <1>5, LandFacts, LeaveFacts
  <2> QED
    BY <2>1 DEF Asks
<1>6. CASE Reload
  BY <1>6 DEF Reload
<1> QED
  BY <1>1, <1>2, <1>3, <1>4, <1>5, <1>6, ReadingSteps

\* And it is awaited until it lands.
LEMMA StillAwaited ==
    ASSUME TypeOK, \A m \in Loads : Gets(m), [Next]_vars, ~Reload,
           \A m \in Loads : ~LandRefresh(m) /\ ~LandEnter(m),
           AtRest'
    PROVE  AtRest
<1> SUFFICES ASSUME NEW l \in Loads, load[l] # NoValue, ~Asks(l) PROVE load'[l] # NoValue /\ ~Asks(l)'
  BY DEF AtRest
<1>1. CASE UNCHANGED load
  BY <1>1 DEF Asks
<1>2. ASSUME NEW after \in Outcomes \cup {"boot", "signin"}, NEW who \in Users \cup {NoValue},
             NEW history \in {Asked, NoValue}, Begin(after, who, history)
      PROVE  load'[l] # NoValue /\ ~Asks(l)'
  <2>1. load'[l] = load[l]
    BY <1>2, BeginFacts
  <2> QED
    BY <2>1 DEF Asks
<1>3. ASSUME NEW after \in {"boot", "signin"}, Asking(after) PROVE load'[l] # NoValue /\ ~Asks(l)'
  <2>1. PICK who \in Users \cup {NoValue} : Begin(after, who, NoValue)
    BY <1>3, AskingFacts
  <2> QED
    BY <1>2, <1>3, <2>1, AskingFacts
<1>4. CASE HandleRecorded
  <2>1. sub.kind \in Outcomes /\ Begin(sub.kind, session, Asked) /\ session \in Users \cup {NoValue}
    BY <1>4 DEF HandleRecorded, TypeOK
  <2> QED
    BY <1>2, <2>1
<1>5. ASSUME NEW m \in Loads, NEW part \in {"account", "history"}, Answer(m, part)
      PROVE  load'[l] # NoValue /\ ~Asks(l)'
  BY <1>5, AnswerFacts DEF Asks
<1>6. ASSUME NEW m \in Loads, SignIn(m) \/ Enter(m) \/ Leaves(m) PROVE load'[l] # NoValue /\ ~Asks(l)'
  <2>1. Asks(m) /\ \A k \in Loads \ {m} : load'[k] = load[k]
    BY <1>6, SignInFacts, EnterFacts, LeaveFacts
  <2> QED
    BY <2>1 DEF Asks
<1> QED
  BY <1>1, <1>3, <1>4, <1>5, <1>6, ReadingSteps

LEMMA OwnNext == IInv /\ [Next]_vars => Own'
<1> SUFFICES ASSUME IInv, [Next]_vars, user' # NoValue, ~astray'
             PROVE  /\ account'.user = user'
                    /\ \A l \in Loads : load'[l] # NoValue /\ ~Asks(l)' => load'[l].who \in {user', NoValue}
                    /\ AtRest' /\ ~missed' /\ rows' # NoValue => rows'.user = user'
  BY DEF Own
<1> TypeOK /\ Entered /\ Own /\ \A m \in Loads : Gets(m)
  BY DEF IInv
<1>1. ASSUME NEW l \in Loads, Enter(l)
      PROVE  /\ account'.user = user' /\ ~AtRest'
             /\ \A m \in Loads : load'[m] # NoValue /\ ~Asks(m)' => load'[m].who \in {user', NoValue}
  <2>1. account'.user = user'
    BY <1>1, EnterFacts, LoadTypes, RenderFacts
  <2>2. ~AtRest'
    BY <1>1, EnterFacts DEF AtRest, Asks
  <2>3. load'[l].who \in {user', NoValue}
    BY <1>1, EnterFacts
  <2>4. ASSUME NEW m \in Loads \ {l}, load'[m] # NoValue, ~Asks(m)'
        PROVE  load'[m].who \in {user', NoValue}
    <3>1. load'[m] = load[m] /\ ~OfAnother(m, load[l].who) /\ user' = load[l].who
      BY <1>1, EnterFacts
    <3> QED
      BY <2>4, <3>1 DEF OfAnother, Asks
  <2> QED
    BY <2>1, <2>2, <2>3, <2>4
<1>2. CASE HandleRecorded
  <2>1. /\ UNCHANGED <<user, account>> /\ session \in {user, NoValue} /\ ~astray
        /\ sub.kind \in Outcomes /\ Begin(sub.kind, session, Asked) /\ session \in Users \cup {NoValue}
    BY <1>2 DEF HandleRecorded, seen, TypeOK
  <2>2. PICK l \in Loads :
          /\ load'[l] # NoValue /\ load'[l].who = session /\ load'[l].history = Asked
          /\ \A m \in Loads \ {l} : load'[m] = load[m]
    BY <2>1, BeginFacts
  <2>3. ~AtRest'
    BY <2>2, AnswerTypes DEF AtRest, Asks
  <2> QED
    BY <2>1, <2>2, <2>3 DEF Own, Asks
<1>3. ASSUME NEW l \in Loads, LandRefresh(l) \/ LandEnter(l), ~HandleRecorded, \A m \in Loads : ~Enter(m)
      PROVE  /\ account'.user = user'
             /\ \A m \in Loads : load'[m] # NoValue /\ ~Asks(m)' => load'[m].who \in {user', NoValue}
             /\ ~missed' /\ rows' # NoValue => rows'.user = user'
  <2>1. /\ user' = user /\ ~astray /\ load[l].who \in {user, NoValue}
        /\ account.user = user
    BY <1>3, LandFacts DEF Own
  <2>2. load[l].who \in Users => load[l].who = user
    BY <2>1, Sentinels
  <2>3. account'.user = user
    <3>1. CASE account' = account
      BY <2>1, <3>1
    <3>2. CASE load[l].who \in Users /\ RenderAccount(load[l].who, load[l].account.n)
      BY <2>2, <3>2 DEF RenderAccount
    <3> QED
      BY <1>3, <3>1, <3>2, LandFacts
  <2>4. ~missed' => rows'.user = user
    <3>1. CASE load[l].who \in Users /\ rows' = [user |-> load[l].who, rows |-> load[l].history.n]
      BY <2>2, <3>1
    <3> QED
      BY <1>3, <3>1, LandFacts
  <2> QED
    BY <1>3, <2>1, <2>3, <2>4, WhoSteps DEF Own
<1>4. ASSUME UNCHANGED <<user, account, rows, missed>>, ~astray, ~HandleRecorded, ~Reload,
             \A m \in Loads : ~Enter(m) /\ ~LandRefresh(m) /\ ~LandEnter(m)
      PROVE  /\ account'.user = user'
             /\ \A m \in Loads : load'[m] # NoValue /\ ~Asks(m)' => load'[m].who \in {user', NoValue}
             /\ AtRest' /\ ~missed' /\ rows' # NoValue => rows'.user = user'
  BY <1>4, WhoSteps, StillAwaited DEF Own
<1>5. CASE Reload
  BY <1>5 DEF Reload
<1> QED
  BY <1>1, <1>2, <1>3, <1>4, <1>5, SeenSteps

-----------------------------------------------------------------------------
(* While readings do not overlap.                                          *)

\* A step of a page that is not loaded anew, with one reading at most.
Alone == [Next]_vars /\ ~Reload /\ ~overlap /\ ~overlap'

\* A reading that is the only one has just begun.
Begun(after, history) ==
    \E l \in Loads :
        /\ load'[l] # NoValue /\ load'[l].after = after /\ load'[l].history = history
        /\ ~IsRead(l, "account")' /\ ~IsRead(l, "history")'
        /\ \A m \in Loads \ {l} : load'[m] = NoValue

LEMMA BeginAlone ==
    ASSUME TypeOK, NEW after \in Outcomes \cup {"boot", "signin"}, NEW who \in Users \cup {NoValue},
           NEW history \in {Asked, NoValue}, Begin(after, who, history), ~overlap'
    PROVE  Idle = Loads /\ Begun(after, history)
<1>1. Idle = Loads
  BY BeginFacts
<1>2. \A m \in Loads : load[m] = NoValue
  BY <1>1 DEF Idle
<1> QED
  BY <1>1, <1>2, BeginFacts DEF Begun

\* People are asked for by a page that awaits nothing and announces nothing.
LEMMA AskingAlone ==
    ASSUME IInv, ~overlap, ~overlap', NEW after \in {"boot", "signin"}, Asking(after)
    PROVE  /\ Begun(after, NoValue)
           /\ sub = NoValue /\ ~Announced /\ view # "app"
           /\ after = "boot" => starting = "no"
           /\ UNCHANGED <<ledger, session, view, slot, seen, told, sub, astray, missed, older>>
<1> TypeOK /\ Entered /\ Barred
  BY DEF IInv, Lonely
<1>1. Begun(after, NoValue) /\ UNCHANGED <<ledger, session, view, slot, seen, told, sub, astray, missed, older>>
  <2>1. PICK who \in Users \cup {NoValue} : Begin(after, who, NoValue)
    BY AskingFacts
  <2> QED
    BY <2>1, AskingFacts, BeginAlone
<1>2. CASE Boot /\ after = "boot"
  BY <1>1, <1>2 DEF Boot, Entered, Announced
<1>3. CASE OnCredential /\ after = "signin"
  BY <1>1, <1>3 DEF OnCredential, Barred
<1> QED
  BY <1>2, <1>3 DEF Asking

\* An outcome is announced by a reading of its own.
LEMMA Announcing ==
    ASSUME IInv, ~overlap, ~overlap', HandleRecorded
    PROVE  /\ Begun(sub.kind, Asked) /\ sub.kind \in Outcomes
           /\ user # NoValue /\ sub.user \in Users
           /\ notice' = sub /\ sub # NoValue /\ sub' = NoValue
           /\ astray => astray'
           /\ UNCHANGED <<ledger, session, view, slot, seen, missed, older>>
<1> TypeOK /\ Entered
  BY DEF IInv
<1>1. /\ sub # NoValue /\ sub.kind \in Outcomes /\ Begin(sub.kind, session, Asked)
      /\ notice' = sub /\ sub' = NoValue /\ (astray => astray')
      /\ UNCHANGED <<ledger, session, view, slot, seen, missed, older>>
  BY DEF HandleRecorded, Says
<1>2. Begun(sub.kind, Asked)
  <2>1. session \in Users \cup {NoValue} /\ Asked \in {Asked, NoValue}
    BY DEF TypeOK
  <2> QED
    BY <1>1, <2>1, BeginAlone
<1>3. sub.user \in Users
  BY <1>1, SubKinds
<1> QED
  BY <1>1, <1>2, <1>3 DEF Entered

\* A step that changes neither the readings nor what the page shows.
Aside ==
    /\ UNCHANGED <<load, user, account, rows, missed, older>>
    /\ astray => astray'
    /\ \/ /\ starting # "no" /\ starting' = "no"
          /\ UNCHANGED <<view, notice, addendum, sub>>
       \/ /\ view = "app" /\ sub' = [kind |-> "sent", user |-> session]
          /\ astray' = (astray \/ session \notin {user, NoValue})
          /\ UNCHANGED <<view, slot, notice, addendum>>
       \/ /\ Serve /\ sub # NoValue
          /\ UNCHANGED <<view, slot, notice, addendum>>
       \/ /\ notice' = Refused /\ sub' = NoValue
          /\ UNCHANGED <<view, slot>>
       \/ /\ notice' = NoValue /\ sub # NoValue /\ sub' = NoValue /\ view' = "signin"
       \/ UNCHANGED <<view, slot, notice, addendum, sub>>

LEMMA AloneSteps ==
    ASSUME TypeOK, Books, Alone
    PROVE  \/ \E after \in {"boot", "signin"} : Asking(after)
           \/ HandleRecorded
           \/ \E l \in Loads, part \in {"account", "history"} : Answer(l, part)
           \/ \E l \in Loads : SignIn(l)
           \/ \E l \in Loads : Enter(l)
           \/ \E l \in Loads : Leaves(l)
           \/ \E l \in Loads : LandRefresh(l)
           \/ \E l \in Loads : LandEnter(l)
           \/ Aside
<1> USE DEF Aside, seen, told, slot
<1>1. CASE Boot \/ OnCredential
  BY <1>1 DEF Asking
<1>2. ASSUME NEW l \in Loads, NotAdmitted(l) \/ NotAnswered(l) PROVE Leaves(l)
  BY <1>2 DEF Leaves
<1>3. CASE Started
  BY <1>3 DEF Started
<1>4. CASE SessionChanges
  BY <1>4 DEF SessionChanges
<1>5. CASE Submit
  BY <1>5 DEF Submit
<1>6. CASE Serve
  BY <1>6, ServeFacts
<1>7. CASE HandleRefused
  BY <1>7 DEF HandleRefused, Says
<1>8. CASE SessionEnded
  BY <1>8 DEF SessionEnded, Says, StartSignIn
<1>9. CASE \E u \in Users : Elsewhere(u)
  BY <1>9 DEF Elsewhere
<1>10. CASE UNCHANGED vars
  BY <1>10 DEF vars
<1> QED
  BY <1>1, <1>2, <1>3, <1>4, <1>5, <1>6, <1>7, <1>8, <1>9, <1>10 DEF Alone, Next

LEMMA SingleNext ==
    ASSUME IInv, Alone, NEW l \in Loads, NEW m \in Loads, load'[l] # NoValue, load'[m] # NoValue
    PROVE  l = m
<1> TypeOK /\ Books /\ ~overlap /\ ~overlap' /\ (\A k \in Loads : Gets(k))
  BY DEF IInv, Alone
<1>1. load[l] # NoValue /\ load[m] # NoValue => l = m
  BY DEF IInv, Lonely
<1>2. ASSUME NEW after, NEW history, Begun(after, history) PROVE l = m
  <2>1. \E k \in Loads : \A j \in Loads \ {k} : load'[j] = NoValue
    BY <1>2 DEF Begun
  <2> QED
    BY <2>1
<1>3. ASSUME NEW after \in {"boot", "signin"}, Asking(after) PROVE l = m
  BY <1>2, <1>3, AskingAlone
<1>4. CASE HandleRecorded
  BY <1>2, <1>4, Announcing
<1>5. ASSUME NEW k \in Loads, NEW part \in {"account", "history"}, Answer(k, part) PROVE l = m
  BY <1>1, <1>5, AnswerFacts
<1>6. ASSUME NEW k \in Loads, SignIn(k) \/ Enter(k) \/ Leaves(k) PROVE l = m
  <2>1. load[k] # NoValue /\ \A j \in Loads \ {k} : load'[j] = load[j]
    BY <1>6, SignInFacts, EnterFacts, LeaveFacts
  <2> QED
    BY <1>1, <2>1
<1>7. ASSUME NEW k \in Loads, LandRefresh(k) \/ LandEnter(k) PROVE l = m
  BY <1>1, <1>7, LandFacts
<1>8. CASE Aside
  BY <1>1, <1>8 DEF Aside
<1> QED
  BY <1>3, <1>4, <1>5, <1>6, <1>7, <1>8, AloneSteps

LEMMA BarredNext == ASSUME IInv, Alone PROVE Barred'
<1> TypeOK /\ Books /\ Entered /\ Barred /\ ~overlap /\ ~overlap' /\ (\A k \in Loads : Gets(k) /\ Ahead(k))
  BY DEF IInv, Lonely, Alone
<1>1. ASSUME NEW after \in {"boot", "signin"}, Asking(after) PROVE Barred'
  BY <1>1, AskingFacts DEF Barred, Announced, slot, told
<1>2. CASE HandleRecorded
  BY <1>2, Announcing DEF Barred, slot
<1>3. ASSUME NEW l \in Loads, NEW part \in {"account", "history"}, Answer(l, part) PROVE Barred'
  BY <1>3, AnswerFacts DEF Barred, Announced, slot, told
<1>4. ASSUME NEW l \in Loads, SignIn(l) PROVE Barred'
  BY <1>4, SignInFacts DEF Barred, Announced, slot, told
<1>5. ASSUME NEW l \in Loads, Enter(l) PROVE Barred'
  BY <1>5, EnterFacts DEF Barred
<1>6. ASSUME NEW l \in Loads, Leaves(l) PROVE Barred'
  BY <1>6, LeaveFacts DEF Barred, Ahead, Announced, told
<1>7. ASSUME NEW l \in Loads, LandRefresh(l) PROVE Barred'
  BY <1>7 DEF LandRefresh, Barred, Announced, slot
<1>8. ASSUME NEW l \in Loads, LandEnter(l) PROVE Barred'
  <2>1. CASE UNCHANGED <<view, screen>>
    BY <1>8, <2>1 DEF LandEnter, Barred, Announced, told
  <2>2. CASE ~UNCHANGED <<view, screen>>
    <3>1. load[l] # NoValue /\ load[l].after = "boot" /\ screen' = "fallback"
          /\ UNCHANGED <<starting, notice, sub>>
      BY <1>8, <2>2 DEF LandEnter, told
    <3>2. sub # NoValue \/ Announced => starting = "no"
      BY <3>1 DEF Ahead
    <3> QED
      BY <3>1, <3>2 DEF Barred, Announced
  <2> QED
    BY <2>1, <2>2
<1>9. CASE Aside
  <2>1. Refused.kind \notin Outcomes
    BY DEF Refused, Outcomes
  <2> QED
    BY <1>9, <2>1 DEF Aside, Barred, Announced, slot
<1> QED
  BY <1>1, <1>2, <1>3, <1>4, <1>5, <1>6, <1>7, <1>8, <1>9, AloneSteps

LEMMA FreshNext == ASSUME IInv, Alone PROVE ~older'
<1> TypeOK /\ ~older /\ (\A k \in Loads : Gets(k) /\ Ahead(k))
  BY DEF IInv, Lonely, Alone
<1>1. ASSUME NEW l \in Loads, load[l] # NoValue, IsRead(l, "account"),
             RenderAccount(load[l].who, load[l].account.n)
      PROVE  ~older'
  <2>1. account # NoValue /\ account.user = load[l].who =>
           /\ load[l].account.n >= account.debits
           /\ load[l].account.n \in Nat /\ account.debits \in Nat
    BY <1>1, LoadTypes, BalanceTypes DEF Ahead
  <2> QED
    BY <1>1, <2>1 DEF RenderAccount
<1>2. ~Reload /\ [Next]_vars
  BY DEF Alone
<1> QED
  BY <1>1, <1>2, AccountSteps

LEMMA OneUserNext == ASSUME IInv, Alone PROVE OneUser'
<1> TypeOK /\ Books /\ OneUser /\ ~overlap /\ ~overlap' /\ (\A k \in Loads : Gets(k) /\ Ahead(k))
  BY DEF IInv, Lonely, Alone
<1>1. CASE UNCHANGED <<user, sub, notice>> /\ (astray => astray')
  BY <1>1 DEF OneUser, Announced
<1>2. ASSUME NEW after \in {"boot", "signin"}, Asking(after) PROVE OneUser'
  BY <1>1, <1>2, AskingFacts DEF seen, told
<1>3. CASE HandleRecorded
  BY <1>3, Announcing, Sentinels DEF OneUser, seen
<1>4. ASSUME NEW l \in Loads, NEW part \in {"account", "history"}, Answer(l, part) PROVE OneUser'
  BY <1>1, <1>4, AnswerFacts DEF seen, told
<1>5. ASSUME NEW l \in Loads, SignIn(l) \/ Leaves(l) PROVE OneUser'
  BY <1>1, <1>5, SignInFacts, LeaveFacts DEF seen, told
<1>6. ASSUME NEW l \in Loads, Enter(l) PROVE OneUser'
  BY <1>6, EnterFacts DEF Ahead, OneUser, Announced
<1>7. ASSUME NEW l \in Loads, LandRefresh(l) \/ LandEnter(l) PROVE OneUser'
  BY <1>1, <1>7, LandFacts
<1>8. CASE Aside
  <2>1. UNCHANGED user /\ notice' \in {notice, Refused, NoValue} /\ (astray => astray')
    BY <1>8 DEF Aside
  <2>2. ~astray' /\ sub' # NoValue /\ sub'.kind \in Outcomes \cup {"sent"} => sub'.user \in {user, NoValue}
    <3>1. CASE sub' = [kind |-> "sent", user |-> session]
               /\ astray' = (astray \/ session \notin {user, NoValue})
      BY <3>1
    <3>2. CASE Serve
      <4>1. /\ sub # NoValue /\ sub.kind = "sent"
            /\ sub' \in {Refused, Unauthenticated} \/ sub'.user = sub.user
        BY <3>2, ServeFacts
      <4> QED
        BY <2>1, <4>1 DEF OneUser, Refused, Unauthenticated, Outcomes
    <3>3. CASE sub' \in {sub, NoValue}
      BY <2>1, <3>3 DEF OneUser
    <3> QED
      BY <1>8, <3>1, <3>2, <3>3 DEF Aside
  <2>3. Announced' => Announced /\ notice' = notice
    BY <2>1 DEF Announced, Refused, Outcomes
  <2> QED
    BY <2>1, <2>2, <2>3 DEF OneUser
<1> QED
  BY <1>2, <1>3, <1>4, <1>5, <1>6, <1>7, <1>8, AloneSteps

\* A reading, whatever is in it, is of the ledger as it stands.
LEMMA AnswersAhead ==
    ASSUME IInv, Alone, NEW l \in Loads, NEW part \in {"account", "history"}, Answer(l, part)
    PROVE  Ahead(l)'
<1> TypeOK /\ Books /\ Ahead(l)
  BY DEF IInv, Lonely, Alone
<1>1. /\ load[l] # NoValue
      /\ load'[l].after = load[l].after /\ load'[l].who = load[l].who
      /\ load'[l] # NoValue /\ (load'[l].history # NoValue <=> load[l].history # NoValue)
      /\ IsRead(l, "account")' =>
            \/ IsRead(l, "account") /\ load'[l].account.n = load[l].account.n
            \/ load[l].who # NoValue /\ load'[l].account.n = ledger[load[l].who].debits
      /\ IsRead(l, "history")' =>
            \/ IsRead(l, "history") /\ load'[l].history.n = load[l].history.n
            \/ load[l].who # NoValue /\ load'[l].history.n = ledger[load[l].who].rows
      /\ UNCHANGED <<account, view, starting, notice, sub>>
  BY AnswerFacts DEF seen, told, slot
<1>2. account # NoValue =>
        /\ account.debits <= ledger[account.user].debits
        /\ account.debits \in Nat /\ ledger[account.user].debits \in Nat
  BY BalanceTypes DEF Books
<1>3. Announced => ledger[notice.user].debits >= notice.at.debits /\ ledger[notice.user].rows >= notice.at.rows
  BY DEF Books, Covers
<1>4. IsRead(l, "account")' /\ account # NoValue /\ account.user = load[l].who => load'[l].account.n >= account.debits
  BY <1>1, <1>2 DEF Ahead
<1>5. Announced /\ load[l].who = notice.user =>
        /\ IsRead(l, "account")' => load'[l].account.n >= notice.at.debits
        /\ IsRead(l, "history")' => load'[l].history.n >= notice.at.rows
  BY <1>1, <1>3 DEF Ahead
<1>6. (Announced' <=> Announced) /\ (Asks(l)' <=> Asks(l))
  BY <1>1 DEF Announced, Asks
<1> QED
  BY <1>1, <1>4, <1>5, <1>6 DEF Ahead

\* So is the balance that comes with whoever is signed in.
LEMMA SignInAhead ==
    ASSUME IInv, Alone, NEW l \in Loads, SignIn(l)
    PROVE  Ahead(l)'
<1> TypeOK /\ Books /\ Ahead(l) /\ Gets(l)
  BY DEF IInv, Lonely, Alone
<1>1. /\ load[l] # NoValue /\ Asks(l) /\ load'[l].after = "signin"
      /\ load'[l].who \in Users /\ load'[l].account.n = ledger[load'[l].who].debits
      /\ UNCHANGED <<account, view, starting, notice, sub>>
  BY SignInFacts DEF seen, told, slot
<1>2. account # NoValue =>
        /\ account.debits <= ledger[account.user].debits
        /\ account.debits \in Nat /\ ledger[account.user].debits \in Nat
  BY BalanceTypes DEF Books
<1>3. ~Announced'
  BY <1>1 DEF Ahead, Announced
<1> QED
  BY <1>1, <1>2, <1>3 DEF Ahead

LEMMA AheadNext == ASSUME IInv, Alone, NEW l \in Loads PROVE Ahead(l)'
<1> TypeOK /\ Books /\ Entered /\ ~overlap /\ ~overlap' /\ Ahead(l) /\ (\A k \in Loads : Gets(k))
  BY DEF IInv, Lonely, Alone
<1>0. \A j, k \in Loads : load[j] # NoValue /\ load[k] # NoValue => j = k
  BY DEF IInv, Lonely
<1>1. ASSUME NEW after \in {"boot", "signin"}, Asking(after) PROVE Ahead(l)'
  <2>1. /\ Begun(after, NoValue) /\ sub = NoValue /\ ~Announced /\ view # "app"
        /\ after = "boot" => starting = "no"
        /\ UNCHANGED <<view, starting, notice, sub>>
    BY <1>1, AskingAlone DEF slot, told
  <2>2. load'[l] # NoValue => ~IsRead(l, "account")' /\ load'[l].after = after
    BY <2>1 DEF Begun
  <2> QED
    BY <2>1, <2>2 DEF Ahead, Announced
<1>2. CASE HandleRecorded
  <2>1. Begun(sub.kind, Asked) /\ notice' = sub /\ sub.kind \in Outcomes /\ Asked # NoValue
    BY <1>2, Announcing, AnswerTypes
  <2>2. load'[l] # NoValue =>
          /\ ~IsRead(l, "account")' /\ ~IsRead(l, "history")' /\ ~Asks(l)'
          /\ load'[l].after = sub.kind
    BY <2>1 DEF Begun, Asks
  <2> QED
    BY <2>1, <2>2 DEF Ahead, Outcomes
<1>3. ASSUME NEW m \in Loads, NEW part \in {"account", "history"}, Answer(m, part) PROVE Ahead(l)'
  <2>1. CASE l = m
    BY <1>3, <2>1, AnswersAhead
  <2>2. CASE l # m
    <3>1. load'[l] = NoValue
      BY <1>0, <1>3, <2>2, AnswerFacts
    <3> QED
      BY <3>1 DEF Ahead
  <2> QED
    BY <2>1, <2>2
<1>4. ASSUME NEW m \in Loads, SignIn(m) PROVE Ahead(l)'
  <2>1. CASE l = m
    BY <1>4, <2>1, SignInAhead
  <2>2. CASE l # m
    <3>1. load'[l] = NoValue
      BY <1>0, <1>4, <2>2, SignInFacts
    <3> QED
      BY <3>1 DEF Ahead
  <2> QED
    BY <2>1, <2>2
<1>5. ASSUME NEW m \in Loads, Enter(m) PROVE Ahead(l)'
  <2>1. CASE l = m
    <3>1. /\ load[l] # NoValue /\ Asks(l) /\ load'[l].after = load[l].after
          /\ ~IsRead(l, "account")' /\ ~Asks(l)'
          /\ UNCHANGED <<starting, notice, sub>>
      BY <1>5, <2>1, EnterFacts DEF Asks
    <3> QED
      BY <3>1 DEF Ahead, Announced
  <2>2. CASE l # m
    <3>1. load'[l] = NoValue
      BY <1>0, <1>5, <2>2, EnterFacts
    <3> QED
      BY <3>1 DEF Ahead
  <2> QED
    BY <2>1, <2>2
<1>6. ASSUME NEW m \in Loads, LandRefresh(m) \/ LandEnter(m) \/ Leaves(m) PROVE Ahead(l)'
  <2>1. load[m] # NoValue /\ load'[m] = NoValue /\ \A k \in Loads \ {m} : load'[k] = load[k]
    BY <1>6, LandFacts, LeaveFacts
  <2>2. load'[l] = NoValue
    BY <1>0, <2>1
  <2> QED
    BY <2>2 DEF Ahead
<1>7. CASE Aside
  <2>1. UNCHANGED <<account, load>> /\ notice' \in {notice, Refused, NoValue}
    BY <1>7 DEF Aside
  <2>2. Announced' => Announced /\ notice' = notice
    BY <2>1 DEF Announced, Refused, Outcomes
  <2>3. load[l] # NoValue /\ Asks(l) => sub' = NoValue /\ view' # "app"
    BY <1>7 DEF Aside, Ahead
  <2>4. load[l] # NoValue /\ load[l].after = "boot" /\ (view' = "app" \/ sub' # NoValue \/ Asks(l)) => starting' = "no"
    BY <1>7 DEF Aside, Ahead, slot
  <2> QED
    BY <2>1, <2>2, <2>3, <2>4 DEF Ahead, IsRead, Asks
<1> QED
  BY <1>1, <1>2, <1>3, <1>4, <1>5, <1>6, <1>7, AloneSteps

\* A refresh() that comes after an outcome brings what was announced, or what
\* is somebody else's.
LEMMA RefreshShows == ASSUME IInv, Alone, NEW l \in Loads, LandRefresh(l) PROVE Shown'
<1> TypeOK /\ Ahead(l) /\ Gets(l)
  BY DEF IInv, Lonely, Alone
<1>1. load[l] # NoValue /\ load[l].after \in Outcomes /\ ~Asks(l) /\ notice' = notice
  BY LandFacts DEF LandRefresh
<1>2. load[l].account # NoValue /\ load[l].history # NoValue
  BY <1>1 DEF Gets, Asks
<1>3. \A part \in {"account", "history"} : IsRead(l, part) => load[l].who \in Users
  BY <1>1, LoadTypes DEF Gets
<1> SUFFICES ASSUME Announced
             PROVE  /\ (notice.kind = "recorded" /\ ~addendum') =>
                          /\ ~missed' /\ Below(notice)'
                          /\ account'.user = rows'.user
                          /\ account'.user = notice.user => account'.debits >= notice.at.debits
                    /\ (notice.kind = "declined" /\ ~missed') => Below(notice)'
  BY <1>1 DEF Shown, Announced, Below
<1>4. notice # NoValue
  BY DEF Announced
<1>5. /\ load[l].after = notice.kind
      /\ load[l].who = notice.user =>
            /\ IsRead(l, "account") => load[l].account.n >= notice.at.debits
            /\ IsRead(l, "history") => load[l].history.n >= notice.at.rows
  BY <1>1 DEF Ahead
<1>6. ASSUME IsRead(l, "history"), rows' = [user |-> load[l].who, rows |-> load[l].history.n]
      PROVE  Below(notice)'
  <2>1. load[l].history.n \in 0..MaxRows /\ load[l].who \in Users
    BY <1>1, <1>3, <1>6, LoadTypes
  <2>2. rows' \in History
    BY <1>6, <2>1 DEF History
  <2>3. rows' # NoValue /\ rows'.user = load[l].who /\ rows'.rows = load[l].history.n
    BY <1>6, <2>2, Sentinels
  <2> QED
    BY <1>1, <1>5, <1>6, <2>3 DEF Below
<1>7. ASSUME notice.kind = "recorded", ~addendum'
      PROVE  /\ ~missed' /\ Below(notice)'
             /\ account'.user = rows'.user
             /\ account'.user = notice.user => account'.debits >= notice.at.debits
  <2>1. \A p \in Parts(l) : IsRead(l, p)
    <3>1. addendum' = \/ addendum
                      \/ /\ \E p \in Parts(l) : ~IsRead(l, p)
                         /\ load[l].after # "declined"
                         /\ notice # NoValue
      BY DEF LandRefresh
    <3> QED
      BY <1>4, <1>5, <1>7, <3>1
  <2>2. IsRead(l, "account") /\ IsRead(l, "history")
    BY <1>2, <2>1 DEF Parts
  <2>3. ~Lost(l)
    BY <2>1 DEF Lost, IsRead
  <2>4. RenderAccount(load[l].who, load[l].account.n) /\ RenderTransactions(l)
    BY <2>2, <2>3 DEF LandRefresh
  <2>5. rows' = [user |-> load[l].who, rows |-> load[l].history.n] /\ ~missed'
    BY <2>2, <2>4 DEF RenderTransactions
  <2>6. account'.debits = load[l].account.n /\ account'.user = load[l].who
    BY <2>4 DEF RenderAccount
  <2> QED
    BY <1>5, <1>6, <2>2, <2>5, <2>6
<1>8. ASSUME ~missed' PROVE Below(notice)'
  <2>1. CASE missed' = TRUE
    BY <1>8, <2>1
  <2>2. CASE IsRead(l, "history") /\ rows' = [user |-> load[l].who, rows |-> load[l].history.n]
    BY <1>6, <2>2
  <2> QED
    BY <2>1, <2>2, LandFacts
<1> QED
  BY <1>7, <1>8

LEMMA ShownNext == ASSUME IInv, Alone PROVE Shown'
<1> TypeOK /\ Books /\ Shown /\ ~overlap /\ ~overlap' /\ (\A k \in Loads : Gets(k) /\ Ahead(k))
  BY DEF IInv, Lonely, Alone
<1>0. (\E l \in Loads : load'[l] # NoValue) => Shown'
  BY DEF Shown, Idle
<1>1. ASSUME NEW after \in {"boot", "signin"}, Asking(after) PROVE Shown'
  <2>1. Begun(after, NoValue)
    BY <1>1, AskingAlone
  <2> QED
    BY <1>0, <2>1 DEF Begun
<1>2. CASE HandleRecorded
  <2>1. Begun(sub.kind, Asked)
    BY <1>2, Announcing
  <2> QED
    BY <1>0, <2>1 DEF Begun
<1>3. ASSUME NEW l \in Loads, NEW part \in {"account", "history"}, Answer(l, part) PROVE Shown'
  <2>1. load'[l] # NoValue
    BY <1>3, AnswerFacts
  <2> QED
    BY <1>0, <2>1
<1>4. ASSUME NEW l \in Loads, SignIn(l) \/ Enter(l) PROVE Shown'
  <2>1. load'[l] # NoValue
    BY <1>4, SignInFacts, EnterFacts
  <2> QED
    BY <1>0, <2>1
<1>5. ASSUME NEW l \in Loads, Leaves(l) PROVE Shown'
  <2>1. ~Announced /\ notice' = notice
    BY <1>5, LeaveFacts DEF Ahead, told
  <2> QED
    BY <2>1 DEF Shown, Announced
<1>6. ASSUME NEW l \in Loads, LandEnter(l) PROVE Shown'
  <2>1. load[l] # NoValue /\ load[l].after \in {"boot", "signin"} /\ notice' = notice
    BY <1>6 DEF LandEnter, told
  <2>2. ~Announced
    BY <2>1 DEF Ahead, Announced, Outcomes
  <2> QED
    BY <2>1, <2>2 DEF Shown, Announced
<1>7. CASE Aside
  <2>1. UNCHANGED <<account, rows, load, missed>>
    BY <1>7 DEF Aside
  <2>2. notice' \in {Refused, NoValue} \/ UNCHANGED <<notice, addendum>>
    BY <1>7 DEF Aside
  <2>3. Announced' => Announced /\ UNCHANGED <<notice, addendum>>
    BY <2>2 DEF Announced, Refused, Outcomes
  <2> QED
    BY <2>1, <2>3 DEF Shown, Below, Idle
<1> QED
  BY <1>1, <1>2, <1>3, <1>4, <1>5, <1>6, <1>7, RefreshShows, AloneSteps

LEMMA LonelyNext == IInv /\ [Next]_vars => Lonely'
<1> SUFFICES ASSUME IInv, [Next]_vars, ~overlap' PROVE Lonely'
  BY DEF Lonely
<1>1. CASE Reload
  BY <1>1 DEF Reload, Says, Lonely, Ahead, Barred, OneUser, Announced, Shown
<1>2. CASE ~Reload
  <2>1. TypeOK /\ Books /\ \A k \in Loads : Gets(k)
    BY DEF IInv
  <2>2. ~overlap
    <3>1. ASSUME NEW after \in Outcomes \cup {"boot", "signin"}, NEW who \in Users \cup {NoValue},
                 NEW history \in {Asked, NoValue}, Begin(after, who, history)
          PROVE  ~overlap
      BY <2>1, <3>1, BeginFacts
    <3>2. ASSUME NEW after \in {"boot", "signin"}, Asking(after) PROVE ~overlap
      <4>1. PICK who \in Users \cup {NoValue} : Begin(after, who, NoValue)
        BY <2>1, <3>2, AskingFacts
      <4> QED
        BY <2>1, <3>1, <3>2, <4>1, AskingFacts
    <3>3. CASE HandleRecorded
      <4>1. sub.kind \in Outcomes /\ Begin(sub.kind, session, Asked) /\ session \in Users \cup {NoValue}
        BY <2>1, <3>3 DEF HandleRecorded, TypeOK
      <4> QED
        BY <3>1, <4>1
    <3>4. ASSUME NEW l \in Loads, NEW part \in {"account", "history"},
                 \/ Answer(l, part) \/ SignIn(l) \/ Enter(l) \/ Leaves(l)
                 \/ LandRefresh(l) \/ LandEnter(l)
          PROVE  UNCHANGED overlap
      BY <3>4 DEF Answer, SignIn, Enter, Leaves, NotAdmitted, NotAnswered, LandRefresh, LandEnter
    <3> QED
      BY <1>2, <2>1, <3>2, <3>3, <3>4, ReadingSteps
  <2>3. Alone
    BY <1>2, <2>2 DEF Alone
  <2> QED
    BY <2>3, SingleNext, AheadNext, BarredNext, OneUserNext, ShownNext, FreshNext DEF Lonely
<1> QED
  BY <1>1, <1>2

LEMMA InvInit == Init => IInv
<1> SUFFICES ASSUME Init PROVE IInv
  OBVIOUS
<1>1. TypeOK
  BY TypeInit
<1>2. Books
  BY Sentinels DEF Init, Books, Opened, Announced
<1>3. Entered /\ Own
  BY DEF Init, Entered, Own
<1>4. (\A l \in Loads : Gets(l)) /\ Lonely
  BY DEF Init, Gets, Lonely, Ahead, Barred, OneUser, Announced, Shown
<1> QED
  BY <1>1, <1>2, <1>3, <1>4 DEF IInv

LEMMA InvNext == IInv /\ [Next]_vars => IInv'
<1> SUFFICES ASSUME IInv, [Next]_vars PROVE IInv'
  OBVIOUS
<1>1. TypeOK' /\ Books' /\ Entered' /\ Own' /\ Lonely'
  BY TypeNext, BooksNext, EnteredNext, OwnNext, LonelyNext
<1>2. \A l \in Loads : Gets(l)'
  BY GetsNext
<1> QED
  BY <1>1, <1>2 DEF IInv

-----------------------------------------------------------------------------
(***************************************************************************)
(* The inductive invariant: nothing shown, said or read is ahead of the    *)
(* ledger; unless the page asked with the cookie of somebody else than it  *)
(* shows, what it shows and reads is its user's, in whatever order answers *)
(* come; and while readings do not overlap the one under way knows no less *)
(* than the page of whoever it is of.                                      *)
(***************************************************************************)
THEOREM Invariance == Spec => []IInv
BY InvInit, InvNext, PTL DEF Spec

\* Every variable of the page keeps its type.
THEOREM TypeCorrect == Spec => []TypeOK
<1>1. IInv => TypeOK
  BY DEF IInv
<1> QED
  BY <1>1, Invariance, PTL

(***************************************************************************)
(* app.js:487-488, 441-443, 452: while readings do not overlap, a          *)
(* withdrawal called recorded is in the balance and the history below it,  *)
(* or the notice says that it could not be re-read; one called declined is *)
(* in the history, if one was brought. Balance and history are of one      *)
(* person, another than the notice's only if the page asked with somebody  *)
(* else's cookie.                                                          *)
(***************************************************************************)
THEOREM AnnouncedIsShown == Spec => []OutcomesAreShown
<1>1. IInv => OutcomesAreShown
  <2> SUFFICES ASSUME IInv, Quiet, ~overlap, view = "app", notice # NoValue
               PROVE  /\ (notice.kind = "recorded" /\ ~addendum) =>
                            /\ ShowsRow(notice)
                            /\ account.user = rows.user
                            /\ account.user = notice.user => account.debits >= notice.at.debits
                      /\ (notice.kind = "declined" /\ ~missed) => ShowsRow(notice)
    BY DEF OutcomesAreShown
  <2>1. OneUser /\ Shown /\ Entered /\ Own /\ Idle = Loads
    BY DEF IInv, Lonely, Quiet
  <2>2. ASSUME Announced, ~missed, rows # NoValue, ~astray PROVE rows.user = notice.user
    BY <2>1, <2>2 DEF OneUser, Own, Entered, AtRest, Idle
  <2>3. ASSUME Announced, ~missed, Below(notice) PROVE ShowsRow(notice)
    BY <2>2, <2>3 DEF Below, ShowsRow
  <2> QED
    BY <2>1, <2>3 DEF Shown, Announced, Outcomes
<1> QED
  BY <1>1, Invariance, PTL

(***************************************************************************)
(* README.md:4, 150-151: unless the page asked with the cookie of somebody *)
(* else than it shows, the balance under a name is of that person's        *)
(* account, over ended sessions, other people signing in and answers in    *)
(* any order, and so are the rows once the page has come to rest and the   *)
(* last reading brought a history.                                         *)
(***************************************************************************)
THEOREM OwnersAccount == Spec => []OwnAccountShown
<1>1. IInv => OwnAccountShown
  BY DEF IInv, Own, Entered, OwnAccountShown, Quiet, AtRest, Idle
<1> QED
  BY <1>1, Invariance, PTL

(***************************************************************************)
(* app.js:234-236: what is shown under a later stamp is never older than   *)
(* what was shown before, while readings do not overlap.                   *)
(***************************************************************************)
THEOREM NeverOlder == Spec => []NeverOlderAlone
<1>1. IInv => NeverOlderAlone
  BY DEF IInv, Lonely, NeverOlderAlone
<1> QED
  BY <1>1, Invariance, PTL

(***************************************************************************)
(* app.js:709-713: a page nobody has entered yet ends up with a button or  *)
(* an explanation, whatever answers are lost.                              *)
(***************************************************************************)
THEOREM ColdStart == Spec => []ColdStartIsBuilt
<1>1. IInv => ColdStartIsBuilt
  BY DEF IInv, Entered, ColdStartIsBuilt
<1> QED
  BY <1>1, Invariance, PTL
=============================================================================

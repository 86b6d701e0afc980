--------------------------- MODULE SignInProofs ---------------------------
(***************************************************************************)
(* SignIn keeps one account per user, never meets the conflict its catch   *)
(* block is for, and implements Directory, for any number of visits,       *)
(* subjects and names and any pool size.                                   *)
(***************************************************************************)
EXTENDS SignIn, TLAPS

(* The inductive invariant: TypeOK and OneAccountEach with what each visit *)
(* holds at each place.                                                    *)

Places == {"idle", "connect", "done"} \cup Connected \cup Orphaned

\* A visit has a profile from its arrival on, and no answer while it may succeed.
Answers ==
    \A v \in Visits :
        /\ profile[v] = NoValue <=> pc[v] = "idle"
        /\ pc[v] \in {"idle", "connect", "upsert", "find", "open", "commit", "ack"} =>
              res[v] = NoValue
        /\ pc[v] = "rollback" => res[v] = Failed

\* The row lock of a user: one transaction holds it, from its upsert to its end.
RowLocks ==
    /\ \A v \in Visits :
          /\ pc[v] \in {"find", "open", "commit", "orphan_commit"} => v \in upserted
          /\ pc[v] \in {"idle", "connect", "upsert", "ack", "done"} => v \notin upserted
    /\ \A v, w \in upserted : Owner(v) = Owner(w) => v = w

\* An uncommitted account is opened under the row lock of a user who has none.
Openings ==
    /\ opened \subseteq upserted
    /\ \A v \in opened :
          /\ pc[v] \notin {"find", "open"}
          /\ Owned(v) = {}
          /\ account[v] = Opening(v)

\* The account in hand when the transaction commits, and afterwards.
InHand ==
    \A v \in Visits :
        /\ pc[v] = "open" => Owned(v) = {}
        /\ pc[v] \in {"commit", "orphan_commit"} => v \in opened \/ account[v] \in Owned(v)
        /\ pc[v] = "ack" => account[v] \in Owned(v)

IInv == TypeOK /\ OneAccountEach /\ Answers /\ RowLocks /\ Openings /\ InHand

-----------------------------------------------------------------------------
LEMMA ProfileType ==
    ASSUME TypeOK, Answers, NEW v \in Visits, pc[v] # "idle"
    PROVE  /\ profile[v] \in Profile /\ profile[v] # NoValue
           /\ Owner(v) \in Subs /\ profile[v].name \in Names
           /\ Opening(v) \in Account
BY DirectoryAssumption DEF TypeOK, Answers, Profile, Account, Owner, Opening, DirectoryAssumption

LEMMA TypeInit == Init => TypeOK
BY DEF Init, DirectoryInit, TypeOK, Connected, Orphaned

LEMMA TypeNext == IInv /\ [Next]_vars => TypeOK'
<1> SUFFICES ASSUME IInv, [Next]_vars PROVE TypeOK'
  OBVIOUS
<1> TypeOK /\ Answers
  BY DEF IInv
<1> USE DEF TypeOK, Tables, Session, Goto, Answer, Keep, EndSession, At, Connected, Orphaned
<1>1. ASSUME NEW v \in Visits, NEW p \in Profile, Receive(v, p) PROVE TypeOK'
  BY <1>1 DEF Receive
<1>2. ASSUME NEW v \in Visits, Connect(v) PROVE TypeOK'
  BY <1>2 DEF Connect
<1>3. ASSUME NEW v \in Visits, Upsert(v) PROVE TypeOK'
  BY <1>3 DEF Upsert
<1>4. ASSUME NEW v \in Visits, Find(v) PROVE TypeOK'
  BY <1>4 DEF Find, Owned
<1>5. ASSUME NEW v \in Visits, Open(v) PROVE TypeOK'
  BY <1>5, ProfileType DEF Open
<1>6. ASSUME NEW v \in Visits, Commit(v) PROVE TypeOK'
  BY <1>6, ProfileType DEF Commit, Publish
<1>7. ASSUME NEW v \in Visits, Return(v) PROVE TypeOK'
  BY <1>7 DEF Return
<1>8. ASSUME NEW v \in Visits, Rollback(v) PROVE TypeOK'
  BY <1>8 DEF Rollback
<1>9. ASSUME NEW v \in Visits, StatementFails(v) PROVE TypeOK'
  BY <1>9 DEF StatementFails
<1>10. ASSUME NEW v \in Visits, ConnectionLost(v) PROVE TypeOK'
  BY <1>10 DEF ConnectionLost, Abandoned
<1>11. ASSUME Crash PROVE TypeOK'
  BY <1>11 DEF Crash, Abandoned
<1>12. ASSUME NEW v \in Visits, EndOrphan(v) PROVE TypeOK'
  BY <1>12, ProfileType DEF EndOrphan, Publish
<1>13. CASE UNCHANGED vars
  BY <1>13 DEF vars, directory
<1> QED
  BY <1>1, <1>2, <1>3, <1>4, <1>5, <1>6, <1>7, <1>8, <1>9, <1>10, <1>11, <1>12, <1>13 DEF Next, Serve

-----------------------------------------------------------------------------
(* The committed tables: only the two commits touch them.                  *)

\* v's transaction commits.
Commits(v) ==
    /\ pc[v] \in {"commit", "orphan_commit"}
    /\ Publish(v)
    /\ EndSession(v)
    /\ UNCHANGED <<profile, res, account>>

LEMMA TablesChange ==
    ASSUME [Next]_vars
    PROVE  UNCHANGED Tables \/ \E v \in Visits : Commits(v)
<1> USE DEF Tables
<1>1. ASSUME NEW v \in Visits, Serve(v) PROVE UNCHANGED Tables \/ Commits(v)
  BY <1>1 DEF Serve, Connect, Upsert, Find, Open, Commit, Return, Rollback, EndOrphan, Commits, At
<1>2. ASSUME NEW v \in Visits, StatementFails(v) \/ ConnectionLost(v) PROVE UNCHANGED Tables
  BY <1>2 DEF StatementFails, ConnectionLost
<1>3. ASSUME NEW v \in Visits, NEW p \in Profile, Receive(v, p) PROVE UNCHANGED Tables
  BY <1>3 DEF Receive
<1>4. ASSUME Crash PROVE UNCHANGED Tables
  BY <1>4 DEF Crash
<1>5. CASE UNCHANGED vars
  BY <1>5 DEF vars, directory
<1> QED
  BY <1>1, <1>2, <1>3, <1>4, <1>5 DEF Next

\* What a commit publishes: the user, and an account exactly if there was none.
LEMMA CommitFacts ==
    ASSUME IInv, NEW v \in Visits, Commits(v)
    PROVE  /\ profile[v] # NoValue /\ Owner(v) \in Subs /\ profile[v].name # NoValue
           /\ users' = [users EXCEPT ![Owner(v)] = profile[v].name]
           /\ v \in opened => Owned(v) = {} /\ accounts' = accounts \cup {Opening(v)}
           /\ v \notin opened => account[v] \in Owned(v) /\ accounts' = accounts
<1> TypeOK /\ Answers /\ RowLocks /\ Openings /\ InHand
  BY DEF IInv
<1>1. pc[v] # "idle" /\ v \in upserted
  BY DEF Commits, RowLocks
<1>2. profile[v].name # NoValue
  BY <1>1, ProfileType, DirectoryAssumption DEF DirectoryAssumption
<1> QED
  BY <1>1, <1>2, ProfileType DEF Commits, Publish, Openings, InHand

LEMMA AccountsGrow == IInv /\ [Next]_vars => accounts \subseteq accounts'
<1> SUFFICES ASSUME IInv, [Next]_vars PROVE accounts \subseteq accounts'
  OBVIOUS
<1> QED
  BY TablesChange, CommitFacts DEF Tables

LEMMA OneAccountNext == IInv /\ [Next]_vars => OneAccountEach'
<1> SUFFICES ASSUME IInv, [Next]_vars PROVE OneAccountEach'
  OBVIOUS
<1> USE DEF OneAccountEach
<1> OneAccountEach /\ TypeOK
  BY DEF IInv
<1>1. CASE UNCHANGED Tables
  BY <1>1 DEF Tables
<1>2. ASSUME NEW v \in Visits, Commits(v) PROVE OneAccountEach'
  <2>0. users \in [Subs -> Names \cup {NoValue}]
    BY DEF TypeOK
  <2>1. CASE v \in opened
    <3>1. \A a \in accounts : a.user # Owner(v)
      BY <1>2, <2>1, CommitFacts DEF Owned
    <3>2. accounts' = accounts \cup {Opening(v)} /\ Opening(v).user = Owner(v)
      BY <1>2, <2>1, CommitFacts DEF Opening
    <3> QED
      BY <1>2, <2>0, <3>1, <3>2, CommitFacts
  <2>2. CASE v \notin opened
    <3>1. accounts' = accounts /\ \E a \in accounts : a.user = Owner(v)
      BY <1>2, <2>2, CommitFacts DEF Owned
    <3> QED
      BY <1>2, <2>0, <3>1, CommitFacts
  <2> QED
    BY <2>1, <2>2
<1> QED
  BY <1>1, <1>2, TablesChange

-----------------------------------------------------------------------------
LEMMA AnswersNext == IInv /\ [Next]_vars => Answers'
<1> SUFFICES ASSUME IInv, [Next]_vars PROVE Answers'
  OBVIOUS
<1> TypeOK /\ Answers
  BY DEF IInv
<1> USE DirectoryAssumption
    DEF Answers, TypeOK, DirectoryAssumption, Tables, Session, Goto, Answer, Keep, EndSession, At,
        Connected, Orphaned
<1>1. ASSUME NEW v \in Visits, NEW p \in Profile, Receive(v, p) PROVE Answers'
  BY <1>1 DEF Receive
<1>2. ASSUME NEW v \in Visits, Connect(v) PROVE Answers'
  BY <1>2 DEF Connect
<1>3. ASSUME NEW v \in Visits, Upsert(v) PROVE Answers'
  BY <1>3 DEF Upsert
<1>4. ASSUME NEW v \in Visits, Find(v) PROVE Answers'
  BY <1>4 DEF Find
<1>5. ASSUME NEW v \in Visits, Open(v) PROVE Answers'
  BY <1>5 DEF Open
<1>6. ASSUME NEW v \in Visits, Commit(v) PROVE Answers'
  BY <1>6 DEF Commit, Publish
<1>7. ASSUME NEW v \in Visits, Return(v) PROVE Answers'
  BY <1>7 DEF Return
<1>8. ASSUME NEW v \in Visits, Rollback(v) PROVE Answers'
  BY <1>8 DEF Rollback
<1>9. ASSUME NEW v \in Visits, StatementFails(v) PROVE Answers'
  BY <1>9 DEF StatementFails
<1>10. ASSUME NEW v \in Visits, ConnectionLost(v) PROVE Answers'
  BY <1>10 DEF ConnectionLost, Abandoned
<1>11. ASSUME Crash PROVE Answers'
  BY <1>11 DEF Crash, Abandoned
<1>12. ASSUME NEW v \in Visits, EndOrphan(v) PROVE Answers'
  BY <1>12 DEF EndOrphan, Publish
<1>13. CASE UNCHANGED vars
  BY <1>13 DEF vars, directory
<1> QED
  BY <1>1, <1>2, <1>3, <1>4, <1>5, <1>6, <1>7, <1>8, <1>9, <1>10, <1>11, <1>12, <1>13 DEF Next, Serve

LEMMA RowLocksNext == IInv /\ [Next]_vars => RowLocks'
<1> SUFFICES ASSUME IInv, [Next]_vars PROVE RowLocks'
  OBVIOUS
<1> TypeOK /\ RowLocks
  BY DEF IInv
<1> USE DEF RowLocks, TypeOK, Owner, UserLocked, Tables, Session, Goto, Answer, Keep, EndSession, At,
            Connected, Orphaned
<1>1. ASSUME NEW v \in Visits, NEW p \in Profile, Receive(v, p) PROVE RowLocks'
  BY <1>1 DEF Receive
<1>2. ASSUME NEW v \in Visits, Connect(v) PROVE RowLocks'
  BY <1>2 DEF Connect
<1>3. ASSUME NEW v \in Visits, Upsert(v) PROVE RowLocks'
  BY <1>3 DEF Upsert
<1>4. ASSUME NEW v \in Visits, Find(v) PROVE RowLocks'
  BY <1>4 DEF Find
<1>5. ASSUME NEW v \in Visits, Open(v) PROVE RowLocks'
  BY <1>5 DEF Open
<1>6. ASSUME NEW v \in Visits, Commit(v) PROVE RowLocks'
  BY <1>6 DEF Commit, Publish
<1>7. ASSUME NEW v \in Visits, Return(v) PROVE RowLocks'
  BY <1>7 DEF Return
<1>8. ASSUME NEW v \in Visits, Rollback(v) PROVE RowLocks'
  BY <1>8 DEF Rollback
<1>9. ASSUME NEW v \in Visits, StatementFails(v) PROVE RowLocks'
  BY <1>9 DEF StatementFails
<1>10. ASSUME NEW v \in Visits, ConnectionLost(v) PROVE RowLocks'
  BY <1>10 DEF ConnectionLost, Abandoned
<1>11. ASSUME Crash PROVE RowLocks'
  BY <1>11 DEF Crash, Abandoned
<1>12. ASSUME NEW v \in Visits, EndOrphan(v) PROVE RowLocks'
  BY <1>12 DEF EndOrphan, Publish
<1>13. CASE UNCHANGED vars
  BY <1>13 DEF vars, directory
<1> QED
  BY <1>1, <1>2, <1>3, <1>4, <1>5, <1>6, <1>7, <1>8, <1>9, <1>10, <1>11, <1>12, <1>13 DEF Next, Serve

\* A commit adds no account to a user whose row another transaction has locked.
LEMMA OwnedNext ==
    ASSUME IInv, [Next]_vars, NEW w \in upserted, profile'[w] = profile[w],
           pc[w] \notin {"commit", "orphan_commit"} \/ w \in upserted'
    PROVE  Owned(w)' = Owned(w)
<1> TypeOK /\ RowLocks /\ Openings
  BY DEF IInv
<1>1. CASE UNCHANGED Tables
  BY <1>1 DEF Tables, Owned, Owner
<1>2. ASSUME NEW v \in Visits, Commits(v) PROVE Owned(w)' = Owned(w)
  <2>1. v # w /\ w \in Visits
    BY <1>2 DEF Commits, EndSession, TypeOK
  <2>2. v \in upserted
    BY <1>2 DEF Commits, RowLocks
  <2>3. Owner(v) # Owner(w)
    BY <2>1, <2>2 DEF RowLocks
  <2>4. accounts' = accounts \/ accounts' = accounts \cup {Opening(v)}
    BY <1>2, CommitFacts
  <2>5. Opening(v).user # profile'[w].sub
    BY <2>3 DEF Opening, Owner
  <2> QED
    BY <2>4, <2>5 DEF Owned, Owner
<1> QED
  BY <1>1, <1>2, TablesChange

LEMMA OpeningsNext == IInv /\ [Next]_vars => Openings'
<1> SUFFICES ASSUME IInv, [Next]_vars PROVE Openings'
  OBVIOUS
<1> TypeOK /\ RowLocks /\ Openings
  BY DEF IInv
<1>0. \A w \in upserted : profile'[w] = profile[w] /\ w \in upserted' => Owned(w)' = Owned(w)
  BY OwnedNext
<1>a. UNCHANGED <<accounts, profile>> => \A w \in Visits : Owned(w)' = Owned(w)
  BY DEF Owned, Owner
<1> USE <1>0 DEF Openings, RowLocks, TypeOK, Opening, Owner, Tables, Session, Goto, Answer, Keep, EndSession, At,
            Connected, Orphaned
<1>1. ASSUME NEW v \in Visits, NEW p \in Profile, Receive(v, p) PROVE Openings'
  BY <1>1 DEF Receive
<1>2. ASSUME NEW v \in Visits, Connect(v) PROVE Openings'
  BY <1>2 DEF Connect
<1>3. ASSUME NEW v \in Visits, Upsert(v) PROVE Openings'
  BY <1>3 DEF Upsert
<1>4. ASSUME NEW v \in Visits, Find(v) PROVE Openings'
  BY <1>4 DEF Find
<1>5. ASSUME NEW v \in Visits, Open(v) PROVE Openings'
  BY <1>5, <1>a DEF Open
<1>6. ASSUME NEW v \in Visits, Commit(v) PROVE Openings'
  BY <1>6 DEF Commit, Publish
<1>7. ASSUME NEW v \in Visits, Return(v) PROVE Openings'
  BY <1>7 DEF Return
<1>8. ASSUME NEW v \in Visits, Rollback(v) PROVE Openings'
  BY <1>8 DEF Rollback
<1>9. ASSUME NEW v \in Visits, StatementFails(v) PROVE Openings'
  BY <1>9 DEF StatementFails
<1>10. ASSUME NEW v \in Visits, ConnectionLost(v) PROVE Openings'
  BY <1>10 DEF ConnectionLost, Abandoned
<1>11. ASSUME Crash PROVE Openings'
  BY <1>11 DEF Crash, Abandoned
<1>12. ASSUME NEW v \in Visits, EndOrphan(v) PROVE Openings'
  BY <1>12 DEF EndOrphan, Publish
<1>13. CASE UNCHANGED vars
  BY <1>13 DEF vars, directory
<1> QED
  BY <1>1, <1>2, <1>3, <1>4, <1>5, <1>6, <1>7, <1>8, <1>9, <1>10, <1>11, <1>12, <1>13 DEF Next, Serve

LEMMA InHandNext == IInv /\ [Next]_vars => InHand'
<1> SUFFICES ASSUME IInv, [Next]_vars PROVE InHand'
  OBVIOUS
<1> TypeOK /\ RowLocks /\ Openings /\ InHand
  BY DEF IInv
<1>0. \A w \in upserted : profile'[w] = profile[w] /\ w \in upserted' => Owned(w)' = Owned(w)
  BY OwnedNext
<1>a. \A w \in Visits : profile'[w] = profile[w] => Owned(w) \subseteq Owned(w)'
  BY AccountsGrow DEF Owned, Owner
<1> USE <1>0, <1>a DEF InHand, RowLocks, TypeOK, Tables, Session, Goto, Answer, Keep, EndSession, At,
            Connected, Orphaned
<1>1. ASSUME NEW v \in Visits, NEW p \in Profile, Receive(v, p) PROVE InHand'
  BY <1>1 DEF Receive
<1>2. ASSUME NEW v \in Visits, Connect(v) PROVE InHand'
  BY <1>2 DEF Connect
<1>3. ASSUME NEW v \in Visits, Upsert(v) PROVE InHand'
  BY <1>3 DEF Upsert
<1>4. ASSUME NEW v \in Visits, Find(v) PROVE InHand'
  BY <1>4 DEF Find
<1>5. ASSUME NEW v \in Visits, Open(v) PROVE InHand'
  BY <1>5 DEF Open
<1>6. ASSUME NEW v \in Visits, Commit(v) PROVE InHand'
  <2>1. Commits(v) /\ profile' = profile
    BY <1>6 DEF Commits, Commit
  <2>2. v \in opened => account[v] = Opening(v) /\ account[v] \in accounts'
    BY <2>1, CommitFacts DEF Openings
  <2>3. v \in opened => account[v] \in Owned(v)'
    BY <2>1, <2>2 DEF Opening, Owned, Owner
  <2> QED
    BY <1>6, <2>3 DEF Commit
<1>7. ASSUME NEW v \in Visits, Return(v) PROVE InHand'
  BY <1>7 DEF Return
<1>8. ASSUME NEW v \in Visits, Rollback(v) PROVE InHand'
  BY <1>8 DEF Rollback
<1>9. ASSUME NEW v \in Visits, StatementFails(v) PROVE InHand'
  BY <1>9 DEF StatementFails
<1>10. ASSUME NEW v \in Visits, ConnectionLost(v) PROVE InHand'
  BY <1>10 DEF ConnectionLost, Abandoned
<1>11. ASSUME Crash PROVE InHand'
  BY <1>11 DEF Crash, Abandoned
<1>12. ASSUME NEW v \in Visits, EndOrphan(v) PROVE InHand'
  BY <1>12 DEF EndOrphan
<1>13. CASE UNCHANGED vars
  BY <1>13 DEF vars, directory
<1> QED
  BY <1>1, <1>2, <1>3, <1>4, <1>5, <1>6, <1>7, <1>8, <1>9, <1>10, <1>11, <1>12, <1>13 DEF Next, Serve

-----------------------------------------------------------------------------
LEMMA InvInit == Init => IInv
<1> SUFFICES ASSUME Init PROVE IInv
  OBVIOUS
<1>1. OneAccountEach /\ Answers /\ RowLocks /\ Openings /\ InHand
  BY DEF Init, DirectoryInit, OneAccountEach, Answers, RowLocks, Openings, InHand
<1> QED
  BY <1>1, TypeInit DEF IInv

LEMMA InvNext == IInv /\ [Next]_vars => IInv'
BY TypeNext, OneAccountNext, AnswersNext, RowLocksNext, OpeningsNext, InHandNext DEF IInv

\* The strengthened invariant: what a visit holds at each place of signIn().
THEOREM Invariance == Spec => []IInv
BY InvInit, InvNext, PTL DEF Spec

\* The tables and every visit's state keep their types.
THEOREM TypeCorrect == Spec => []TypeOK
<1>1. IInv => TypeOK
  BY DEF IInv
<1> QED
  BY <1>1, Invariance, PTL

(***************************************************************************)
(* A user has an account and no more than one, an account has its user,    *)
(* however many visits sign the same person in at once and whatever breaks *)
(* between two statements of any of them.                                  *)
(***************************************************************************)
THEOREM OneAccount == Spec => []OneAccountEach
<1>1. IInv => OneAccountEach
  BY DEF IInv
<1> QED
  BY <1>1, Invariance, PTL

(***************************************************************************)
(* The INSERT of openAccount never waits and never raises 23505: whoever   *)
(* reaches it holds the row of a user without an account.                  *)
(***************************************************************************)
THEOREM NeverConflicting == Spec => []NoAccountConflict
<1>1. IInv => NoAccountConflict
  BY DEF IInv, RowLocks, Openings, InHand, TypeOK, NoAccountConflict, AccountClaimed, At
<1> QED
  BY <1>1, Invariance, PTL

-----------------------------------------------------------------------------
(* Every step is a step of the directory or leaves it alone.               *)

LEMMA CommitEnters ==
    ASSUME IInv, NEW v \in Visits, Commits(v)
    PROVE  Enter(v)
<1> TypeOK /\ Openings
  BY DEF IInv
<1>1. v \notin opened => Owned(v) # {} /\ accounts' = accounts
  BY CommitFacts
<1>2. v \in opened => Owned(v) = {} /\ accounts' = accounts \cup {Opening(v)}
  BY CommitFacts
<1> QED
  BY <1>1, <1>2, CommitFacts DEF Enter, Commits

\* A visit under way is answered with an error, once or again.
LEMMA FailureAnswers ==
    ASSUME IInv, NEW v \in Visits, pc[v] \in Connected, Answer(v, Failed),
           UNCHANGED <<users, accounts, profile>>
    PROVE  AnswerWith(v, Failed) \/ UNCHANGED directory
<1> TypeOK /\ Answers
  BY DEF IInv
<1>1. profile[v] # NoValue /\ res \in [Visits -> Account \cup {NoValue, Failed}]
  BY DEF Answers, Connected, TypeOK
<1>2. CASE pc[v] = "rollback"
  BY <1>1, <1>2 DEF Answers, Answer, directory
<1>3. CASE pc[v] # "rollback"
  BY <1>1, <1>3 DEF Answers, Answer, AnswerWith, Connected
<1> QED
  BY <1>2, <1>3

LEMMA StepImplements == IInv /\ [Next]_vars => [DirectoryNext]_directory
<1> SUFFICES ASSUME IInv, [Next]_vars PROVE DirectoryNext \/ UNCHANGED directory
  BY DEF DirectoryNext
<1> TypeOK /\ Answers /\ InHand
  BY DEF IInv
<1>1. ASSUME NEW v \in Visits, NEW p \in Profile, Receive(v, p) PROVE Arrive(v, p)
  BY <1>1 DEF Receive, Arrive, Answers, At, Tables
<1>2. ASSUME NEW v \in Visits,
             Connect(v) \/ Upsert(v) \/ Find(v) \/ Rollback(v)
      PROVE  UNCHANGED directory
  BY <1>2 DEF Connect, Upsert, Find, Rollback, Tables, directory
<1>3. ASSUME NEW v \in Visits, Open(v) PROVE AnswerWith(v, Failed) \/ UNCHANGED directory
  BY <1>3, FailureAnswers DEF Open, At, Connected, Tables, directory
<1>4. ASSUME NEW v \in Visits, Commit(v) PROVE Enter(v)
  BY <1>4, CommitEnters DEF Commit, Commits, At
<1>5. ASSUME NEW v \in Visits, Return(v) PROVE AnswerOwned(v)
  BY <1>5 DEF Return, AnswerOwned, AnswerWith, Answer, Answers, InHand, At, Tables
<1>6. ASSUME NEW v \in Visits, StatementFails(v) \/ ConnectionLost(v)
      PROVE  AnswerWith(v, Failed) \/ UNCHANGED directory
  BY <1>6, FailureAnswers DEF StatementFails, ConnectionLost, Connected, Tables
<1>7. ASSUME Crash PROVE UNCHANGED directory
  BY <1>7 DEF Crash, Tables, directory
<1>8. ASSUME NEW v \in Visits, EndOrphan(v) PROVE Enter(v) \/ UNCHANGED directory
  <2>1. CASE At(v, "orphan")
    BY <1>8, <2>1 DEF EndOrphan, At, Tables, directory
  <2>2. CASE At(v, "orphan_commit")
    BY <1>8, <2>2, CommitEnters DEF EndOrphan, Commits, At
  <2> QED
    BY <1>8, <2>1, <2>2 DEF EndOrphan
<1>9. CASE UNCHANGED vars
  BY <1>9 DEF vars
<1> QED
  BY <1>1, <1>2, <1>3, <1>4, <1>5, <1>6, <1>7, <1>8, <1>9 DEF Next, Serve, DirectoryNext

(***************************************************************************)
(* signIn() implements the directory: the only steps seen by a reader of   *)
(* the tables are indivisible entries, and the account a session is minted *)
(* for is committed and its user's own.                                    *)
(***************************************************************************)
THEOREM Refinement == Spec => ImplementsDirectory
<1>1. Init => DirectoryInit
  BY DEF Init
<1> QED
  BY <1>1, Invariance, StepImplements, PTL DEF Spec, ImplementsDirectory, DirectorySpec
=============================================================================

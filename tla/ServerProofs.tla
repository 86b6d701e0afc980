---------------------------- MODULE ServerProofs ---------------------------
(***************************************************************************)
(* What the server process says in time and before it goes. The windows of *)
(* Token hold for any number of tabs, any clocks, lifetimes and allowances:*)
(* what a page shows of a verdict is right about the moment of the verdict.*)
(* The safety properties of Lifecycle hold for any number of connections,  *)
(* any size of the pool and any number of requests. The two specifications *)
(* have no variable in common.                                             *)
(***************************************************************************)
EXTENDS Token, Lifecycle, TLAPS

-----------------------------------------------------------------------------
(* Token.                                                                  *)

\* A token on its way or judged is the one Google minted for this very page.
Carries(t) ==
    /\ page[t] \in Pages
    /\ token[t] \in Tokens
    /\ token[t].minted <= now
    /\ token[t].iat = token[t].minted + drift
    /\ token[t].nbf <= token[t].iat
    /\ token[t].exp = token[t].iat + TokenLife
    /\ token[t].aud = page[t].client
    /\ token[t].nonce = page[t].nonce

Verdicts == {"in", "stale", "rejected"}

\* The three properties, of one tab.
Accepted(t) == stage[t] = "in" =>
    /\ judged[t].at <= page[t].nonce.issuedAt + NonceTtl
    /\ page[t].nonce.secret = NonceSecret(judged[t].env)
    /\ judged[t].at <= token[t].minted + TokenLife + Skew + drift
    /\ judged[t].env.client = page[t].client

Rejected(t) == stage[t] = "rejected" =>
    \/ drift \notin -Skew..Skew
    \/ judged[t].at > token[t].minted + TokenLife
    \/ ~token[t].verified
    \/ judged[t].env.client # page[t].client

Stale(t) == stage[t] = "stale" =>
    /\ \/ judged[t].at > page[t].nonce.issuedAt + NonceTtl
       \/ page[t].nonce.secret # NonceSecret(judged[t].env)
    /\ judged[t].env.client = page[t].client
    /\ judged[t].at + Skew >= token[t].minted + drift
    /\ judged[t].at <= token[t].minted + TokenLife + Skew + drift

Sound(t) ==
    /\ stage[t] = "ready" => page[t] \in Pages
    /\ stage[t] \in {"holding", "asking"} \cup Verdicts => Carries(t)
    /\ Accepted(t) /\ Rejected(t) /\ Stale(t)

IInv == TypeOK /\ \A t \in Tabs : Sound(t)

-----------------------------------------------------------------------------
\* A server signs with the secret it is configured with, or with the fallback.
LEMMA SecretType ==
    ASSUME env \in Envs
    PROVE  NonceSecret(env) \in Secrets \cup {"ledger-nonce"}
BY DEF NonceSecret, Envs

\* A tab that nothing happens to stays sound while the clock goes on.
LEMMA Untouched ==
    ASSUME TypeOK, NEW u \in Tabs, Sound(u), now' \in 0..MaxTime, now <= now',
           drift' = drift, stage'[u] = stage[u], page'[u] = page[u],
           token'[u] = token[u], judged'[u] = judged[u]
    PROVE  Sound(u)'
<1>1. token[u] \in Tokens => token[u].minted \in Int
  BY DEF Tokens
<1>2. now \in Int /\ now' \in Int
  BY DEF TypeOK
<1>3. Carries(u) => Carries(u)'
  BY <1>1, <1>2 DEF Carries
<1> QED BY <1>3 DEF Sound, Accepted, Rejected, Stale, Verdicts, NonceSecret

\* The verdict on a token Google minted for this page is right at that moment.
LEMMA Judged ==
    ASSUME IInv, NEW t \in Tabs, Judge(t)
    PROVE  Sound(t)'
<1> USE TokenAssumption
<1>1. /\ stage[t] = "asking" /\ stage'[t] = Verdict(t)
      /\ judged'[t] = [at |-> now, env |-> env]
      /\ now' = now /\ drift' = drift /\ page' = page /\ token' = token
  BY DEF Judge, Goes, IInv, TypeOK
<1>2. Carries(t)
  BY <1>1 DEF IInv, Sound
<1>3. Carries(t)'
  BY <1>1, <1>2 DEF Carries
<1>4. judged'[t].at = now /\ judged'[t].env = env
  BY <1>1
<1>5. /\ now \in Int /\ drift \in Int
      /\ token[t].minted \in Int /\ token[t].iat \in Int /\ token[t].nbf \in Int
      /\ token[t].exp \in Int /\ page[t].nonce.issuedAt \in Int
  BY <1>2 DEF IInv, TypeOK, Carries, Tokens, Pages, Nonces
<1>6. Accepted(t)'
  BY <1>1, <1>2, <1>4, <1>5
     DEF Accepted, Verdict, NonceIsOurs, InTime, Clock, Carries, NonceSecret
<1>7. Rejected(t)'
  <2> SUFFICES ASSUME Verdict(t) = "rejected", drift \in -Skew..Skew,
                      now <= token[t].minted + TokenLife, token[t].verified,
                      env.client = page[t].client
               PROVE  FALSE
    BY <1>1, <1>4, <1>5 DEF Rejected
  <2>1. ~InTime(token[t], now)
    BY <1>2 DEF Verdict, Clock, Carries
  <2> QED BY <2>1, <1>2, <1>5 DEF InTime, Carries
<1>8. Stale(t)'
  BY <1>1, <1>2, <1>4, <1>5
     DEF Stale, Verdict, NonceIsOurs, InTime, Clock, Carries, NonceSecret
<1> QED BY <1>1, <1>3, <1>6, <1>7, <1>8 DEF Sound, Verdict, Verdicts

-----------------------------------------------------------------------------
\* The sign-in starts sound.
LEMMA Initially == Init => IInv
BY TokenAssumption DEF Init, IInv, TypeOK, Stages, Sound, Verdicts, Accepted, Rejected, Stale

\* Every step keeps the type of the variables.
LEMMA TypeStep ==
    ASSUME IInv, [Next]_vars
    PROVE  TypeOK'
<1> USE TokenAssumption DEF IInv, TypeOK
<1>1. CASE Tick
  BY <1>1 DEF Tick
<1>2. CASE Restart
  BY <1>2 DEF Restart, Stages
<1>3. ASSUME NEW t \in Tabs, Config(t) PROVE TypeOK'
  <2>1. env.client # NoValue =>
           [client |-> env.client, nonce |-> IssueNonce] \in Pages
    BY SecretType DEF Pages, Nonces, IssueNonce, Envs
  <2> QED BY <1>3, <2>1 DEF Config, Goes, Stages
<1>4. ASSUME NEW t \in Tabs, Mint(t) PROVE TypeOK'
  <2>1. page[t] \in Pages
    BY <1>4 DEF Mint, Goes, Sound
  <2>2. ASSUME NEW verified \in BOOLEAN, NEW early \in {0, Skew}
        PROVE  [iat |-> now + drift, nbf |-> now + drift - early,
                exp |-> now + drift + TokenLife, aud |-> page[t].client,
                nonce |-> page[t].nonce, verified |-> verified, minted |-> now] \in Tokens
    BY <2>1 DEF Pages, Tokens
  <2>3. \E tok \in Tokens : token' = [token EXCEPT ![t] = tok]
    BY <1>4, <2>2, Zenon DEF Mint
  <2>4. token' \in [Tabs -> Tokens \cup {NoValue}]
    BY <2>3
  <2>5. stage' \in [Tabs -> Stages] /\ UNCHANGED <<now, drift, env, page, asked, judged>>
    BY <1>4 DEF Mint, Goes, Stages
  <2> QED BY <2>4, <2>5
<1>5. ASSUME NEW t \in Tabs, Ask(t) PROVE TypeOK'
  BY <1>5 DEF Ask, Goes, Stages
<1>6. ASSUME NEW t \in Tabs, Judge(t) PROVE TypeOK'
  <2>1. [at |-> now, env |-> env] \in Judgements
    BY DEF Judgements
  <2>2. Verdict(t) \in Stages
    BY DEF Verdict, Stages
  <2> QED BY <1>6, <2>1, <2>2 DEF Judge, Goes
<1>7. ASSUME NEW t \in Tabs, NoKey(t) \/ Lose(t) \/ Reload(t) PROVE TypeOK'
  BY <1>7 DEF NoKey, Lose, Reload, Goes, Stages
<1>8. CASE UNCHANGED vars
  BY <1>8 DEF vars
<1> QED BY <1>1, <1>2, <1>3, <1>4, <1>5, <1>6, <1>7, <1>8 DEF Next

\* Every step leaves every tab sound.
LEMMA SoundStep ==
    ASSUME IInv, [Next]_vars, NEW u \in Tabs
    PROVE  Sound(u)'
<1> USE TokenAssumption
<1>0. TypeOK /\ TypeOK' /\ Sound(u)
  BY TypeStep DEF IInv
<1>1. CASE Tick
  <2>1. now <= now' /\ UNCHANGED <<drift, stage, page, token, judged>>
    BY <1>0, <1>1 DEF Tick, TypeOK
  <2> QED BY <1>0, <2>1, Untouched DEF TypeOK
<1>2. CASE Restart
  <2>1. CASE stage[u] = "asking"
    BY <1>0, <1>2, <2>1 DEF Restart, TypeOK, Sound, Verdicts, Accepted, Rejected, Stale, Carries
  <2>2. CASE stage[u] # "asking"
    <3>1. /\ now <= now' /\ drift' = drift /\ stage'[u] = stage[u] /\ page'[u] = page[u]
          /\ token'[u] = token[u] /\ judged'[u] = judged[u]
      BY <1>0, <1>2, <2>2 DEF Restart, TypeOK
    <3> QED BY <1>0, <3>1, Untouched DEF TypeOK
  <2> QED BY <2>1, <2>2
<1>3. ASSUME NEW t \in Tabs, u # t,
             \/ Config(t) \/ Mint(t) \/ Ask(t) \/ Judge(t)
             \/ NoKey(t) \/ Lose(t) \/ Reload(t)
      PROVE  Sound(u)'
  <2>1. /\ now <= now' /\ drift' = drift /\ stage'[u] = stage[u] /\ page'[u] = page[u]
        /\ token'[u] = token[u] /\ judged'[u] = judged[u]
    BY <1>0, <1>3 DEF Config, Mint, Ask, Judge, NoKey, Lose, Reload, Goes, TypeOK
  <2> QED BY <1>0, <2>1, Untouched DEF TypeOK
<1>4. CASE Config(u)
  <2>1. env.client # NoValue =>
           [client |-> env.client, nonce |-> IssueNonce] \in Pages
    BY <1>0, SecretType DEF TypeOK, Pages, Nonces, IssueNonce, Envs
  <2> QED BY <1>0, <1>4, <2>1 DEF Config, Goes, TypeOK, Sound, Verdicts, Accepted, Rejected, Stale
<1>5. CASE Mint(u)
  <2>1. page[u] \in Pages /\ page' = page /\ now' = now /\ drift' = drift
        /\ stage'[u] = "holding"
    BY <1>0, <1>5 DEF Mint, Goes, Sound, TypeOK
  <2>2. PICK verified \in BOOLEAN, early \in {0, Skew} :
           token'[u] = [iat |-> now + drift, nbf |-> now + drift - early,
                exp |-> now + drift + TokenLife, aud |-> page[u].client,
                nonce |-> page[u].nonce, verified |-> verified, minted |-> now]
    BY <1>0, <1>5 DEF Mint, TypeOK
  <2>3. now \in Int /\ drift \in Int /\ now + drift - early <= now + drift
    BY <1>0 DEF TypeOK
  <2>4. token'[u] \in Tokens
    BY <1>0, <2>1, <2>2, <2>3 DEF TypeOK, Tokens, Pages
  <2>5. Carries(u)'
    BY <2>1, <2>2, <2>3, <2>4 DEF Carries
  <2> QED BY <2>1, <2>5 DEF Sound, Accepted, Rejected, Stale
<1>6. CASE Ask(u)
  <2>1. stage[u] = "holding" /\ stage'[u] \in {"unavailable", "asking"}
        /\ UNCHANGED <<now, drift, page, token>>
    BY <1>0, <1>6 DEF Ask, Goes, TypeOK
  <2>2. Carries(u) /\ Carries(u)'
    BY <1>0, <2>1 DEF Sound, Carries
  <2> QED BY <2>1, <2>2 DEF Sound, Accepted, Rejected, Stale, Verdicts
<1>7. CASE Judge(u)
  BY <1>7, Judged
<1>8. CASE NoKey(u) \/ Reload(u)
  <2>1. stage'[u] \in {"unavailable", "blank"}
    BY <1>0, <1>8 DEF NoKey, Reload, Goes, TypeOK
  <2> QED BY <2>1 DEF Sound, Accepted, Rejected, Stale, Verdicts
<1>9. CASE Lose(u)
  <2>1. stage[u] \in {"holding", "asking"} /\ stage'[u] = "ready" /\ page' = page
    BY <1>0, <1>9 DEF Lose, Goes, TypeOK
  <2> QED BY <1>0, <2>1 DEF Sound, Carries, Accepted, Rejected, Stale, Verdicts
<1>10. CASE UNCHANGED vars
  <2>1. UNCHANGED <<now, drift, stage, page, token, judged>> /\ now <= now'
    BY <1>0, <1>10 DEF vars, TypeOK
  <2> QED BY <1>0, <2>1, Untouched DEF TypeOK
<1> QED BY <1>1, <1>2, <1>3, <1>4, <1>5, <1>6, <1>7, <1>8, <1>9, <1>10 DEF Next

\* googleAuth.ts:184-275: for every number of tabs, every clock, lifetime and
\* allowance, what a page shows of a verdict is right about the moment of it.
THEOREM Windows == Spec => []IInv
<1>1. IInv /\ [Next]_vars => IInv'
  BY TypeStep, SoundStep DEF IInv
<1> QED BY Initially, <1>1, PTL DEF Spec

\* Every variable of the sign-in keeps its type.
THEOREM TypeCorrect == Spec => []TypeOK
<1>1. IInv => TypeOK
  BY DEF IInv
<1> QED BY <1>1, Windows, PTL

\* googleAuth.ts:12-14, 21: nobody signs in past the window of the page's nonce or
\* more than the allowance after the token ran out.
THEOREM Punctual == Spec => []AcceptedInTime
<1>1. IInv => AcceptedInTime
  BY DEF IInv, Sound, Accepted, AcceptedInTime
<1> QED BY <1>1, Windows, PTL

\* googleAuth.ts:12-14: clocks within the allowance never reject a genuine token.
THEOREM Lenient == Spec => []GenuineAccepted
<1>1. IInv => GenuineAccepted
  BY DEF IInv, Sound, Rejected, GenuineAccepted
<1> QED BY <1>1, Windows, PTL

\* app.js:616-617: a page is loaded anew for its nonce alone, whose window has
\* passed or whose secret is another, and never with a token whose party or time
\* is refused. (One whose e-mail address is not verified may be among them.)
THEOREM ForTheNonce == Spec => []ReloadedForTheNonce
<1>1. IInv => ReloadedForTheNonce
  BY DEF IInv, Sound, Stale, ReloadedForTheNonce
<1> QED BY <1>1, Windows, PTL

-----------------------------------------------------------------------------
(* Lifecycle.                                                              *)

\* Before the schema is there nothing is connected, once the pool is ended
\* nobody is, and nothing outlives the process. Who is queued has one to take yet.
LifeIInv ==
    /\ ProcessTypeOK
    /\ phase = "migrating" => \A c \in Conns : conn[c] = "closed" /\ work[c] = "none"
    /\ phase \in {"listening", "closing", "ending"} => tables
    /\ phase \in {"ending", "exited"} => \A c \in Conns : conn[c] = "closed"
    /\ phase = "exited" => \A c \in Conns : work[c] = "none"
    /\ \A c \in Conns : work[c] = "queued" => takes[c] < MaxTakes
    /\ failed = {}

\* The process starts with nothing connected and nothing under way.
LEMMA ProcessInitially == ProcessInit => LifeIInv
<1> SUFFICES ASSUME ProcessInit PROVE LifeIInv
  OBVIOUS
<1>1. 0 \in 0..MaxTakes /\ 0 \in 0..MaxRequests
  BY LifecycleAssumption
<1>2. /\ conn \in [Conns -> {"closed", "idle", "busy"}]
      /\ work \in [Conns -> {"none", "queued", "holding"}]
      /\ takes \in [Conns -> 0..MaxTakes] /\ sent \in [Conns -> 0..MaxRequests]
  BY <1>1 DEF ProcessInit
<1>3. callbacks \in 0..2
  BY DEF ProcessInit
<1>4. failed \subseteq Conns /\ tables \in BOOLEAN
  BY Zenon DEF ProcessInit
<1>5. /\ phase \in {"migrating", "listening", "closing", "ending", "exited"}
      /\ exit \in {"none", "clean", "failed"}
      /\ exit = "none" <=> phase # "exited"
  BY DEF ProcessInit
<1>6. ProcessTypeOK
  BY <1>2, <1>3, <1>4, <1>5, Zenon DEF ProcessTypeOK
<1> QED BY <1>6 DEF ProcessInit, LifeIInv

\* Every step keeps the invariant; the request that still has a caller is on an
\* open connection, and there is none once the pool is ended.
LEMMA ProcessPreserved == LifeIInv /\ [ProcessNext]_processVars => LifeIInv'
<1> SUFFICES ASSUME LifeIInv, [ProcessNext]_processVars PROVE LifeIInv'
  OBVIOUS
<1> USE LifecycleAssumption DEF LifeIInv, ProcessTypeOK
<1>1. CASE Migrate
  BY <1>1 DEF Migrate, Exits
<1>2. CASE Signal
  BY <1>2 DEF Signal, Exits
<1>3. CASE Drained
  BY <1>3 DEF Drained, Exits
<1>4. CASE Exit
  BY <1>4 DEF Exit, Exits
<1>5. ASSUME NEW c \in Conns, Connect(c) PROVE LifeIInv'
  BY <1>5 DEF Connect
<1>6. ASSUME NEW c \in Conns, Request(c) PROVE LifeIInv'
  BY <1>6 DEF Request
<1>7. ASSUME NEW c \in Conns, Leave(c) PROVE LifeIInv'
  BY <1>7 DEF Leave
<1>8. ASSUME NEW c \in Conns, Take(c) PROVE LifeIInv'
  BY <1>8 DEF Take
<1>9. ASSUME NEW c \in Conns, Release(c) PROVE LifeIInv'
  BY <1>9 DEF Release, Answered
<1>10. ASSUME NEW c \in Conns, TakeRefused(c) PROVE LifeIInv'
  BY <1>10 DEF TakeRefused, Answered
<1>11. CASE UNCHANGED processVars
  BY <1>11 DEF processVars
<1> QED BY <1>1, <1>2, <1>3, <1>4, <1>5, <1>6, <1>7, <1>8, <1>9, <1>10, <1>11 DEF ProcessNext

\* The inductive invariant of the process holds throughout its life.
THEOREM ProcessInvariance == ProcessSpec => []LifeIInv
BY ProcessInitially, ProcessPreserved, PTL DEF ProcessSpec

\* Every variable of the process keeps its type.
THEOREM ProcessTypeCorrect == ProcessSpec => []ProcessTypeOK
<1>1. LifeIInv => ProcessTypeOK
  BY DEF LifeIInv
<1> QED BY <1>1, ProcessInvariance, PTL

\* server.ts:9: no handler meets a database without tables.
THEOREM TablesAreThere == ProcessSpec => []TablesFirst
<1>1. LifeIInv => TablesFirst
  BY DEF LifeIInv, ProcessTypeOK, TablesFirst
<1> QED BY <1>1, ProcessInvariance, PTL

\* server.ts:18-20: nobody who waits for an answer is told that the pool is ended.
THEOREM Served == ProcessSpec => []NobodyCutOff
<1>1. LifeIInv => NobodyCutOff
  BY DEF LifeIInv, NobodyCutOff
<1> QED BY <1>1, ProcessInvariance, PTL
=============================================================================

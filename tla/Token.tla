------------------------------- MODULE Token -------------------------------
(***************************************************************************)
(* The windows of time in a Google sign-in: src/googleAuth.ts issues a     *)
(* nonce with the sign-in page, Google mints a token that carries it, by a *)
(* clock of its own, and verifyGoogleIdToken judges both after it has      *)
(* waited for the signing keys (the subject of Jwks). In between time      *)
(* passes, requests are lost and sent again, and the server restarts, with *)
(* the configuration it had or with another.                               *)
(*                                                                         *)
(* Time is in whole seconds, as in the claims. Signatures are the          *)
(* platform's: a nonce is ours when its secret is.                         *)
(***************************************************************************)
EXTENDS Integers

CONSTANTS
    Tabs,           \* pages open in browsers
    Secrets,        \* what SESSION_SECRET may be set to
    Clients,        \* what GOOGLE_CLIENT_ID may be set to
    Skew,           \* CLOCK_SKEW_SECONDS
    NonceTtl,       \* NONCE_TTL_SECONDS
    TokenLife,      \* how long Google makes a token good for
    MaxDrift,       \* bound: Google's clock is at most so far from ours
    MaxTime,        \* bound: the last second
    NoValue         \* not configured, nothing there

ASSUME TokenAssumption ==
    /\ Skew \in Nat /\ NonceTtl \in Nat /\ TokenLife \in Nat
    /\ MaxDrift \in Nat /\ MaxTime \in Nat
    /\ NoValue \notin Clients

VARIABLES
    now,        \* the server's clock
    drift,      \* how far Google's clock is ahead of it
    env,        \* GOOGLE_CLIENT_ID and SESSION_SECRET of the server process
    stage,      \* of each tab, how far the sign-in is
    page,       \* of each tab, what /auth/config gave it
    token,      \* of each tab, the credential Google gave it
    asked,      \* history: when the request of a tab reached the server
    judged      \* history: when its claims were judged, by which configuration

vars == <<now, drift, env, stage, page, token, asked, judged>>

Envs == [client : Clients \cup {NoValue}, secret : Secrets \cup {NoValue}]

\* "asking" waits in verifyGoogleIdToken for the signing key. Then the page is
\* in, or told NONCE_INVALID ("stale"), any other fault of the claims
\* ("rejected"), or of the configuration or the keys ("unavailable").
Stages == {"blank", "ready", "holding", "asking", "in", "stale", "rejected",
           "unavailable"}

Nonces == [issuedAt : 0..MaxTime, secret : Secrets \cup {"ledger-nonce"}]
Pages == [client : Clients, nonce : Nonces]

\* The claims that are read, and as history when the token was minted by the
\* server's clock.
Tokens == [iat : Int, nbf : Int, exp : Int, aud : Clients, nonce : Nonces,
           verified : BOOLEAN, minted : 0..MaxTime]

Judgements == [at : 0..MaxTime, env : Envs]

-----------------------------------------------------------------------------
Init ==
    /\ now = 0
    /\ drift \in -MaxDrift..MaxDrift
    /\ env \in Envs
    /\ stage = [t \in Tabs |-> "blank"]
    /\ page = [t \in Tabs |-> NoValue]
    /\ token = [t \in Tabs |-> NoValue]
    /\ asked = [t \in Tabs |-> 0]
    /\ judged = [t \in Tabs |-> NoValue]

Goes(t, from, to) ==
    /\ stage[t] \in from
    /\ stage' = [stage EXCEPT ![t] = to]

Tick ==
    /\ now < MaxTime
    /\ now' = now + 1
    /\ UNCHANGED <<drift, env, stage, page, token, asked, judged>>

\* The nonce needs no state: with no secret configured the same fallback is
\* taken by every process, so a restart alone does not end it.
NonceSecret(by) == IF by.secret = NoValue THEN "ledger-nonce" ELSE by.secret

\* issueNonce
IssueNonce == [issuedAt |-> now, secret |-> NonceSecret(env)]

\* GET /auth/config, and the button when the server is configured
Config(t) ==
    /\ \/ /\ env.client # NoValue
          /\ Goes(t, {"blank"}, "ready")
          /\ page' = [page EXCEPT ![t] = [client |-> env.client, nonce |-> IssueNonce]]
       \/ /\ env.client = NoValue
          /\ Goes(t, {"blank"}, "unavailable")
          /\ UNCHANGED page
    /\ UNCHANGED <<now, drift, env, token, asked, judged>>

\* Google signs the user in and calls back with a token.
Mint(t) ==
    /\ Goes(t, {"ready"}, "holding")
    /\ \E verified \in BOOLEAN, early \in {0, Skew} :
          token' = [token EXCEPT ![t] =
              [iat |-> now + drift, nbf |-> now + drift - early,
               exp |-> now + drift + TokenLife, aud |-> page[t].client,
               nonce |-> page[t].nonce, verified |-> verified, minted |-> now]]
    /\ UNCHANGED <<now, drift, env, page, asked, judged>>

\* verifyGoogleIdToken up to `await signingKey(kid)`
Ask(t) ==
    /\ Goes(t, {"holding"}, IF env.client = NoValue THEN "unavailable" ELSE "asking")
    /\ asked' = [asked EXCEPT ![t] = now]
    /\ UNCHANGED <<now, drift, env, page, token, judged>>

-----------------------------------------------------------------------------
\* Fault variant: it is read when the request comes in.
ClockBefore(t) == asked[t]

\* The moment the claims are judged at is read after the await.
Clock(t) == now

\* Fault variant: no allowance for Google's clock being ahead.
InTimeUnskewed(claims, at) ==
    /\ claims.exp + Skew >= at
    /\ claims.iat <= at
    /\ claims.nbf <= at

InTime(claims, at) ==
    /\ claims.exp + Skew >= at
    /\ claims.iat - Skew <= at
    /\ claims.nbf - Skew <= at

\* Fault variant: the last second of the window is left out.
NonceIsOursBefore(nonce, at) ==
    /\ nonce.secret = NonceSecret(env)
    /\ nonce.issuedAt + NonceTtl > at

\* assertNonceIsOurs
NonceIsOurs(nonce, at) ==
    /\ nonce.secret = NonceSecret(env)
    /\ nonce.issuedAt + NonceTtl >= at

\* Fault variant: the nonce is judged first.
VerdictNonceFirst(t) ==
    IF ~NonceIsOurs(token[t].nonce, Clock(t)) THEN "stale"
    ELSE IF token[t].aud # env.client \/ ~InTime(token[t], Clock(t)) THEN "rejected"
    ELSE IF ~token[t].verified THEN "rejected"
    ELSE "in"

\* The checks come in this order: the party the token is for (iss, aud, azp) and
\* the windows, the nonce, and the identity (sub, email, email_verified).
\* onCredential loads the page anew when it is stale, and shows anything else in
\* place of the button.
Verdict(t) ==
    IF token[t].aud # env.client \/ ~InTime(token[t], Clock(t)) THEN "rejected"
    ELSE IF ~NonceIsOurs(token[t].nonce, Clock(t)) THEN "stale"
    ELSE IF ~token[t].verified THEN "rejected"
    ELSE "in"

\* signingKey is there and the signature good: verifyGoogleIdToken to its end.
Judge(t) ==
    /\ Goes(t, {"asking"}, Verdict(t))
    /\ judged' = [judged EXCEPT ![t] = [at |-> now, env |-> env]]
    /\ asked' = [asked EXCEPT ![t] = 0]
    /\ UNCHANGED <<now, drift, env, page, token>>

\* signingKey fails
NoKey(t) ==
    /\ Goes(t, {"asking"}, "unavailable")
    /\ asked' = [asked EXCEPT ![t] = 0]
    /\ UNCHANGED <<now, drift, env, page, token, judged>>

\* The request or its answer is lost: the button is still there.
Lose(t) ==
    /\ Goes(t, {"holding", "asking"}, "ready")
    /\ asked' = [asked EXCEPT ![t] = 0]
    /\ token' = [token EXCEPT ![t] = NoValue]
    /\ UNCHANGED <<now, drift, env, page, judged>>

Reload(t) ==
    /\ Goes(t, Stages \ {"blank"}, "blank")
    /\ page' = [page EXCEPT ![t] = NoValue]
    /\ token' = [token EXCEPT ![t] = NoValue]
    /\ judged' = [judged EXCEPT ![t] = NoValue]
    /\ UNCHANGED <<now, drift, env, asked>>

\* The process ends, what it was answering is lost, and it starts again,
\* perhaps configured otherwise.
Restart ==
    /\ env' \in Envs
    /\ stage' = [t \in Tabs |-> IF stage[t] = "asking" THEN "ready" ELSE stage[t]]
    /\ token' = [t \in Tabs |-> IF stage[t] = "asking" THEN NoValue ELSE token[t]]
    /\ asked' = [t \in Tabs |-> 0]
    /\ UNCHANGED <<now, drift, page, judged>>

Next ==
    \/ Tick
    \/ Restart
    \/ \E t \in Tabs : \/ Config(t) \/ Mint(t) \/ Ask(t) \/ Judge(t)
                       \/ NoKey(t) \/ Lose(t) \/ Reload(t)

Spec == Init /\ [][Next]_vars

-----------------------------------------------------------------------------
\* Every variable of the sign-in keeps its type.
TypeOK ==
    /\ now \in 0..MaxTime
    /\ drift \in -MaxDrift..MaxDrift
    /\ env \in Envs
    /\ stage \in [Tabs -> Stages]
    /\ page \in [Tabs -> Pages \cup {NoValue}]
    /\ token \in [Tabs -> Tokens \cup {NoValue}]
    /\ asked \in [Tabs -> 0..MaxTime]
    /\ judged \in [Tabs -> Judgements \cup {NoValue}]

(***************************************************************************)
(* googleAuth.ts:12-14, 21: whoever is signed in was served the page no    *)
(* longer than NonceTtl ago at that moment, however long the keys took and *)
(* however often the token was sent, and by a process of the same secret;  *)
(* and the token had run out for at most Skew, give or take the drift.     *)
(***************************************************************************)
AcceptedInTime ==
    \A t \in Tabs : stage[t] = "in" =>
        /\ judged[t].at <= page[t].nonce.issuedAt + NonceTtl
        /\ page[t].nonce.secret = NonceSecret(judged[t].env)
        /\ judged[t].at <= token[t].minted + TokenLife + Skew + drift
        /\ judged[t].env.client = page[t].client

(***************************************************************************)
(* googleAuth.ts:12-14: "rejecting a genuine token because of five seconds *)
(* of skew is a worse failure than honouring one five minutes late." While *)
(* the clocks are no further apart than Skew, the claims of a token that   *)
(* is judged within its life are not what a sign-in is rejected for.       *)
(***************************************************************************)
GenuineAccepted ==
    \A t \in Tabs : stage[t] = "rejected" =>
        \/ drift \notin -Skew..Skew
        \/ judged[t].at > token[t].minted + TokenLife
        \/ ~token[t].verified
        \/ judged[t].env.client # page[t].client

(***************************************************************************)
(* app.js:616-617: the page is loaded anew because it was "left open past  *)
(* its window", or because the secret is another: never for a restart      *)
(* alone, and never with a token that is for another party, or outside its *)
(* life by Google's clock at that moment, give or take the allowance. The  *)
(* identity is judged after the nonce (googleAuth.ts:257, 259-267): a page *)
(* whose nonce is stale is loaded anew though its token is not verified.   *)
(***************************************************************************)
ReloadedForTheNonce ==
    \A t \in Tabs : stage[t] = "stale" =>
        /\ \/ judged[t].at > page[t].nonce.issuedAt + NonceTtl
           \/ page[t].nonce.secret # NonceSecret(judged[t].env)
        /\ judged[t].env.client = page[t].client
        /\ judged[t].at + Skew >= token[t].minted + drift
        /\ judged[t].at <= token[t].minted + TokenLife + Skew + drift
=============================================================================

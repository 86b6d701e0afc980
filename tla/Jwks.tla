------------------------------- MODULE Jwks -------------------------------
(***************************************************************************)
(* Google's signing keys as src/googleAuth.ts caches them: signingKey(),   *)
(* loadJwks() and fetchJwks() over one event loop. A sign-in that finds no *)
(* fresh key set, or a fresh one without the key it needs, joins the fetch *)
(* in flight or starts one, and goes on when that fetch has settled. The   *)
(* continuations of a settled fetch are microtasks: they run before the    *)
(* loop takes the next request, and take no time.                          *)
(*                                                                         *)
(* Google, outside, publishes a set of key ids that it may change at any   *)
(* time, and answers a fetch with the usable keys it publishes when the    *)
(* fetch reaches it, or not at all.                                        *)
(***************************************************************************)
EXTENDS Integers, Sequences, FiniteSetsExt

CONSTANTS
    SignIns,    \* calls of signingKey(), each with the key id of its token
    Kids,       \* key ids
    MaxAges,    \* max-age values Google sends, in ticks; 0 is an absent one
    Cooldown,   \* REFRESH_COOLDOWN_MS, in ticks
    MinTtl,     \* MIN_JWKS_TTL_MS, in ticks
    MaxTtl,     \* MAX_JWKS_TTL_MS, in ticks
    Horizon,    \* bound: the last tick
    None        \* nothing cached, no fetch in flight, no outcome

\* A cached key set, and when it expires.
KeySet == [keys : SUBSET Kids, expiresAt : Nat]

ASSUME JwksAssumption ==
    /\ None \notin KeySet \cup Nat \cup {"key", "unrecognised", "unavailable"}
    /\ {Cooldown, MinTtl, MaxTtl, Horizon} \cup MaxAges \subseteq Nat
    /\ 0 < Cooldown /\ Cooldown <= MinTtl /\ MinTtl <= MaxTtl

VARIABLES
    now,            \* Date.now(), in ticks
    cached,         \* the cached key set and when it expires
    inFlight,       \* the fetch a caller joins (an index of fetches)
    lastFetchedAt,
    fetches,        \* every fetch() made, and how it stands
    published,      \* the usable keys of Google's answer, were it asked now
    pc,             \* where each sign-in is
    kid,            \* the key id its token names
    joined,         \* the fetch it awaits
    asked,          \* history: how many fetches had failed when it asked
    res             \* "key", "unrecognised" (401), "unavailable" (503)

vars == <<now, cached, inFlight, lastFetchedAt, fetches, published, pc, kid, joined, asked, res>>

caller == <<pc, kid, joined, asked, res>>
cache == <<cached, inFlight, lastFetchedAt>>

-----------------------------------------------------------------------------
Fetch == [at : Nat, forced : BOOLEAN, state : {"sent", "answered", "loaded", "failed"},
          keys : SUBSET Kids, maxAge : MaxAges \cup {0}]

Outstanding == {f \in DOMAIN fetches : fetches[f].state \in {"sent", "answered"}}

Failures == Cardinality({f \in DOMAIN fetches : fetches[f].state = "failed"})

\* Continuations that are ready to run.
Resumable(c) ==
    pc[c] \in {"first", "second"} /\ fetches[joined[c]].state \in {"loaded", "failed"}

Quiet == \A c \in SignIns : ~Resumable(c)

\* Fault variant: max-age is honoured as it is sent.
TtlAsSent(maxAge) == maxAge

Ttl(maxAge) == Min({Max({maxAge, MinTtl}), MaxTtl})

Fresh == cached # None /\ cached.expiresAt > now

InCooldown == now - lastFetchedAt < Cooldown

Answer(c, outcome) ==
    /\ res' = [res EXCEPT ![c] = outcome]
    /\ pc' = [pc EXCEPT ![c] = "done"]

NewFetch(forced) ==
    [at |-> now, forced |-> forced, state |-> "sent", keys |-> {}, maxAge |-> 0]

\* Fault variant: every caller fetches for itself.
LoadAlone(c, place, forced) ==
    /\ fetches' = Append(fetches, NewFetch(forced))
    /\ inFlight' = Len(fetches) + 1
    /\ joined' = [joined EXCEPT ![c] = inFlight']
    /\ pc' = [pc EXCEPT ![c] = place]
    /\ UNCHANGED res

\* loadJwks: c awaits the fetch in flight, which it starts if there is none.
Load(c, place, forced) ==
    /\ \/ /\ inFlight = None
          /\ fetches' = Append(fetches, NewFetch(forced))
          /\ inFlight' = Len(fetches) + 1
       \/ /\ inFlight # None
          /\ UNCHANGED <<fetches, inFlight>>
    /\ joined' = [joined EXCEPT ![c] = inFlight']
    /\ pc' = [pc EXCEPT ![c] = place]
    /\ UNCHANGED res

\* Fault variant: an unknown key is rejected without asking Google again.
LookForOnce(c, k, keys) ==
    /\ Answer(c, IF k \in keys THEN "key" ELSE "unrecognised")
    /\ UNCHANGED <<fetches, inFlight, joined>>

\* signingKey, from the moment it holds a key set on.
LookFor(c, k, keys) ==
    \/ /\ k \in keys
       /\ Answer(c, "key")
       /\ UNCHANGED <<fetches, inFlight, joined>>
    \/ /\ k \notin keys
       /\ InCooldown
       /\ Answer(c, "unrecognised")
       /\ UNCHANGED <<fetches, inFlight, joined>>
    \/ /\ k \notin keys
       /\ ~InCooldown
       /\ Load(c, "second", TRUE)

-----------------------------------------------------------------------------
\* `lastFetchedAt = 0` is long ago.
Init ==
    /\ now = 0
    /\ cached = None
    /\ inFlight = None
    /\ lastFetchedAt = -Cooldown
    /\ fetches = <<>>
    /\ published \in SUBSET Kids
    /\ pc = [c \in SignIns |-> "idle"]
    /\ kid \in [SignIns -> Kids]
    /\ joined = [c \in SignIns |-> None]
    /\ asked = [c \in SignIns |-> 0]
    /\ res = [c \in SignIns |-> None]

\* signingKey is called.
Ask(c) ==
    /\ pc[c] = "idle"
    /\ Quiet
    /\ asked' = [asked EXCEPT ![c] = Failures]
    /\ \/ Fresh /\ LookFor(c, kid[c], cached.keys)
       \/ ~Fresh /\ Load(c, "first", FALSE)
    /\ UNCHANGED <<now, cached, lastFetchedAt, published, kid>>

\* The first await of signingKey settles.
ResumeFirst(c) ==
    /\ pc[c] = "first"
    /\ LET f == fetches[joined[c]] IN
          \/ f.state = "loaded" /\ LookFor(c, kid[c], f.keys)
          \/ /\ f.state = "failed"
             /\ Answer(c, "unavailable")
             /\ UNCHANGED <<fetches, inFlight, joined>>
    /\ UNCHANGED <<now, cached, lastFetchedAt, published, kid, asked>>

\* The second one: the key is in the set Google sent, or is rejected.
ResumeSecond(c) ==
    /\ pc[c] = "second"
    /\ LET f == fetches[joined[c]] IN
          \/ /\ f.state = "loaded"
             /\ Answer(c, IF kid[c] \in f.keys THEN "key" ELSE "unrecognised")
          \/ f.state = "failed" /\ Answer(c, "unavailable")
    /\ UNCHANGED <<now, cache, fetches, published, kid, joined, asked>>

\* Fault variant: an absent max-age is not a number.
LoadedWithoutDefault(f) ==
    /\ fetches[f].state = "answered"
    /\ fetches[f].keys # {}
    /\ fetches' = [fetches EXCEPT ![f].state = "loaded"]
    /\ lastFetchedAt' = now
    /\ cached' = [keys |-> fetches[f].keys,
                  expiresAt |-> IF fetches[f].maxAge = 0 THEN None
                                ELSE now + Ttl(fetches[f].maxAge)]
    /\ inFlight' = None
    /\ UNCHANGED <<now, published, caller>>

\* fetchJwks has read a usable key set.
Loaded(f) ==
    /\ fetches[f].state = "answered"
    /\ fetches[f].keys # {}
    /\ fetches' = [fetches EXCEPT ![f].state = "loaded"]
    /\ lastFetchedAt' = now
    /\ cached' = [keys |-> fetches[f].keys, expiresAt |-> now + Ttl(fetches[f].maxAge)]
    /\ inFlight' = None
    /\ UNCHANGED <<now, published, caller>>

\* Fault variant: the rejected promise stays in flight.
FailedForGood(f) ==
    /\ \/ fetches[f].state = "sent"
       \/ fetches[f].state = "answered" /\ fetches[f].keys = {}
    /\ fetches' = [fetches EXCEPT ![f].state = "failed"]
    /\ UNCHANGED <<now, cache, published, caller>>

\* fetch() rejects, the status is not 2xx, or no key of the answer is usable.
FetchFails(f) ==
    /\ \/ fetches[f].state = "sent"
       \/ fetches[f].state = "answered" /\ fetches[f].keys = {}
    /\ fetches' = [fetches EXCEPT ![f].state = "failed"]
    /\ inFlight' = None
    /\ UNCHANGED <<now, cached, lastFetchedAt, published, caller>>

-----------------------------------------------------------------------------
\* Google answers a fetch.
Respond(f) ==
    /\ fetches[f].state = "sent"
    /\ \E maxAge \in MaxAges :
          fetches' = [fetches EXCEPT ![f].state = "answered", ![f].keys = published,
                                     ![f].maxAge = maxAge]
    /\ UNCHANGED <<now, cache, published, caller>>

Rotate ==
    /\ published' \in SUBSET Kids
    /\ UNCHANGED <<now, cache, fetches, caller>>

Tick ==
    /\ now < Horizon
    /\ Quiet
    /\ now' = now + 1
    /\ UNCHANGED <<cache, fetches, published, caller>>

Next ==
    \/ \E c \in SignIns : Ask(c) \/ ResumeFirst(c) \/ ResumeSecond(c)
    \/ \E f \in DOMAIN fetches : Loaded(f) \/ FetchFails(f) \/ Respond(f)
    \/ Rotate
    \/ Tick

Spec == Init /\ [][Next]_vars

-----------------------------------------------------------------------------
\* Every variable keeps its type.
TypeOK ==
    /\ now \in 0..Horizon
    /\ cached \in KeySet \cup {None}
    /\ inFlight = None \/ inFlight \in DOMAIN fetches
    /\ lastFetchedAt \in Int
    /\ fetches \in Seq(Fetch)
    /\ published \subseteq Kids
    /\ pc \in [SignIns -> {"idle", "first", "second", "done"}]
    /\ kid \in [SignIns -> Kids]
    /\ joined \in [SignIns -> DOMAIN fetches \cup {None}]
    /\ asked \in [SignIns -> Nat]
    /\ res \in [SignIns -> {"key", "unrecognised", "unavailable", None}]

(***************************************************************************)
(* "One in-flight fetch is shared by every concurrent sign-in": Google     *)
(* never has two of our requests to answer, also after failures.           *)
(***************************************************************************)
SingleFetch ==
    Cardinality(Outstanding) <= 1

\* The fetch in flight is the only one Google has to answer.
Flight ==
    /\ Outstanding = IF inFlight = None THEN {} ELSE {inFlight}
    /\ \A c \in SignIns : pc[c] \in {"first", "second"} => joined[c] \in DOMAIN fetches

\* Until the last sign-in that awaited a fetch has resumed, its key set is the
\* one cached, the cooldown has just begun and nobody starts another.
Settling ==
    \A c \in SignIns : Resumable(c) =>
        /\ inFlight = None
        /\ fetches[joined[c]].state = "loaded" =>
              /\ lastFetchedAt = now
              /\ cached # None
              /\ cached.keys = fetches[joined[c]].keys

\* A fetch that failed after a sign-in asked is one more than it knew of.
Failing ==
    \A c \in SignIns :
        /\ pc[c] # "done" => res[c] = None
        /\ asked[c] <= Failures
        /\ pc[c] \in {"first", "second"} /\ fetches[joined[c]].state = "failed" =>
              Failures > asked[c]

\* A key set outlives the cooldown its loading began.
Spacing ==
    IF cached = None THEN lastFetchedAt = -Cooldown
    ELSE cached.expiresAt >= lastFetchedAt + Cooldown

(***************************************************************************)
(* However short Google's max-age and however many unknown keys are named, *)
(* a key set that was loaded keeps the next fetch away for a cooldown.     *)
(***************************************************************************)
FetchesSpaced ==
    [][Len(fetches') > Len(fetches) => now - lastFetchedAt >= Cooldown]_vars

(***************************************************************************)
(* A token is rejected for its key on fresh knowledge only: the key set of *)
(* a fetch completed within the cooldown does not have the key, so a key   *)
(* Google rotated to is refused for no longer than that.                   *)
(***************************************************************************)
RejectedOnFreshKeys ==
    [][\A c \in SignIns :
          res[c] = None /\ res'[c] = "unrecognised" => InCooldown /\ kid[c] \notin cached.keys]_vars

(***************************************************************************)
(* A failure is never cached: a sign-in is told 503 only if a fetch failed *)
(* since it asked.                                                         *)
(***************************************************************************)
FailuresAreFresh ==
    \A c \in SignIns : res[c] = "unavailable" => Failures > asked[c]

(***************************************************************************)
(* The inductive invariant: the properties above with what ties the cache, *)
(* the fetch in flight and the sign-ins that wait for it together.         *)
(***************************************************************************)
IInv ==
    TypeOK /\ Flight /\ Settling /\ Failing /\ Spacing /\ FailuresAreFresh

(***************************************************************************)
(* googleAuth.ts:17-19 says of the cooldown: "A token naming an unknown    *)
(* key forces a refetch; this is the floor between two of them".           *)
(***************************************************************************)
ForcedFetchesSpaced ==
    \A f, g \in DOMAIN fetches :
        f < g /\ fetches[f].forced /\ fetches[g].forced =>
            fetches[g].at - fetches[f].at >= Cooldown
=============================================================================

---------------------------- MODULE JwksProofs ----------------------------
(***************************************************************************)
(* The cache of Google's keys has one fetch out at a time, spaces fetches  *)
(* by the cooldown once one has loaded, rejects a token on fresh keys and  *)
(* caches no failure, for any number of sign-ins, keys and max-ages and    *)
(* any cooldown and TTL bounds the constants allow.                        *)
(***************************************************************************)
EXTENDS Jwks, TLAPS, FiniteSetTheorems

-----------------------------------------------------------------------------
(* Time to live.                                                           *)

LEMMA MaxOfTwo ==
    ASSUME NEW a \in Int, NEW b \in Int
    PROVE  Max({a, b}) = IF a >= b THEN a ELSE b
<1>1. CASE a >= b
  <2>1. a \in {a, b} /\ \A y \in {a, b} : a >= y
    BY <1>1
  <2>2. \A x \in {a, b} : (\A y \in {a, b} : x >= y) => x = a
    BY <1>1
  <2>3. Max({a, b}) = a
    BY <2>1, <2>2 DEF Max
  <2> QED
    BY <1>1, <2>3
<1>2. CASE ~(a >= b)
  <2>1. b \in {a, b} /\ \A y \in {a, b} : b >= y
    BY <1>2
  <2>2. \A x \in {a, b} : (\A y \in {a, b} : x >= y) => x = b
    BY <1>2
  <2>3. Max({a, b}) = b
    BY <2>1, <2>2 DEF Max
  <2> QED
    BY <1>2, <2>3
<1> QED
  BY <1>1, <1>2

LEMMA MinOfTwo ==
    ASSUME NEW a \in Int, NEW b \in Int
    PROVE  Min({a, b}) = IF a <= b THEN a ELSE b
<1>1. CASE a <= b
  <2>1. a \in {a, b} /\ \A y \in {a, b} : a <= y
    BY <1>1
  <2>2. \A x \in {a, b} : (\A y \in {a, b} : x <= y) => x = a
    BY <1>1
  <2>3. Min({a, b}) = a
    BY <2>1, <2>2 DEF Min
  <2> QED
    BY <1>1, <2>3
<1>2. CASE ~(a <= b)
  <2>1. b \in {a, b} /\ \A y \in {a, b} : b <= y
    BY <1>2
  <2>2. \A x \in {a, b} : (\A y \in {a, b} : x <= y) => x = b
    BY <1>2
  <2>3. Min({a, b}) = b
    BY <2>1, <2>2 DEF Min
  <2> QED
    BY <1>2, <2>3
<1> QED
  BY <1>1, <1>2

\* Whatever max-age Google sends, a key set is kept for a cooldown at least.
LEMMA TtlBounds ==
    ASSUME NEW m \in Nat
    PROVE  Ttl(m) \in MinTtl..MaxTtl /\ Ttl(m) >= Cooldown /\ Ttl(m) \in Nat
<1>1. {Cooldown, MinTtl, MaxTtl} \subseteq Nat /\ Cooldown <= MinTtl /\ MinTtl <= MaxTtl
  BY JwksAssumption DEF JwksAssumption
<1>2. PICK n \in Nat : n = Max({m, MinTtl}) /\ n >= MinTtl
  BY <1>1, MaxOfTwo
<1>3. Ttl(m) = IF n <= MaxTtl THEN n ELSE MaxTtl
  BY <1>1, <1>2, MinOfTwo DEF Ttl
<1> QED
  BY <1>1, <1>2, <1>3
-----------------------------------------------------------------------------
(* The fetches: one is sent, answered, or settled, and the others stay.    *)

\* A caller sends a fetch, there being none in flight.
Sends(forced) ==
    /\ inFlight = None
    /\ fetches' = Append(fetches, NewFetch(forced))
    /\ inFlight' = Len(fetches) + 1

LEMMA FetchesType ==
    ASSUME TypeOK
    PROVE  /\ fetches \in Seq(Fetch) /\ Len(fetches) \in Nat
           /\ DOMAIN fetches = 1..Len(fetches)
           /\ \A f \in DOMAIN fetches : fetches[f] \in Fetch
           /\ now \in Nat
BY JwksAssumption DEF TypeOK, JwksAssumption

LEMMA NewFetchType ==
    ASSUME TypeOK, NEW forced \in BOOLEAN
    PROVE  NewFetch(forced) \in Fetch
BY FetchesType DEF NewFetch, Fetch

LEMMA LoadSends ==
    ASSUME NEW c \in SignIns, NEW place, NEW forced \in BOOLEAN, Load(c, place, forced)
    PROVE  Sends(forced) \/ (inFlight # None /\ UNCHANGED <<fetches, inFlight>>)
BY DEF Load, Sends

LEMMA FetchSteps ==
    ASSUME [Next]_vars
    PROVE  \/ UNCHANGED <<fetches, inFlight>>
           \/ \E forced \in BOOLEAN : Sends(forced)
           \/ \E f \in DOMAIN fetches : Loaded(f) \/ FetchFails(f) \/ Respond(f)
<1>1. ASSUME NEW c \in SignIns, Ask(c) \/ ResumeFirst(c) \/ ResumeSecond(c)
      PROVE  UNCHANGED <<fetches, inFlight>> \/ \E forced \in BOOLEAN : Sends(forced)
  BY <1>1, LoadSends DEF Ask, ResumeFirst, ResumeSecond, LookFor, cache
<1>2. CASE Rotate \/ Tick \/ UNCHANGED vars
  BY <1>2 DEF Rotate, Tick, vars, cache
<1> QED
  BY <1>1, <1>2 DEF Next

\* Appending leaves the fetches made before as they were.
LEMMA Sent ==
    ASSUME TypeOK, NEW forced \in BOOLEAN, Sends(forced)
    PROVE  /\ fetches' \in Seq(Fetch)
           /\ DOMAIN fetches' = DOMAIN fetches \cup {Len(fetches) + 1}
           /\ Len(fetches) + 1 \notin DOMAIN fetches
           /\ \A f \in DOMAIN fetches : fetches'[f] = fetches[f]
           /\ fetches'[Len(fetches) + 1].state = "sent"
           /\ inFlight' = Len(fetches) + 1 /\ inFlight' # None
           /\ Len(fetches') = Len(fetches) + 1
<1>1. /\ fetches \in Seq(Fetch) /\ Len(fetches) \in Nat /\ DOMAIN fetches = 1..Len(fetches)
      /\ NewFetch(forced) \in Fetch /\ fetches' = Append(fetches, NewFetch(forced))
  BY FetchesType, NewFetchType DEF Sends
<1>2. /\ fetches' \in Seq(Fetch) /\ Len(fetches') = Len(fetches) + 1
      /\ DOMAIN fetches' = 1..(Len(fetches) + 1)
      /\ \A f \in DOMAIN fetches : fetches'[f] = fetches[f]
      /\ fetches'[Len(fetches) + 1] = NewFetch(forced)
  BY <1>1
<1>3. NewFetch(forced).state = "sent"
  BY DEF NewFetch
<1>4. inFlight' = Len(fetches) + 1 /\ inFlight' # None
  BY <1>1, JwksAssumption DEF Sends, JwksAssumption
<1> QED
  BY <1>1, <1>2, <1>3, <1>4

\* One fetch changes its state, and only that one.
LEMMA Changed ==
    ASSUME TypeOK, NEW f \in DOMAIN fetches, Loaded(f) \/ FetchFails(f) \/ Respond(f)
    PROVE  /\ fetches[f].state \in {"sent", "answered"}
           /\ fetches' \in Seq(Fetch)
           /\ Len(fetches') = Len(fetches)
           /\ DOMAIN fetches' = DOMAIN fetches
           /\ \A g \in DOMAIN fetches \ {f} : fetches'[g] = fetches[g]
           /\ Loaded(f) => fetches'[f].state = "loaded" /\ fetches'[f].keys = fetches[f].keys
           /\ FetchFails(f) => fetches'[f].state = "failed"
           /\ Respond(f) => fetches'[f].state = "answered"
<1>1. /\ fetches \in Seq(Fetch) /\ Len(fetches) \in Nat /\ DOMAIN fetches = 1..Len(fetches)
      /\ fetches[f] \in Fetch
  BY FetchesType
<1>2. PICK g \in Fetch : /\ fetches' = [fetches EXCEPT ![f] = g]
                         /\ Loaded(f) => g.state = "loaded" /\ g.keys = fetches[f].keys
                         /\ FetchFails(f) => g.state = "failed"
                         /\ Respond(f) => g.state = "answered"
  <2>1. CASE Loaded(f)
    <3> DEFINE g == [fetches[f] EXCEPT !.state = "loaded"]
    <3>1. g \in Fetch /\ fetches' = [fetches EXCEPT ![f] = g]
      BY <1>1, <2>1 DEF Loaded, Fetch
    <3>2. ~FetchFails(f) /\ ~Respond(f)
      BY <1>1, <2>1 DEF Loaded, FetchFails, Respond
    <3> QED
      BY <1>1, <3>1, <3>2 DEF Fetch
  <2>2. CASE FetchFails(f)
    <3> DEFINE g == [fetches[f] EXCEPT !.state = "failed"]
    <3>1. g \in Fetch /\ fetches' = [fetches EXCEPT ![f] = g]
      BY <1>1, <2>2 DEF FetchFails, Fetch
    <3>2. g.state = "failed"
      BY <1>1 DEF Fetch
    <3>3. ~Loaded(f) /\ ~Respond(f)
      <4>1. fetches'[f].state = "failed"
        BY <1>1, <3>1, <3>2
      <4> QED
        BY <1>1, <4>1 DEF Loaded, Respond, Fetch
    <3> QED
      BY <3>1, <3>2, <3>3
  <2>3. CASE Respond(f)
    <3>1. PICK m \in MaxAges :
              fetches' = [fetches EXCEPT ![f].state = "answered", ![f].keys = published,
                                         ![f].maxAge = m]
      BY <2>3 DEF Respond
    <3> DEFINE g == [fetches[f] EXCEPT !.state = "answered", !.keys = published, !.maxAge = m]
    <3>2. g \in Fetch /\ fetches' = [fetches EXCEPT ![f] = g]
      BY <1>1, <3>1 DEF TypeOK, Fetch
    <3>3. g.state = "answered"
      BY <1>1 DEF Fetch
    <3>4. ~Loaded(f) /\ ~FetchFails(f)
      <4>1. fetches'[f].state = "answered"
        BY <1>1, <3>2, <3>3
      <4> QED
        BY <1>1, <4>1 DEF Loaded, FetchFails, Fetch
    <3> QED
      BY <3>2, <3>3, <3>4
  <2> QED
    BY <2>1, <2>2, <2>3
<1>3. fetches' \in Seq(Fetch) /\ Len(fetches') = Len(fetches)
  BY <1>1, <1>2
<1> QED
  BY <1>1, <1>2, <1>3 DEF Loaded, FetchFails, Respond
-----------------------------------------------------------------------------
(* What a call does: it waits for a fetch, or it has its answer.           *)

Outcomes == {"key", "unrecognised", "unavailable"}

\* c has its answer, and nothing else changes.
Answered(c, outcome) ==
    /\ Answer(c, outcome)
    /\ UNCHANGED <<fetches, inFlight, joined>>

LEMMA Spaced ==
    ASSUME TypeOK, Spacing, ~Fresh
    PROVE  now - lastFetchedAt >= Cooldown
<1>1. now \in Nat /\ lastFetchedAt \in Int /\ Cooldown \in Nat
  BY JwksAssumption DEF TypeOK, JwksAssumption
<1>2. CASE cached = None
  BY <1>1, <1>2 DEF Spacing
<1>3. CASE cached # None
  <2>1. cached.expiresAt \in Nat /\ cached.expiresAt <= now
    BY <1>1, <1>3 DEF TypeOK, KeySet, Fresh
  <2> QED
    BY <1>1, <1>3, <2>1 DEF Spacing
<1> QED
  BY <1>2, <1>3

LEMMA AskSteps ==
    ASSUME IInv, NEW c \in SignIns, Ask(c)
    PROVE  /\ pc[c] = "idle" /\ Quiet
           /\ asked' = [asked EXCEPT ![c] = Failures]
           /\ UNCHANGED <<now, cached, lastFetchedAt, published, kid>>
           /\ \/ Answered(c, "key")
              \/ /\ Answered(c, "unrecognised")
                 /\ InCooldown /\ kid[c] \notin cached.keys
              \/ /\ \E place \in {"first", "second"}, forced \in BOOLEAN : Load(c, place, forced)
                 /\ now - lastFetchedAt >= Cooldown
<1> TypeOK
  BY DEF IInv
<1>0. now \in Nat /\ lastFetchedAt \in Int /\ Cooldown \in Nat
  BY FetchesType, JwksAssumption DEF TypeOK, JwksAssumption
<1>1. ~InCooldown => now - lastFetchedAt >= Cooldown
  BY <1>0 DEF InCooldown
<1>2. ~Fresh => now - lastFetchedAt >= Cooldown
  BY Spaced DEF IInv
<1> QED
  BY <1>1, <1>2 DEF Ask, LookFor, Answered

LEMMA ResumeSteps ==
    ASSUME IInv, NEW c \in SignIns, ResumeFirst(c) \/ ResumeSecond(c)
    PROVE  /\ Resumable(c)
           /\ UNCHANGED <<now, cached, lastFetchedAt, published, kid, asked>>
           /\ \/ Answered(c, "key")
              \/ /\ Answered(c, "unrecognised")
                 /\ InCooldown /\ kid[c] \notin cached.keys
              \/ /\ Answered(c, "unavailable")
                 /\ fetches[joined[c]].state = "failed"
<1>1. Resumable(c)
  BY DEF ResumeFirst, ResumeSecond, Resumable
<1>2. fetches[joined[c]].state = "loaded" => /\ InCooldown
                                             /\ cached.keys = fetches[joined[c]].keys
  BY <1>1, JwksAssumption DEF IInv, TypeOK, Settling, InCooldown, JwksAssumption
<1>3. CASE ResumeFirst(c)
  BY <1>1, <1>2, <1>3 DEF ResumeFirst, LookFor, Answered
<1>4. CASE ResumeSecond(c)
  BY <1>1, <1>2, <1>4 DEF ResumeSecond, Answered, cache
<1> QED
  BY <1>3, <1>4

LEMMA AnsweredCall ==
    ASSUME TypeOK, NEW c \in SignIns, NEW outcome, Answered(c, outcome)
    PROVE  /\ pc' = [pc EXCEPT ![c] = "done"] /\ pc'[c] = "done"
           /\ \A d \in SignIns \ {c} : pc'[d] = pc[d] /\ res'[d] = res[d]
           /\ UNCHANGED <<fetches, inFlight, joined>>
           /\ pc' \in [SignIns -> {"idle", "first", "second", "done"}]
           /\ res'[c] = outcome
BY DEF Answered, Answer, TypeOK

LEMMA WaitingCall ==
    ASSUME IInv, NEW c \in SignIns, NEW place \in {"first", "second"}, NEW forced \in BOOLEAN,
           Load(c, place, forced)
    PROVE  /\ pc' = [pc EXCEPT ![c] = place] /\ pc' \in [SignIns -> {"idle", "first", "second", "done"}]
           /\ joined' = [joined EXCEPT ![c] = inFlight'] /\ joined'[c] = inFlight'
           /\ res' = res
           /\ fetches' \in Seq(Fetch)
           /\ DOMAIN fetches \subseteq DOMAIN fetches'
           /\ \A f \in DOMAIN fetches : fetches'[f] = fetches[f]
           /\ inFlight' # None /\ inFlight' \in DOMAIN fetches'
           /\ fetches'[inFlight'].state \in {"sent", "answered"}
<1> TypeOK /\ Flight
  BY DEF IInv
<1>1. CASE Sends(forced)
  BY <1>1, Sent DEF Load, TypeOK
<1>2. CASE inFlight # None /\ UNCHANGED <<fetches, inFlight>>
  <2>1. inFlight \in Outstanding
    BY <1>2 DEF Flight
  <2>2. inFlight \in DOMAIN fetches /\ fetches[inFlight].state \in {"sent", "answered"}
    BY <2>1 DEF Outstanding
  <2> QED
    BY <1>2, <2>2, FetchesType DEF Load, TypeOK
<1> QED
  BY <1>1, <1>2, LoadSends

LEMMA FetchesGrow ==
    ASSUME IInv, [Next]_vars
    PROVE  fetches' \in Seq(Fetch) /\ DOMAIN fetches \subseteq DOMAIN fetches'
BY FetchesType, FetchSteps, Sent, Changed DEF IInv

-----------------------------------------------------------------------------
LEMMA TypeInit == Init => TypeOK
BY JwksAssumption DEF Init, TypeOK, JwksAssumption

\* The fetches of a history fs that have failed.
Failed(fs) == {f \in DOMAIN fs : fs[f].state = "failed"}

LEMMA FailedFinite ==
    ASSUME NEW fs \in Seq(Fetch)
    PROVE  IsFiniteSet(Failed(fs)) /\ Cardinality(Failed(fs)) \in Nat
<1>1. IsFiniteSet(1..Len(fs))
  BY FS_Interval
<1>2. Failed(fs) \in SUBSET (1..Len(fs))
  BY DEF Failed
<1>3. IsFiniteSet(Failed(fs))
  BY <1>1, <1>2, FS_Subset
<1> QED
  BY <1>3, FS_CardinalityType

LEMMA FailuresCounted ==
    ASSUME TypeOK
    PROVE  /\ Failures = Cardinality(Failed(fetches)) /\ Failures \in Nat
           /\ IsFiniteSet(Failed(fetches))
BY FetchesType, FailedFinite DEF Failures, Failed

LEMMA LoadedType ==
    ASSUME TypeOK, NEW f \in DOMAIN fetches, Loaded(f)
    PROVE  /\ cached' \in KeySet /\ cached' # None
           /\ cached'.keys = fetches[f].keys /\ cached'.expiresAt >= now + Cooldown
           /\ lastFetchedAt' = now /\ inFlight' = None
<1>1. fetches[f] \in Fetch /\ now \in Nat
  BY FetchesType
<1>2. fetches[f].maxAge \in Nat /\ fetches[f].keys \subseteq Kids
  BY <1>1, JwksAssumption DEF Fetch, JwksAssumption
<1>3. PICK ttl \in Nat : ttl = Ttl(fetches[f].maxAge) /\ ttl >= Cooldown
  BY <1>2, TtlBounds
<1>4. cached' = [keys |-> fetches[f].keys, expiresAt |-> now + ttl]
  BY <1>3 DEF Loaded
<1>5. now + ttl \in Nat /\ now + ttl >= now + Cooldown
  BY <1>1, <1>3, JwksAssumption DEF JwksAssumption
<1>6. cached' \in KeySet
  BY <1>2, <1>4, <1>5 DEF KeySet
<1>7. cached' # None
  BY <1>6, JwksAssumption DEF JwksAssumption
<1> QED
  BY <1>4, <1>5, <1>6, <1>7 DEF Loaded

LEMMA TypeNext == IInv /\ [Next]_vars => TypeOK'
<1> SUFFICES ASSUME IInv, [Next]_vars PROVE TypeOK'
  OBVIOUS
<1> TypeOK
  BY DEF IInv
<1>0. /\ fetches' \in Seq(Fetch) /\ DOMAIN fetches \subseteq DOMAIN fetches'
      /\ joined \in [SignIns -> DOMAIN fetches' \cup {None}]
      /\ inFlight = None \/ inFlight \in DOMAIN fetches'
      /\ Failures \in Nat
  BY FetchesGrow, FailuresCounted DEF TypeOK
<1>1. ASSUME NEW c \in SignIns, NEW outcome \in Outcomes, Answered(c, outcome),
             UNCHANGED <<now, cached, lastFetchedAt, published, kid>>,
             asked' = asked \/ asked' = [asked EXCEPT ![c] = Failures]
      PROVE  TypeOK'
  <2>1. pc' \in [SignIns -> {"idle", "first", "second", "done"}] /\ joined' = joined
        /\ inFlight' = inFlight
    BY <1>1, AnsweredCall
  <2>2. res' \in [SignIns -> Outcomes \cup {None}]
    BY <1>1 DEF TypeOK, Answered, Answer, Outcomes
  <2>3. asked' \in [SignIns -> Nat]
    BY <1>0, <1>1 DEF TypeOK
  <2> QED
    BY <1>0, <1>1, <2>1, <2>2, <2>3 DEF TypeOK, Outcomes
<1>2. ASSUME NEW c \in SignIns, NEW place \in {"first", "second"}, NEW forced \in BOOLEAN,
             Load(c, place, forced),
             UNCHANGED <<now, cached, lastFetchedAt, published, kid>>,
             asked' = [asked EXCEPT ![c] = Failures]
      PROVE  TypeOK'
  <2>1. /\ pc' \in [SignIns -> {"idle", "first", "second", "done"}] /\ res' = res
        /\ joined' = [joined EXCEPT ![c] = inFlight'] /\ inFlight' \in DOMAIN fetches'
    BY <1>2, WaitingCall
  <2>2. joined' \in [SignIns -> DOMAIN fetches' \cup {None}]
    BY <1>0, <2>1
  <2>3. asked' \in [SignIns -> Nat]
    BY <1>0, <1>2 DEF TypeOK
  <2> QED
    BY <1>0, <1>2, <2>1, <2>2, <2>3 DEF TypeOK
<1>3. ASSUME NEW c \in SignIns, Ask(c) PROVE TypeOK'
  BY <1>1, <1>2, <1>3, AskSteps DEF Outcomes
<1>4. ASSUME NEW c \in SignIns, ResumeFirst(c) \/ ResumeSecond(c) PROVE TypeOK'
  BY <1>1, <1>4, ResumeSteps DEF Outcomes
<1>5. ASSUME NEW f \in DOMAIN fetches, Loaded(f) PROVE TypeOK'
  <2>1. cached' \in KeySet /\ lastFetchedAt' = now /\ inFlight' = None /\ now \in Nat
    BY <1>5, LoadedType, FetchesType
  <2>2. lastFetchedAt' \in Int
    BY <2>1
  <2> QED
    BY <1>0, <1>5, <2>1, <2>2 DEF TypeOK, Loaded, caller
<1>6. ASSUME NEW f \in DOMAIN fetches, FetchFails(f) \/ Respond(f) PROVE TypeOK'
  BY <1>0, <1>6 DEF TypeOK, FetchFails, Respond, caller, cache
<1>7. CASE Rotate \/ UNCHANGED vars
  BY <1>0, <1>7 DEF TypeOK, Rotate, vars, caller, cache
<1>8. CASE Tick
  <2>1. Horizon \in Nat /\ now \in 0..Horizon
    BY JwksAssumption DEF JwksAssumption, TypeOK
  <2>2. now' \in 0..Horizon
    BY <1>8, <2>1 DEF Tick
  <2> QED
    BY <1>0, <1>8, <2>2 DEF TypeOK, Tick, caller, cache
<1> QED
  BY <1>3, <1>4, <1>5, <1>6, <1>7, <1>8 DEF Next

-----------------------------------------------------------------------------
LEMMA FlightNext == IInv /\ [Next]_vars => Flight'
<1> SUFFICES ASSUME IInv, [Next]_vars PROVE Flight'
  OBVIOUS
<1> TypeOK /\ Flight
  BY DEF IInv
<1>0. Outstanding = IF inFlight = None THEN {} ELSE {inFlight}
  BY DEF Flight
<1>1. (Outstanding = IF inFlight = None THEN {} ELSE {inFlight})'
  <2>1. CASE UNCHANGED <<fetches, inFlight>>
    BY <1>0, <2>1 DEF Outstanding
  <2>2. ASSUME NEW forced \in BOOLEAN, Sends(forced)
        PROVE  (Outstanding = IF inFlight = None THEN {} ELSE {inFlight})'
    <3>1. Outstanding = {}
      BY <1>0, <2>2 DEF Sends
    <3>2. \A f \in DOMAIN fetches' :
              fetches'[f].state \in {"sent", "answered"} <=> f = Len(fetches) + 1
      BY <2>2, <3>1, Sent DEF Outstanding
    <3>3. Outstanding' = {Len(fetches) + 1}
      BY <2>2, <3>2, Sent DEF Outstanding
    <3> QED
      BY <2>2, <3>3, Sent
  <2>3. ASSUME NEW f \in DOMAIN fetches, Loaded(f) \/ FetchFails(f) \/ Respond(f)
        PROVE  (Outstanding = IF inFlight = None THEN {} ELSE {inFlight})'
    <3>1. f \in Outstanding
      BY <2>3, Changed DEF Outstanding
    <3>2. inFlight = f /\ inFlight # None /\ Outstanding = {f}
      BY <1>0, <3>1
    <3>3. \A g \in DOMAIN fetches \ {f} : fetches'[g].state \notin {"sent", "answered"}
      BY <2>3, <3>2, Changed DEF Outstanding
    <3>4. CASE Loaded(f) \/ FetchFails(f)
      <4>1. Outstanding' = {}
        BY <2>3, <3>3, <3>4, Changed DEF Outstanding
      <4> QED
        BY <3>4, <4>1 DEF Loaded, FetchFails
    <3>5. CASE Respond(f)
      <4>1. Outstanding' = {f}
        BY <2>3, <3>3, <3>5, Changed DEF Outstanding
      <4> QED
        BY <3>2, <3>5, <4>1 DEF Respond, cache
    <3> QED
      BY <2>3, <3>4, <3>5
  <2> QED
    BY <2>1, <2>2, <2>3, FetchSteps
<1>2. \A c \in SignIns : pc'[c] \in {"first", "second"} => joined'[c] \in DOMAIN fetches'
  <2>0. \A c \in SignIns : pc[c] \in {"first", "second"} => joined[c] \in DOMAIN fetches'
    BY FetchesGrow DEF Flight
  <2>1. ASSUME NEW c \in SignIns, NEW outcome, Answered(c, outcome)
        PROVE  \A d \in SignIns : pc'[d] \in {"first", "second"} => joined'[d] \in DOMAIN fetches'
    BY <2>0, <2>1, AnsweredCall
  <2>2. ASSUME NEW c \in SignIns, NEW place \in {"first", "second"}, NEW forced \in BOOLEAN,
               Load(c, place, forced)
        PROVE  \A d \in SignIns : pc'[d] \in {"first", "second"} => joined'[d] \in DOMAIN fetches'
    BY <2>0, <2>2, WaitingCall DEF TypeOK
  <2>3. ASSUME NEW c \in SignIns, Ask(c) \/ ResumeFirst(c) \/ ResumeSecond(c)
        PROVE  \A d \in SignIns : pc'[d] \in {"first", "second"} => joined'[d] \in DOMAIN fetches'
    BY <2>1, <2>2, <2>3, AskSteps, ResumeSteps
  <2>4. CASE UNCHANGED caller
    BY <2>0, <2>4 DEF caller
  <2> QED
    BY <2>3, <2>4 DEF Next, Loaded, FetchFails, Respond, Rotate, Tick, vars, caller
<1> QED
  BY <1>1, <1>2 DEF Flight

LEMMA SettlingNext == IInv /\ [Next]_vars => Settling'
<1> SUFFICES ASSUME IInv, [Next]_vars PROVE Settling'
  OBVIOUS
<1> TypeOK /\ Flight /\ Settling
  BY DEF IInv
<1>0. \A c \in SignIns : pc[c] \in {"first", "second"} => joined[c] \in DOMAIN fetches
  BY DEF Flight
<1>1. ASSUME NEW c \in SignIns, NEW outcome, Answered(c, outcome),
             UNCHANGED <<now, cached, lastFetchedAt>>
      PROVE  Settling'
  BY <1>1, AnsweredCall DEF Settling, Resumable
<1>2. ASSUME NEW c \in SignIns, Quiet, NEW place \in {"first", "second"}, NEW forced \in BOOLEAN,
             Load(c, place, forced)
      PROVE  Settling'
  <2>1. \A d \in SignIns \ {c} : ~Resumable(d)'
    BY <1>0, <1>2, WaitingCall DEF Quiet, Resumable, TypeOK
  <2>2. ~Resumable(c)'
    BY <1>2, WaitingCall DEF Resumable
  <2> QED
    BY <2>1, <2>2 DEF Settling
<1>3. ASSUME NEW c \in SignIns, Ask(c) \/ ResumeFirst(c) \/ ResumeSecond(c) PROVE Settling'
  BY <1>1, <1>2, <1>3, AskSteps, ResumeSteps
<1>4. ASSUME NEW f \in DOMAIN fetches, Loaded(f) \/ FetchFails(f) \/ Respond(f) PROVE Settling'
  <2>1. f \in Outstanding
    BY <1>4, Changed DEF Outstanding
  <2>2. \A c \in SignIns : ~Resumable(c)
    BY <2>1 DEF Settling, Flight
  <2>3. \A c \in SignIns : Resumable(c)' => joined[c] = f /\ (Loaded(f) \/ FetchFails(f))
    <3>1. pc' = pc /\ joined' = joined
      BY <1>4 DEF Loaded, FetchFails, Respond, caller
    <3> SUFFICES ASSUME NEW c \in SignIns, Resumable(c)'
                 PROVE  joined[c] = f /\ (Loaded(f) \/ FetchFails(f))
      OBVIOUS
    <3>2. /\ pc[c] \in {"first", "second"} /\ joined[c] \in DOMAIN fetches
          /\ fetches'[joined[c]].state \in {"loaded", "failed"}
          /\ fetches[joined[c]].state \notin {"loaded", "failed"}
      BY <1>0, <2>2, <3>1 DEF Resumable
    <3>3. joined[c] = f
      BY <1>4, <3>2, Changed
    <3> QED
      BY <1>4, <3>2, <3>3, Changed
  <2>4. CASE Loaded(f)
    <3>1. /\ cached'.keys = fetches'[f].keys /\ cached' # None
          /\ lastFetchedAt' = now' /\ inFlight' = None /\ joined' = joined
      BY <2>4, LoadedType, Changed DEF Loaded, caller
    <3> QED
      BY <2>3, <3>1 DEF Settling
  <2>5. CASE FetchFails(f)
    <3>1. fetches'[f].state = "failed" /\ inFlight' = None /\ joined' = joined
      BY <2>5, Changed DEF FetchFails, caller
    <3> QED
      BY <2>3, <3>1 DEF Settling
  <2>6. CASE Respond(f)
    <3>1. fetches'[f].state = "answered" /\ joined' = joined /\ pc' = pc
      BY <2>6, Changed DEF Respond, caller
    <3> QED
      BY <1>0, <1>4, <2>2, <3>1, Changed DEF Settling, Resumable
  <2> QED
    BY <1>4, <2>4, <2>5, <2>6
<1>5. CASE Rotate \/ UNCHANGED vars
  BY <1>5 DEF Settling, Resumable, Rotate, vars, caller, cache
<1>6. CASE Tick
  BY <1>6 DEF Settling, Resumable, Tick, Quiet, caller, cache
<1> QED
  BY <1>3, <1>4, <1>5, <1>6 DEF Next

LEMMA SpacingNext == IInv /\ [Next]_vars => Spacing'
<1> SUFFICES ASSUME IInv, [Next]_vars PROVE Spacing'
  OBVIOUS
<1> TypeOK /\ Spacing
  BY DEF IInv
<1>1. ASSUME NEW f \in DOMAIN fetches, Loaded(f) PROVE Spacing'
  BY <1>1, LoadedType DEF Spacing
<1>2. CASE UNCHANGED <<cached, lastFetchedAt>>
  BY <1>2 DEF Spacing
<1>3. \/ UNCHANGED <<cached, lastFetchedAt>>
      \/ \E f \in DOMAIN fetches : Loaded(f)
  BY DEF Next, Ask, ResumeFirst, ResumeSecond, FetchFails, Respond, Rotate, Tick, vars, cache
<1> QED
  BY <1>1, <1>2, <1>3

-----------------------------------------------------------------------------
(* Failures are counted: a fetch that fails is one more.                   *)

LEMMA FailuresGrow ==
    ASSUME IInv, [Next]_vars
    PROVE  /\ Failures \in Nat /\ Failures' \in Nat /\ Failures' >= Failures
           /\ \A f \in DOMAIN fetches :
                 fetches'[f].state = "failed" =>
                     fetches[f].state = "failed" \/ Failures' > Failures
<1> TypeOK
  BY DEF IInv
<1>0. /\ Failures = Cardinality(Failed(fetches)) /\ Failures \in Nat /\ IsFiniteSet(Failed(fetches))
      /\ Failures' = Cardinality(Failed(fetches')) /\ Failures' \in Nat
  <2>1. Failures' = Cardinality(Failed(fetches'))
    BY DEF Failures, Failed
  <2> QED
    BY <2>1, FailuresCounted, FetchesGrow, FailedFinite
<1>1. CASE Failed(fetches') = Failed(fetches)
  <2>1. \A f \in DOMAIN fetches : fetches'[f].state = "failed" => fetches[f].state = "failed"
    BY <1>1, FetchesGrow DEF Failed
  <2> QED
    BY <1>0, <1>1, <2>1
<1>2. ASSUME NEW f \in DOMAIN fetches, FetchFails(f) PROVE Failures' = Failures + 1
  <2>1. f \notin Failed(fetches) /\ Failed(fetches') = Failed(fetches) \cup {f}
    BY <1>2, Changed DEF Failed
  <2> QED
    BY <1>0, <2>1, FS_AddElement
<1>3. ASSUME NEW forced \in BOOLEAN, Sends(forced) PROVE Failed(fetches') = Failed(fetches)
  BY <1>3, Sent DEF Failed
<1>4. ASSUME NEW f \in DOMAIN fetches, Loaded(f) \/ Respond(f)
      PROVE  Failed(fetches') = Failed(fetches)
  BY <1>4, Changed DEF Failed
<1>5. CASE UNCHANGED <<fetches, inFlight>>
  BY <1>1, <1>5
<1> QED
  BY <1>0, <1>1, <1>2, <1>3, <1>4, <1>5, FetchSteps

LEMMA FailingNext == IInv /\ [Next]_vars => Failing' /\ FailuresAreFresh'
<1> SUFFICES ASSUME IInv, [Next]_vars PROVE Failing' /\ FailuresAreFresh'
  OBVIOUS
<1> TypeOK /\ Flight /\ Failing /\ FailuresAreFresh
  BY DEF IInv
<1>0. /\ asked \in [SignIns -> Nat]
      /\ \A c \in SignIns : pc[c] \in {"first", "second"} => joined[c] \in DOMAIN fetches
      /\ Failures \in Nat /\ Failures' \in Nat /\ Failures' >= Failures
      /\ \A f \in DOMAIN fetches :
            fetches'[f].state = "failed" => fetches[f].state = "failed" \/ Failures' > Failures
  BY FailuresGrow DEF TypeOK, Flight
\* Of those who do nothing in this step.
<1>1. ASSUME NEW d \in SignIns, pc'[d] = pc[d], joined'[d] = joined[d], asked'[d] = asked[d],
             res'[d] = res[d]
      PROVE  /\ pc'[d] # "done" => res'[d] = None
             /\ asked'[d] <= Failures'
             /\ pc'[d] \in {"first", "second"} /\ fetches'[joined'[d]].state = "failed" =>
                   Failures' > asked'[d]
             /\ res'[d] = "unavailable" => Failures' > asked'[d]
  <2>1. asked[d] \in Nat /\ asked[d] <= Failures
    BY <1>0 DEF Failing
  <2>2. pc[d] \in {"first", "second"} /\ fetches[joined[d]].state = "failed" => Failures > asked[d]
    BY DEF Failing
  <2>3. /\ res[d] = "unavailable" => Failures > asked[d]
        /\ pc[d] # "done" => res[d] = None
    BY DEF Failing, FailuresAreFresh
  <2> QED
    BY <1>0, <1>1, <2>1, <2>2, <2>3
<1>2. ASSUME NEW c \in SignIns, Ask(c) PROVE Failing' /\ FailuresAreFresh'
  <2>1. asked'[c] = Failures /\ \A d \in SignIns \ {c} : asked'[d] = asked[d]
    BY <1>0, <1>2, AskSteps
  <2>2. \A d \in SignIns \ {c} : pc'[d] = pc[d] /\ joined'[d] = joined[d] /\ res'[d] = res[d]
    <3>1. ASSUME NEW outcome, Answered(c, outcome)
          PROVE  \A d \in SignIns \ {c} :
                    pc'[d] = pc[d] /\ joined'[d] = joined[d] /\ res'[d] = res[d]
      BY <3>1, AnsweredCall
    <3>2. ASSUME NEW place \in {"first", "second"}, NEW forced \in BOOLEAN, Load(c, place, forced)
          PROVE  \A d \in SignIns \ {c} :
                    pc'[d] = pc[d] /\ joined'[d] = joined[d] /\ res'[d] = res[d]
      BY <3>2, WaitingCall DEF TypeOK
    <3> QED
      BY <1>2, <3>1, <3>2, AskSteps
  <2>3. \/ pc'[c] = "done" /\ res'[c] # "unavailable"
        \/ res'[c] = None /\ fetches'[joined'[c]].state # "failed"
    BY <1>2, AskSteps, AnsweredCall, WaitingCall DEF Failing
  <2>4. /\ pc'[c] # "done" => res'[c] = None
        /\ pc'[c] \in {"first", "second"} => fetches'[joined'[c]].state # "failed"
        /\ res'[c] # "unavailable" /\ asked'[c] <= Failures'
    BY <1>0, <2>1, <2>3, JwksAssumption DEF JwksAssumption
  <2>5. \A d \in SignIns :
            /\ pc'[d] # "done" => res'[d] = None
            /\ asked'[d] <= Failures'
            /\ pc'[d] \in {"first", "second"} /\ fetches'[joined'[d]].state = "failed" =>
                  Failures' > asked'[d]
            /\ res'[d] = "unavailable" => Failures' > asked'[d]
    BY <1>1, <2>1, <2>2, <2>4
  <2> QED
    BY <2>5 DEF Failing, FailuresAreFresh
<1>3. ASSUME NEW c \in SignIns, ResumeFirst(c) \/ ResumeSecond(c) PROVE Failing' /\ FailuresAreFresh'
  <2>1. /\ pc'[c] = "done" /\ asked' = asked /\ joined' = joined
        /\ \A d \in SignIns \ {c} : pc'[d] = pc[d] /\ res'[d] = res[d]
        /\ pc[c] \in {"first", "second"}
        /\ res'[c] = "unavailable" => fetches[joined[c]].state = "failed"
    BY <1>3, ResumeSteps, AnsweredCall DEF Resumable
  <2>2. asked[c] \in Nat /\ asked[c] <= Failures /\ (res'[c] = "unavailable" => Failures > asked[c])
    BY <1>0, <2>1 DEF Failing
  <2>3. /\ asked'[c] <= Failures'
        /\ res'[c] = "unavailable" => Failures' > asked'[c]
    BY <1>0, <2>1, <2>2
  <2>4. \A d \in SignIns \ {c} : pc'[d] = pc[d] /\ joined'[d] = joined[d] /\ asked'[d] = asked[d]
                                /\ res'[d] = res[d]
    BY <2>1
  <2>5. \A d \in SignIns :
            /\ pc'[d] # "done" => res'[d] = None
            /\ asked'[d] <= Failures'
            /\ pc'[d] \in {"first", "second"} /\ fetches'[joined'[d]].state = "failed" =>
                  Failures' > asked'[d]
            /\ res'[d] = "unavailable" => Failures' > asked'[d]
    BY <1>1, <2>1, <2>3, <2>4
  <2> QED
    BY <2>5 DEF Failing, FailuresAreFresh
<1>4. CASE UNCHANGED caller
  BY <1>1, <1>4 DEF Failing, FailuresAreFresh, caller
<1> QED
  BY <1>2, <1>3, <1>4 DEF Next, Loaded, FetchFails, Respond, Rotate, Tick, vars, caller

-----------------------------------------------------------------------------
LEMMA InvInit == Init => IInv
<1> SUFFICES ASSUME Init PROVE IInv
  OBVIOUS
<1>1. TypeOK
  BY TypeInit
<1>2. Failures = 0
  <2>1. Failed(fetches) = {}
    BY DEF Init, Failed
  <2> QED
    BY <1>1, <2>1, FailuresCounted, FS_EmptySet
<1>3. Flight /\ Settling /\ Spacing
  BY DEF Init, Flight, Settling, Spacing, Outstanding, Resumable
<1>4. Failing /\ FailuresAreFresh
  BY <1>2, JwksAssumption DEF Init, Failing, FailuresAreFresh, JwksAssumption
<1> QED
  BY <1>1, <1>3, <1>4 DEF IInv

LEMMA InvNext == IInv /\ [Next]_vars => IInv'
BY TypeNext, FlightNext, SettlingNext, FailingNext, SpacingNext DEF IInv

\* The strengthened invariant: how the cache, the fetch in flight and those who
\* wait for it hang together.
THEOREM Invariance == Spec => []IInv
BY InvInit, InvNext, PTL DEF Spec

(***************************************************************************)
(* loadJwks() shares one fetch among all that need one, whoever starts it  *)
(* and however it ends: Google has never two of our requests to answer.    *)
(***************************************************************************)
THEOREM OneFetch == Spec => []SingleFetch
<1>1. IInv => SingleFetch
  <2> SUFFICES ASSUME IInv PROVE Cardinality(Outstanding) <= 1
    BY DEF SingleFetch
  <2>1. Outstanding = {} \/ Outstanding = {inFlight}
    BY DEF IInv, Flight
  <2>2. Cardinality({}) = 0 /\ Cardinality({inFlight}) = 1
    BY FS_EmptySet, FS_Singleton
  <2>3. Cardinality(Outstanding) \in {0, 1}
    BY <2>1, <2>2
  <2> QED
    BY <2>3
<1> QED
  BY <1>1, Invariance, PTL

(***************************************************************************)
(* A sign-in is told 503 only if a fetch failed after it called            *)
(* signingKey(): the rejected promise is not kept for the next one.        *)
(***************************************************************************)
THEOREM FreshFailures == Spec => []FailuresAreFresh
<1>1. IInv => FailuresAreFresh
  BY DEF IInv
<1> QED
  BY <1>1, Invariance, PTL

(***************************************************************************)
(* A key set that was loaded keeps the next fetch away for the cooldown,   *)
(* whatever max-age Google sends and whatever keys the tokens name.        *)
(***************************************************************************)
THEOREM Spacious == Spec => FetchesSpaced
<1>1. IInv /\ [Next]_vars => [Len(fetches') > Len(fetches) => now - lastFetchedAt >= Cooldown]_vars
  <2> SUFFICES ASSUME IInv, [Next]_vars, Len(fetches') > Len(fetches)
               PROVE  now - lastFetchedAt >= Cooldown
    OBVIOUS
  <2> TypeOK
    BY DEF IInv
  <2>0. Len(fetches) \in Nat
    BY FetchesType
  <2>1. fetches' # fetches
    BY <2>0
  <2>2. ~ \E f \in DOMAIN fetches : Loaded(f) \/ FetchFails(f) \/ Respond(f)
    BY <2>0, Changed
  <2>3. \E c \in SignIns : Ask(c)
    BY <2>1, <2>2, ResumeSteps DEF Next, Rotate, Tick, vars, Answered
  <2> QED
    BY <2>1, <2>3, AskSteps DEF Answered
<1> QED
  BY <1>1, Invariance, PTL DEF Spec, FetchesSpaced

(***************************************************************************)
(* Only a key set fetched within the cooldown refuses a token its key, so  *)
(* a key Google rotated to is unknown for no longer than that.             *)
(***************************************************************************)
THEOREM FreshRejections == Spec => RejectedOnFreshKeys
<1>1. IInv /\ [Next]_vars =>
         [\A c \in SignIns :
             res[c] = None /\ res'[c] = "unrecognised" =>
                 InCooldown /\ kid[c] \notin cached.keys]_vars
  <2> SUFFICES ASSUME IInv, [Next]_vars, NEW c \in SignIns,
                      res[c] = None, res'[c] = "unrecognised"
               PROVE  InCooldown /\ kid[c] \notin cached.keys
    OBVIOUS
  <2> TypeOK
    BY DEF IInv
  <2>1. res' # res
    BY JwksAssumption DEF JwksAssumption
  <2>2. PICK d \in SignIns : Ask(d) \/ ResumeFirst(d) \/ ResumeSecond(d)
    BY <2>1 DEF Next, Loaded, FetchFails, Respond, Rotate, Tick, vars, caller
  <2>3. d = c
    BY <2>1, <2>2, AskSteps, ResumeSteps, AnsweredCall, WaitingCall, JwksAssumption
    DEF JwksAssumption
  <2> QED
    BY <2>1, <2>2, <2>3, AskSteps, ResumeSteps, AnsweredCall, WaitingCall
<1> QED
  BY <1>1, Invariance, PTL DEF Spec, RejectedOnFreshKeys
=============================================================================

----------------------------- MODULE JwtProvider -----------------------------
(***************************************************************************)
(* The providers of package jwt: the keys they rotate and share, and the   *)
(* tokens they compose and parse.                                          *)
(***************************************************************************)
EXTENDS Integers, Sequences, FiniteSets, SequencesExt

VARIABLES store, proc, seen   \* what they hold is said in each part

vars == <<store, proc, seen>>

-----------------------------------------------------------------------------
(***************************************************************************)
(* )                                                                       *)
(***************************************************************************)
CONSTANTS
    Callers, MaxKeys, MaxNow,
    KeyTTL,                  \* how long a key signs and verifies
    Capacity,                \* keys a repository retains
    RedisTTLs, Leeway        \* expirations of the Redis keys, 0 for none, and RetentionLeeway

\* store: the clock, the repository and the keys created so far.
\* proc: per caller: its operation and where it is.
\* seen: history: keys that became current, and what was lost.

(* The key chains of package jwt: the repository a Provider keeps in        *)
(* memory, and the Redis and MongoDB repositories that the                  *)
(* DistributedProviders of several processes share.  A key is the number    *)
(* of its creation, so keys compare by age.                                 *)
(***************************************************************************)

Kids == 1 .. MaxKeys
NoKey == 0
Idle == [pc |-> "idle", op |-> "none", now |-> 0, kid |-> NoKey, observed |-> NoKey]

\* KeyTTL of the repository has to cover a key's validity and the leeway.
validateKeyTTL(ttl) == ttl <= 0 \/ ttl >= KeyTTL + Leeway

\* normalize: capacities outside of the bounds are refused.
normalizeCapacity(capacity) == capacity >= 2

InitKeys ==
    /\ normalizeCapacity(Capacity)
    /\ \E k \in {"local", "redis", "mongo"}, ttl \in RedisTTLs :
          /\ validateKeyTTL(ttl) /\ (k # "redis" => ttl = 0)
          /\ store = [kind |-> k, ttl |-> ttl, now |-> 1, current |-> NoKey, keys |-> {}, order |-> <<>>,
                      until |-> 0, created |-> <<>>]
    /\ proc = [c \in Callers |-> Idle]
    /\ seen = [won |-> <<>>, displaced |-> FALSE, deleted |-> FALSE]

\* The repository holds created keys, and callers keep to their operations.
TypeOKKeys ==
    /\ store.now \in 1 .. MaxNow /\ store.keys \subseteq 1 .. Len(store.created)
    /\ store.current \in {NoKey} \cup (1 .. Len(store.created))
    /\ store.created \in Seq(1 .. MaxNow) /\ Len(store.created) <= MaxKeys
    /\ ToSet(store.order) \subseteq Kids /\ Len(store.order) <= Capacity
    /\ \A c \in Callers : proc[c].op \in {"none", "rotate", "force"} /\ proc[c].kid \in Kids \cup {NoKey}

-----------------------------------------------------------------------------
(* Keys                                                                    *)

Expired(k, now) == now >= store.created[k] + KeyTTL
Live(k) == k \in store.keys /\ ~ Expired(k, store.now)

\* createKeyChain: a fresh key id, and an expiry counted from now.
createKeyChain(s) == [s EXCEPT !.created = Append(@, s.now)]
NewKey == Len(store.created) + 1

set(c, with) == proc' = [proc EXCEPT ![c] = with]
return(c) == set(c, Idle)
stay == UNCHANGED <<store, seen>>

\* The key tokens are signed with.
Current == CASE store.kind = "local" -> IF \E i \in DOMAIN store.order : Live(store.order[i])
                                         THEN store.order[CHOOSE i \in DOMAIN store.order : Live(store.order[i])
                                                          /\ \A j \in 1 .. i - 1 : ~ Live(store.order[j])]
                                         ELSE NoKey
             [] OTHER -> store.current

\* The history of a step after which k is current, by the operation op.
Won(op, k) == seen' = [seen EXCEPT !.won = Append(@, k),
                                   !.displaced = @ \/ (op = "rotate" /\ Current # NoKey /\ Live(Current))]

-----------------------------------------------------------------------------
(* Calls.  RotateContext and ComposeContext rotate, ForcedRotateContext     *)
(* forces; the provider reads the clock before it asks the repository, so   *)
(* that the key it then creates is never expired when it is stored.         *)

begin(c, op) ==
    /\ proc[c].pc = "idle" /\ Len(store.created) < MaxKeys
    /\ set(c, [Idle EXCEPT !.pc = IF op = "rotate" THEN "current" ELSE "create", !.op = op, !.now = store.now])
    /\ stay

RotateContext(c) == begin(c, "rotate")
ForcedRotateContext(c) == begin(c, "force")

\* The context ends or the store fails before the command takes effect; a lost answer differs from a return in nothing
\* but its error.
Fail(c) ==
    /\ proc[c].pc \notin {"idle", "locked"} /\ store.kind # "local" /\ return(c) /\ stay

\* create, with the context checked before and after.
createWithContext(c) ==
    /\ proc[c].pc = "create" /\ Len(store.created) < MaxKeys
    /\ store' = createKeyChain(store)
    /\ set(c, [proc[c] EXCEPT !.pc = "store", !.kid = NewKey]) /\ UNCHANGED seen

-----------------------------------------------------------------------------
(* The repository in memory                                                *)

prepend(s, k) == LET order == SubSeq(<<k>> \o s.order, 1, IF Len(s.order) < Capacity THEN Len(s.order) + 1 ELSE Capacity)
                 IN  [s EXCEPT !.order = order, !.keys = ToSet(order)]

\* rotate looks under the read lock first.
current(c) ==
    /\ store.kind = "local" /\ proc[c].pc = "current"
    /\ IF \E k \in store.keys : ~ Expired(k, proc[c].now) THEN return(c) ELSE set(c, [proc[c] EXCEPT !.pc = "locked"])
    /\ stay

\* Under the write lock it looks again, and creates.
rotateUnchecked(c) ==
    /\ store.kind = "local" /\ proc[c].pc = "locked"
    /\ Len(store.created) < MaxKeys /\ store' = prepend(createKeyChain(store), NewKey) /\ Won("rotate", NewKey)
    /\ return(c)

rotate(c) ==
    /\ store.kind = "local" /\ proc[c].pc = "locked"
    /\ IF \E k \in store.keys : ~ Expired(k, proc[c].now)
       THEN stay
       ELSE Len(store.created) < MaxKeys /\ store' = prepend(createKeyChain(store), NewKey) /\ Won("rotate", NewKey)
    /\ return(c)

\* forceRotate has created its key before it took the lock.
forceRotate(c) ==
    /\ store.kind = "local" /\ proc[c].pc = "store"
    /\ store' = prepend(store, proc[c].kid) /\ Won("force", proc[c].kid) /\ return(c)

-----------------------------------------------------------------------------
(* Redis                                                                   *)

\* redisCurrentScript: the current key, or none when it or its payload is missing.
redisCurrentScript == IF store.current \in store.keys THEN store.current ELSE NoKey

currentPayload(c) ==
    /\ store.kind = "redis" /\ proc[c].pc = "current"
    /\ IF redisCurrentScript # NoKey /\ ~ Expired(store.current, proc[c].now)
       THEN return(c)
       ELSE set(c, [proc[c] EXCEPT !.pc = "create", !.observed = store.current])
    /\ stay

\* The scripts keep the key they store and the newest of the others.
keepOldest(keys, k) == {k} \cup {x \in keys \ {k} : Cardinality({y \in keys \ {k} : y < x}) < Capacity - 1}

keepNewest(keys, k) == {k} \cup {x \in keys \ {k} : Cardinality({y \in keys \ {k} : y > x}) < Capacity - 1}

redisStoreScript(s, k) == [s EXCEPT !.keys = keepNewest(@ \cup {k}, k), !.current = k,
                                    !.until = IF s.ttl > 0 THEN s.now + s.ttl ELSE 0]

rotateCASBlind(s, observed, k) == redisStoreScript(s, k)

\* redisRotateCASScript leaves the key that another caller has made current.
redisRotateCASScript(s, observed, k) ==
    IF s.current \notin {NoKey, observed} /\ s.current \in s.keys THEN s
    ELSE [s EXCEPT !.keys = keepNewest(@ \cup {k}, k), !.current = k, !.until = IF s.ttl > 0 THEN s.now + s.ttl ELSE 0]

\* prepareStorePayload refuses a key that has expired since the caller read its clock.
prepareStorePayload(c) == ~ Expired(proc[c].kid, proc[c].now)

\* What the call changed, whether or not its answer arrives.
stored(c, s) == store' = s /\ Won(proc[c].op, proc[c].kid) /\ return(c)

storeCAS(c) ==
    /\ store.kind = "redis" /\ proc[c].pc = "store" /\ proc[c].op = "rotate" /\ prepareStorePayload(c)
    /\ LET s == redisRotateCASScript(store, proc[c].observed, proc[c].kid)
       IN  IF s = store THEN stay /\ return(c) ELSE stored(c, s)

storeForced(c) ==
    /\ store.kind = "redis" /\ proc[c].pc = "store" /\ proc[c].op = "force" /\ prepareStorePayload(c)
    /\ stored(c, redisStoreScript(store, proc[c].kid))

\* All the repository's keys expire together.
Expire ==
    /\ store.until > 0 /\ store.now >= store.until
    /\ store' = [store EXCEPT !.keys = {}, !.current = NoKey, !.until = 0]
    /\ UNCHANGED <<proc, seen>>

-----------------------------------------------------------------------------
(* MongoDB: one document per key and one for the current key id             *)

currentKID(c) ==
    /\ store.kind = "mongo" /\ proc[c].pc = "current"
    /\ IF store.current = NoKey THEN set(c, [proc[c] EXCEPT !.pc = "create"])
       ELSE set(c, [proc[c] EXCEPT !.pc = "payload", !.observed = store.current])
    /\ stay

findPayload(c) ==
    /\ proc[c].pc = "payload"
    /\ IF proc[c].observed \in store.keys /\ ~ Expired(proc[c].observed, proc[c].now)
       THEN return(c) ELSE set(c, [proc[c] EXCEPT !.pc = "create"])
    /\ stay

prepareStoreDocument(c) == ~ Expired(proc[c].kid, proc[c].now)

\* The key's document comes first, whether or not the key becomes current.
upsertKey(c) ==
    /\ store.kind = "mongo" /\ proc[c].pc = "store" /\ prepareStoreDocument(c)
    /\ store' = [store EXCEPT !.keys = @ \cup {proc[c].kid}]
    /\ set(c, [proc[c] EXCEPT !.pc = IF proc[c].op = "rotate" THEN "cas" ELSE "setCurrent"])
    /\ UNCHANGED seen

\* An insert when none was observed, else an update of the document that was.
compareAndSetCurrent(c) ==
    /\ proc[c].pc = "cas"
    /\ IF store.current = proc[c].observed
       THEN store' = [store EXCEPT !.current = proc[c].kid] /\ Won("rotate", proc[c].kid)
            /\ set(c, [proc[c] EXCEPT !.pc = "trim"])
       ELSE stay /\ set(c, [proc[c] EXCEPT !.pc = "deleteKey"])

\* The loser takes its document back, whether or not that succeeds, and reads the winner's.
deleteKey(c) ==
    /\ proc[c].pc = "deleteKey"
    /\ store' \in {store, [store EXCEPT !.keys = @ \ {proc[c].kid}]} /\ UNCHANGED seen
    /\ set(c, [proc[c] EXCEPT !.pc = "after", !.kid = NoKey])

\* currentAfterCAS reads the winner's key, waiting a while when its document is missing.
currentAfterCAS(c) == proc[c].pc = "after" /\ return(c) /\ stay

setCurrent(c) ==
    /\ proc[c].pc = "setCurrent"
    /\ store' = [store EXCEPT !.current = proc[c].kid] /\ Won("force", proc[c].kid)
    /\ set(c, [proc[c] EXCEPT !.pc = "trim"])

\* trim lists the documents by age, keeps its own and the newest, and deletes the others it has listed.
trim(c) ==
    /\ proc[c].pc = "trim"
    /\ store' = [store EXCEPT !.keys = @ \cap keepNewest(@, proc[c].kid)]
    /\ return(c) /\ UNCHANGED seen

-----------------------------------------------------------------------------
reset ==
    /\ store.current # NoKey /\ ~ seen.deleted
    /\ store' = [store EXCEPT !.keys = {}, !.current = NoKey, !.until = 0]
    /\ seen' = [seen EXCEPT !.deleted = TRUE, !.won = <<>>] /\ UNCHANGED proc

\* One DEL in Redis, one DeleteMany in MongoDB.
DeleteAll == store.kind = "redis" /\ reset
DeleteAllDocuments == store.kind = "mongo" /\ reset

Tick == store.now < MaxNow /\ store' = [store EXCEPT !.now = @ + 1] /\ UNCHANGED <<proc, seen>>

NextKeys ==
    \/ \E c \in Callers :
          \/ RotateContext(c) \/ ForcedRotateContext(c)
          \/ Fail(c) \/ createWithContext(c)
          \/ current(c) \/ rotate(c) \/ forceRotate(c)
          \/ currentPayload(c) \/ storeCAS(c) \/ storeForced(c)
          \/ currentKID(c) \/ findPayload(c) \/ upsertKey(c) \/ compareAndSetCurrent(c) \/ deleteKey(c)
          \/ currentAfterCAS(c) \/ setCurrent(c) \/ trim(c)
    \/ Expire \/ DeleteAll \/ DeleteAllDocuments \/ Tick

-----------------------------------------------------------------------------
(* Properties                                                              *)

\* A rotation that is not forced never replaces a key that is live: callers that find the current key missing or
\* expired at the same moment, in one process or in several, converge on one new key (rotate's second look,
\* redisRotateCASScript, compareAndSetCurrent).
Converged == ~ seen.displaced

\* The keys that outrank k: later rotations in memory, younger keys in Redis, where a store also keeps its own.
Outranks(k) == IF store.kind = "local"
               THEN {seen.won[i] : i \in {j \in DOMAIN seen.won : \A h \in DOMAIN seen.won : seen.won[h] = k => j > h}}
               ELSE {x \in ToSet(seen.won) : x > k}

Room == IF store.kind = "local" THEN Capacity ELSE Capacity - 1

\* A token stays verifiable for as long as its key is valid and few enough keys outrank it: pruning keeps the
\* right keys, and the expiration of the Redis keys never overtakes a live key.
Retained ==
    store.kind \in {"local", "redis"} =>
        \A k \in ToSet(seen.won) :
            Cardinality(Outranks(k)) < Room /\ ~ Expired(k, store.now) => k \in store.keys

-----------------------------------------------------------------------------
(***************************************************************************)
(* )                                                                       *)
(***************************************************************************)
CONSTANTS
    Algorithms, MaxNowTokens, MaxForced, KeyTTLTokens,
    ComposeOptions,          \* sequences of [name, value]
    ParseConfigs             \* [leeway, issuer, required, clock]: clock 0 is the provider's

\* store: the clock, the provider and its keys.
\* proc: the token that was composed last, and the options it was composed with.
\* seen: the last parse.

(* Composing and parsing tokens with a jwt.Provider, fixed or rotating: the  *)
(* order of compose options, the claims they make, the key lookup and the    *)
(* parser's checks.  Signature and claim validation of golang-jwt are        *)
(* external.  A token is a record; 0 is a claim that is not there.           *)
(***************************************************************************)

NoToken == [ok |-> FALSE]
isRSA(alg) == alg \in {"RS256", "PS256"}

\* What a constructor accepts: a secret of the bytes, or an RSA key of the bits, that the algorithm needs.
hmacSecretLength(alg) == CASE alg = "HS256" -> 32 [] alg = "HS384" -> 48 [] alg = "HS512" -> 64 [] OTHER -> 0
validateHMACSecret(alg, length) == hmacSecretLength(alg) > 0 /\ length >= hmacSecretLength(alg)
constructed(alg, size) == IF isRSA(alg) THEN size >= 2048 ELSE validateHMACSecret(alg, size)

Key(kid, alg, now) == [kid |-> kid, alg |-> alg, expires |-> now + KeyTTLTokens]

InitTokens ==
    /\ \E alg \in Algorithms, fixed \in BOOLEAN, size \in {32, 64, 2048} :
          /\ constructed(alg, size)
          /\ store = [now |-> 1, alg |-> alg, fixed |-> fixed, keys |-> <<Key(1, alg, 1)>>]
    /\ proc = [token |-> NoToken, options |-> <<>>, at |-> 0]
    /\ seen = NoToken

\* Keys have the provider's algorithm.
TypeOKTokens == /\ store.now \in 1 .. MaxNowTokens /\ Len(store.keys) \in 1 .. 2
          /\ \A i \in DOMAIN store.keys : store.keys[i].alg = store.alg /\ store.keys[i].kid \in 1 .. MaxForced + MaxNowTokens

-----------------------------------------------------------------------------
(* Keys                                                                    *)

ExpiredTokens(key, now) == now >= key.expires

\* find, with the clock that the parse was given; a fixed key is found whatever its age.
FindKeyChain(kid, now) ==
    {k \in ToSet(store.keys) : k.kid = kid /\ (store.fixed \/ ~ ExpiredTokens(k, now))}

\* CurrentKeyChain rotates when every key has expired.
live == {i \in DOMAIN store.keys : store.fixed \/ ~ ExpiredTokens(store.keys[i], store.now)}
prepended(now) == SubSeq(<<Key(store.keys[1].kid + 1, store.alg, now)>> \o store.keys, 1, 2)
keysNow == IF live # {} THEN store.keys ELSE prepended(store.now)
currentTokens == IF live # {} THEN store.keys[CHOOSE i \in live : \A j \in live : i <= j] ELSE keysNow[1]

\* ForcedRotate is refused by fixed providers.
ForcedRotate == /\ ~ store.fixed /\ store.keys[1].kid < MaxForced /\ store' = [store EXCEPT !.keys = prepended(store.now)]
                /\ UNCHANGED <<proc, seen>>

-----------------------------------------------------------------------------
(* Compose                                                                 *)

Empty == [ok |-> TRUE, headers |-> {}, iss |-> 0, exp |-> 0, nbf |-> 0, iat |-> 0, after |-> 0]
reservedHeaders == {"alg", "kid", "zip", "crit", "jku", "jwk", "x5u", "x5c"}
reservedClaims == {"iss", "sub", "aud", "exp", "nbf", "iat", "jti"}

\* One option; the first that is refused ends the composition.
applyOption(cfg, o) ==
    CASE ~ cfg.ok -> cfg
      [] o.name = "header" -> IF o.value \in reservedHeaders THEN [cfg EXCEPT !.ok = FALSE]
                              ELSE [cfg EXCEPT !.headers = @ \cup {o.value}]
      [] o.name = "claim" -> [cfg EXCEPT !.ok = o.value \notin reservedClaims]
      [] o.name = "issuer" -> [cfg EXCEPT !.iss = o.value]
      [] o.name = "expiresAt" -> [cfg EXCEPT !.exp = o.value]
      [] o.name = "expiresAfter" -> IF o.value <= 0 THEN [cfg EXCEPT !.ok = FALSE] ELSE [cfg EXCEPT !.after = o.value]
      [] o.name = "notBefore" -> [cfg EXCEPT !.nbf = o.value]
      [] OTHER -> [cfg EXCEPT !.iat = o.value]

\* build: WithExpiresAfter counts from now and wins over WithExpiresAt, and the issue time defaults to now.
buildKeepingExp(cfg, now) == [cfg EXCEPT !.exp = IF cfg.exp = 0 /\ cfg.after > 0 THEN now + cfg.after ELSE @,
                                         !.after = 0, !.iat = IF @ = 0 THEN now ELSE @]

build(cfg, now) == [cfg EXCEPT !.exp = IF cfg.after > 0 THEN now + cfg.after ELSE @,
                               !.after = 0, !.iat = IF @ = 0 THEN now ELSE @]

composeWithKey(key, options) ==
    LET cfg == FoldLeft(applyOption, Empty, options) IN
    IF cfg.ok /\ key.alg = store.alg
    THEN [ok |-> TRUE, alg |-> store.alg, kid |-> key.kid, own |-> TRUE, claims |-> build(cfg, store.now)]
    ELSE NoToken

Compose ==
    \E options \in ComposeOptions :
        /\ proc' = [token |-> composeWithKey(currentTokens, options), options |-> options, at |-> store.now]
        /\ store' = [store EXCEPT !.keys = keysNow] /\ UNCHANGED seen

\* The same claims from another service: signed with its own key of another algorithm, or with this provider's and
\* then without a key id or with a header that this package refuses.
Foreign ==
    /\ proc.token.ok /\ proc.token.own
    /\ \/ \E alg \in Algorithms \ {store.alg} : proc' = [proc EXCEPT !.token.alg = alg, !.token.own = FALSE]
       \/ proc' = [proc EXCEPT !.token.kid = 0]
       \/ proc' = [proc EXCEPT !.token.claims.headers = {"jku"}]
    /\ UNCHANGED <<store, seen>>

-----------------------------------------------------------------------------
(* Parse                                                                   *)

\* keyFunc: refused headers, then the algorithm, then the key; a fixed provider takes a token without a key id.
keyFunc(t, now) ==
    IF t.claims.headers \cap (reservedHeaders \ {"alg", "kid"}) # {} \/ t.alg # store.alg THEN {}
    ELSE IF t.kid = 0 THEN (IF store.fixed THEN {store.keys[1]} ELSE {}) ELSE FindKeyChain(t.kid, now)

\* golang-jwt's claim checks under the options the provider passes on.
claimsError(c, cfg, now) ==
    CASE c.exp # 0 /\ now >= c.exp + cfg.leeway -> "expired"
      [] c.exp = 0 /\ cfg.required -> "invalid"
      [] c.nbf # 0 /\ now < c.nbf - cfg.leeway -> "early"
      [] cfg.issuer # 0 /\ c.iss # cfg.issuer -> "invalid"
      [] OTHER -> "none"

parseWithKeyFunc(t, cfg) ==
    LET now == IF cfg.clock = 0 THEN store.now ELSE cfg.clock
    IN  IF keyFunc(t, now) # {} /\ t.own THEN claimsError(t.claims, cfg, now) ELSE "invalid"

Parse ==
    /\ proc.token.ok
    /\ \E cfg \in ParseConfigs : seen' = [ok |-> TRUE, cfg |-> cfg, at |-> IF cfg.clock = 0 THEN store.now ELSE cfg.clock,
                                          error |-> parseWithKeyFunc(proc.token, cfg)]
    /\ UNCHANGED <<store, proc>>

Forget == seen.ok /\ seen' = NoToken /\ UNCHANGED <<store, proc>>

TickTokens == store.now < MaxNowTokens /\ ~ seen.ok /\ store' = [store EXCEPT !.now = @ + 1] /\ UNCHANGED <<proc, seen>>

NextTokens == (~ seen.ok /\ (Compose \/ Foreign \/ ForcedRotate \/ Parse)) \/ Forget \/ TickTokens

-----------------------------------------------------------------------------
(* Properties                                                              *)

\* What the options asked for, whatever their order: the last value of an option, and a lifetime before a date.
asked(name) == LET at == {i \in DOMAIN proc.options : proc.options[i].name = name}
               IN  IF at = {} THEN 0 ELSE proc.options[CHOOSE i \in at : \A j \in at : j <= i].value
expiry == IF asked("expiresAfter") # 0 THEN proc.at + asked("expiresAfter") ELSE asked("expiresAt")

\* A token is accepted exactly when it was signed by this provider, while its key is retained and the time lies in the
\* window that the compose options asked for, widened by the leeway, with the issuer that the parse expects; never one
\* of another algorithm or with a refused header, and without a key id only by a fixed provider.
ParsedAsAsked ==
    seen.ok =>
        LET cfg == seen.cfg
            t == proc.token
        IN  (seen.error = "none") =
            (/\ t.own /\ t.claims.headers \cap reservedHeaders = {} /\ (t.kid = 0 => store.fixed)
             /\ t.kid # 0 => \E i \in DOMAIN store.keys :
                                store.keys[i].kid = t.kid /\ (store.fixed \/ seen.at < store.keys[i].expires)
             /\ (expiry = 0 => ~ cfg.required) /\ (expiry # 0 => seen.at < expiry + cfg.leeway)
             /\ (asked("notBefore") # 0 => seen.at >= asked("notBefore") - cfg.leeway)
             /\ (cfg.issuer # 0 => asked("issuer") = cfg.issuer))

=============================================================================

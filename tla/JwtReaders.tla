----------------------------- MODULE JwtReaders -----------------------------
(******************************************************************************)
(* Reading tokens of package jwt: the cache of verified readers, and the keys *)
(* of package jwks fetched from their issuer.                                 *)
(******************************************************************************)
EXTENDS Integers, Sequences, FiniteSets

VARIABLES store, proc, seen   \* what they hold is said in each part

vars == <<store, proc, seen>>

-----------------------------------------------------------------------------
(***************************************************************************)
(* )                                                                       *)
(***************************************************************************)
CONSTANTS
    Callers, MaxFlights, MaxNow, MaxTTL, MaxClears,
    TokenExpiry, KeyExpiry   \* when the token and its key expire

\* store: the clock, the key, the cache entry, the epoch and the flights.
\* proc: per caller: where it is, its context, and the flight it waits for.
\* seen: history: what ClearCache has promised, and errors returned to live callers.

(* CachedProvider and CachedDistributedProvider of package jwt: parsing one  *)
(* token through a reader cache, against rotations that retire the token's   *)
(* key, resets that delete it, and ClearCache.  The cache is external; it    *)
(* hands back what was set until the entry's ttl has passed.                 *)
(***************************************************************************)

Kinds == {"local", "distributed"}
Flights == 1 .. MaxFlights
Idle == [pc |-> "idle", ctx |-> "live", flight |-> 0, epoch |-> 0, late |-> FALSE]
NoFlight == [pc |-> "none", owner |-> 0, epoch |-> 0, result |-> "none", ttl |-> 0]

InitCache ==
    /\ \E k \in Kinds : store = [kind |-> k, now |-> 0, key |-> TRUE, until |-> 0, epoch |-> 0, admin |-> "idle", flight |-> 0,
                flights |-> [f \in Flights |-> NoFlight], started |-> 0]
    /\ proc = [c \in Callers |-> Idle]
    /\ seen = [cleared |-> FALSE, blamed |-> FALSE, stale |-> FALSE]

\* Flights, contexts and the entry keep to their ranges.
TypeOKCache ==
    /\ store.now \in 0 .. MaxNow /\ store.until \in 0 .. MaxNow + MaxTTL /\ store.epoch \in 0 .. MaxClears
    /\ store.flight \in 0 .. MaxFlights /\ store.started \in 0 .. MaxFlights
    /\ \A f \in Flights : store.flights[f].result \in {"none", "reader", "invalid", "canceled", "cache", "repository"}
    /\ \A c \in Callers : proc[c].flight \in 0 .. MaxFlights /\ proc[c].ctx \in {"live", "done"}

-----------------------------------------------------------------------------
(* The provider and the cache                                              *)

\* FindKeyChain: the key is retained and not expired.
FindKeyChain == store.key /\ store.now < KeyExpiry

\* The shared repository may also fail to answer (up is FALSE).
FindKeyChainContext(up) == up /\ store.key /\ store.now < KeyExpiry

\* Parse verifies the signature with the key and then the token's own expiry.
Parse == IF FindKeyChain /\ store.now < TokenExpiry THEN "reader" ELSE "invalid"
ParseDistributed(up) == IF ~up THEN "repository" ELSE IF FindKeyChainContext(up) /\ store.now < TokenExpiry THEN "reader" ELSE "invalid"

\* validateReaderFresh asks for both again; the distributed one takes a repository that fails for a stale reader.
validateReaderFresh == store.now < TokenExpiry /\ FindKeyChain
validateReaderFreshContext(up) == store.now < TokenExpiry /\ FindKeyChainContext(up)

local == store.kind = "local"
fresh(up) == IF local THEN validateReaderFresh ELSE validateReaderFreshContext(up)
found(up) == IF local THEN FindKeyChain ELSE FindKeyChainContext(up)
parsed(up) == IF local THEN Parse ELSE ParseDistributed(up)
Answers == IF local THEN {TRUE} ELSE BOOLEAN

cached == store.until > store.now

minPositiveDuration(a, b) == IF b <= 0 THEN 0 ELSE IF b < a THEN b ELSE a

cacheTTL == minPositiveDuration(minPositiveDuration(MaxTTL, TokenExpiry - store.now), KeyExpiry - store.now)

set(c, with) == proc' = [proc EXCEPT ![c] = with]
return(c) == set(c, [proc[c] EXCEPT !.pc = "done"])
put(f, with) == store' = [store EXCEPT !.flights[f] = with]

-----------------------------------------------------------------------------
(* ParseContext                                                            *)

ParseContext(c) ==
    /\ proc[c].pc = "idle" /\ proc[c].ctx = "live"
    /\ set(c, [proc[c] EXCEPT !.pc = "get", !.late = seen.cleared]) /\ UNCHANGED <<store, seen>>

\* revalidateCachedReader: a hit that is no longer fresh is deleted, and parsed anew.
revalidate(c, up) ==
    /\ proc[c].pc = "get"
    /\ \/ /\ cached /\ fresh(up) /\ return(c) /\ UNCHANGED store
       \/ /\ cached /\ ~ fresh(up) /\ store' = [store EXCEPT !.until = 0]
          /\ set(c, [proc[c] EXCEPT !.pc = "epoch"])
       \/ /\ ~ cached /\ set(c, [proc[c] EXCEPT !.pc = "epoch"]) /\ UNCHANGED store
    /\ UNCHANGED seen

parseWithCache(c) == local /\ revalidate(c, TRUE)
parseWithCacheDistributed(c) == ~local /\ \E up \in Answers : revalidate(c, up)

loadEpoch(c) ==
    /\ proc[c].pc = "epoch" /\ set(c, [proc[c] EXCEPT !.pc = "join", !.epoch = store.epoch]) /\ UNCHANGED <<store, seen>>

\* DoChan joins the flight of the key, or starts one with the caller's context and epoch.
DoChan(c) ==
    /\ proc[c].pc = "join"
    /\ IF store.flight # 0
       THEN set(c, [proc[c] EXCEPT !.pc = "wait", !.flight = store.flight]) /\ UNCHANGED store
       ELSE /\ store.started < MaxFlights
            /\ store' = [store EXCEPT !.started = @ + 1, !.flight = store.started + 1,
                                      !.flights[store.started + 1] = [NoFlight EXCEPT !.pc = "get", !.owner = c,
                                                                                     !.epoch = proc[c].epoch]]
            /\ set(c, [proc[c] EXCEPT !.pc = "wait", !.flight = store.started + 1])
    /\ UNCHANGED seen

Ended(f) == proc[store.flights[f].owner].ctx = "done"

\* The flight's function, in the order of its calls.
get(f, up) ==
    LET x == store.flights[f] IN
    /\ x.pc = "get" /\ UNCHANGED <<proc, seen>>
    /\ \/ Ended(f) /\ put(f, [x EXCEPT !.pc = "end", !.result = "canceled"])
       \/ cached /\ fresh(up) /\ put(f, [x EXCEPT !.pc = "end", !.result = "reader"])
       \/ cached /\ ~ fresh(up) /\ store' = [store EXCEPT !.until = 0, !.flights[f].pc = "parse"]
       \/ ~ cached /\ put(f, [x EXCEPT !.pc = "parse"])
       \/ put(f, [x EXCEPT !.pc = "end", !.result = "cache"])          \* jwt cache get failed

flightGet(f) == local /\ get(f, TRUE)
flightGetDistributed(f) == ~local /\ \E up \in Answers : get(f, up)

parse(f, up) ==
    LET x == store.flights[f] IN
    /\ x.pc = "parse" /\ UNCHANGED <<proc, seen>>
    /\ \/ Ended(f) /\ put(f, [x EXCEPT !.pc = "end", !.result = "canceled"])
       \/ parsed(up) = "reader" /\ put(f, [x EXCEPT !.pc = "ttl"])
       \/ parsed(up) # "reader" /\ put(f, [x EXCEPT !.pc = "end", !.result = parsed(up)])

flightParse(f) == local /\ parse(f, TRUE)
flightParseDistributed(f) == ~local /\ \E up \in Answers : parse(f, up)

ttl(f, up) ==
    LET x == store.flights[f] IN
    /\ x.pc = "ttl" /\ UNCHANGED <<proc, seen>>
    /\ \/ ~ found(up) /\ put(f, [x EXCEPT !.pc = "end", !.result = "invalid"])
       \/ found(up) /\ cacheTTL = 0 /\ put(f, [x EXCEPT !.pc = "end", !.result = "reader"])
       \/ found(up) /\ cacheTTL > 0 /\ put(f, [x EXCEPT !.pc = "set", !.ttl = cacheTTL])

readerTTL(f) == local /\ ttl(f, TRUE)
readerTTLDistributed(f) == ~local /\ \E up \in Answers : ttl(f, up)

\* Under the mutex, and only when the cache has not been cleared since the load began.
setAlways(f) ==
    LET x == store.flights[f] IN
    /\ x.pc = "set" /\ UNCHANGED <<proc, seen>>
    /\ store' = [store EXCEPT !.until = store.now + x.ttl, !.flights[f] = [x EXCEPT !.pc = "end", !.result = "reader"]]

setUnlessCleared(f) ==
    LET x == store.flights[f] IN
    /\ x.pc = "set" /\ UNCHANGED <<proc, seen>>
    /\ \/ /\ store.epoch = x.epoch
          /\ store' = [store EXCEPT !.until = store.now + x.ttl,
                                    !.flights[f] = [x EXCEPT !.pc = "end", !.result = "reader"]]
       \/ store.epoch = x.epoch /\ put(f, [x EXCEPT !.pc = "end", !.result = "cache"])     \* jwt cache set failed
       \/ store.epoch # x.epoch /\ put(f, [x EXCEPT !.pc = "end", !.result = "reader"])

flightSet(f) == local /\ setUnlessCleared(f)
flightSetDistributed(f) == ~local /\ setUnlessCleared(f)

\* The group forgets the flight when its function returns.
flightEnd(f) ==
    /\ store.flights[f].pc = "end" /\ UNCHANGED <<proc, seen>>
    /\ store' = [store EXCEPT !.flights[f].pc = "gone", !.flight = IF @ = f THEN 0 ELSE @]

\* A live caller whose flight ended with its owner's context forgets it and loads again.
answerBlamed(c) ==
    LET x == store.flights[proc[c].flight] IN
    /\ proc[c].pc = "wait" /\ x.pc = "gone"
    /\ return(c) /\ UNCHANGED store
    /\ seen' = [seen EXCEPT !.blamed = @ \/ (x.result = "canceled" /\ proc[c].ctx = "live"),
                            !.stale = @ \/ (x.result = "reader" /\ proc[c].late /\ x.epoch = store.epoch)]

answer(c) ==
    LET x == store.flights[proc[c].flight] IN
    /\ proc[c].pc = "wait" /\ x.pc = "gone"
    /\ IF x.result = "canceled" /\ proc[c].ctx = "live"
       THEN /\ store' = [store EXCEPT !.flight = 0] /\ UNCHANGED seen
            /\ set(c, [proc[c] EXCEPT !.pc = "epoch", !.flight = 0])
       ELSE /\ return(c) /\ UNCHANGED store
            /\ seen' = [seen EXCEPT !.blamed = @ \/ (x.result = "canceled" /\ proc[c].ctx = "live"),
                                    !.stale = @ \/ (x.result = "reader" /\ proc[c].late /\ x.epoch = store.epoch)]

result(c) == local /\ answer(c)
resultDistributed(c) == ~local /\ answer(c)

Done(c) == proc[c].pc \in {"get", "wait"} /\ proc[c].ctx = "done" /\ return(c) /\ UNCHANGED <<store, seen>>

Cancel(c) == proc[c].ctx = "live" /\ proc[c].pc # "done" /\ set(c, [proc[c] EXCEPT !.ctx = "done"]) /\ UNCHANGED <<store, seen>>

-----------------------------------------------------------------------------
(* ForcedRotate retires the key when capacity drops it, DeleteKeyChains      *)
(* deletes it; both then clear the cache.                                    *)

retireKey ==
    /\ store.admin = "idle" /\ store.epoch < MaxClears
    /\ store' \in {[store EXCEPT !.admin = "clear", !.key = FALSE], [store EXCEPT !.admin = "clear"]}
    /\ UNCHANGED <<proc, seen>>

ForcedRotate == local /\ retireKey
ForcedRotateContext == ~local /\ retireKey
DeleteKeyChainsContext ==
    /\ ~local /\ store.admin = "idle" /\ store.epoch < MaxClears
    /\ store' = [store EXCEPT !.admin = "clear", !.key = FALSE] /\ UNCHANGED <<proc, seen>>

\* The epoch moves even when the cache fails to clear, which the caller is told.
clear ==
    /\ store.admin = "clear" /\ UNCHANGED proc
    /\ \/ /\ store' = [store EXCEPT !.admin = "idle", !.epoch = @ + 1, !.until = 0]
          /\ seen' = [seen EXCEPT !.cleared = ~ store.key]
       \/ store' = [store EXCEPT !.admin = "idle", !.epoch = @ + 1] /\ UNCHANGED seen

ClearCache == local /\ clear
ClearCacheDistributed == ~local /\ clear

Tick == store.now < MaxNow /\ store' = [store EXCEPT !.now = @ + 1] /\ UNCHANGED <<proc, seen>>

NextCache ==
    \/ \E c \in Callers :
          \/ ParseContext(c) \/ parseWithCache(c) \/ loadEpoch(c) \/ DoChan(c) \/ result(c) \/ Done(c) \/ Cancel(c)
          \/ parseWithCacheDistributed(c) \/ resultDistributed(c)
    \/ \E f \in Flights :
          \/ flightGet(f) \/ flightParse(f) \/ readerTTL(f) \/ flightSet(f) \/ flightEnd(f)
          \/ flightGetDistributed(f) \/ flightParseDistributed(f) \/ readerTTLDistributed(f) \/ flightSetDistributed(f)
    \/ ForcedRotate \/ ForcedRotateContext \/ DeleteKeyChainsContext \/ ClearCache \/ ClearCacheDistributed \/ Tick

-----------------------------------------------------------------------------
(* Properties                                                              *)

\* Once a rotation or a reset that dropped the token's key has cleared the cache, no load that began before it puts the
\* reader back: the epoch under the mutex (CachedProvider.parseWithCache) keeps late loads out.
NotRefilled == seen.cleared => store.until = 0

\* A caller whose context is live never gets the context error of the caller that owned its flight.
NotBlamed == ~ seen.blamed

\* A parse that begins after the key is gone and the cache cleared returns a reader only by joining a load that
\* began before the clear.
StaleOnlyByJoining == ~ seen.stale

-----------------------------------------------------------------------------
(***************************************************************************)
(* )                                                                       *)
(***************************************************************************)
CONSTANTS
    MaxNowJwks, CacheTTL, Cooldown,
    Documents,   \* sets of raw keys [kid, kty, alg, use, private]
    Lookups,   \* what callers ask for: <<kid, algorithm>>
    Allowed,   \* WithAllowedAlgorithms
    MaxKeyCount

\* store: the clock, the endpoint's document, the snapshot, the flight and the cooldown's anchors.
\* proc: per caller: its call, where it is and its context.
\* seen: history: what was served, and which requests were sent.

(* jwks.Provider: looking up verification keys in a snapshot of a key set,   *)
(* refreshed by at most one request at a time from an endpoint (external)    *)
(* that publishes one of Documents and may change it at any moment.          *)
(***************************************************************************)

Never == 0 - 100
RSAAlgorithms == {"RS256", "PS256"}
Supported == RSAAlgorithms \cup {"ES256", "EdDSA"}
isSupportedAlgorithm(alg) == alg \in Supported

IdleJwks == [pc |-> "idle", want |-> <<>>, now |-> 0, tries |-> 0, forced |-> FALSE, bypass |-> FALSE, ctx |-> "live"]

InitJwks ==
    /\ \E d \in Documents : store = [now |-> 0, document |-> d, keys |-> {}, fetchedAt |-> Never, flight |-> 0,
                                     forcedAt |-> Never, error |-> FALSE, errorAt |-> Never]
    /\ proc = [c \in Callers |-> IdleJwks]
    /\ seen = [old |-> FALSE, wrong |-> FALSE, blamed |-> FALSE, missing |-> FALSE, flood |-> FALSE, last |-> Never]

\* The snapshot holds keys of published documents, and the flight has an owner that fetches.
TypeOKJwks ==
    /\ store.now \in 0 .. MaxNowJwks /\ store.keys \subseteq UNION Documents
    /\ store.flight \in {0} \cup Callers
    /\ (store.flight # 0 => proc[store.flight].pc = "fetch")
    /\ \A c \in Callers : proc[c].tries \in 0 .. 2

-----------------------------------------------------------------------------
(* Key sets                                                                *)

validateRawKey(k) ==
    k.kid # "" /\ k.use \in {"", "sig"} /\ ~ k.private /\ (k.alg = "" \/ isSupportedAlgorithm(k.alg))

\* The algorithm that a curve fixes.
curveAlgorithm(kty) == CASE kty = "P-256" -> "ES256" [] kty = "Ed25519" -> "EdDSA" [] OTHER -> ""

validatePublicKey(k) ==
    \/ k.kty = "RSA" /\ (k.alg = "" \/ k.alg \in RSAAlgorithms)
    \/ k.kty \in {"P-256", "Ed25519"} /\ k.alg \in {"", curveAlgorithm(k.kty)}

\* One key that is not acceptable, or one id twice, refuses the whole set.
parseKeySet(document) ==
    /\ document # {} /\ Cardinality(document) <= MaxKeyCount
    /\ \A k \in document : validateRawKey(k) /\ validatePublicKey(k)
    /\ Cardinality({k.kid : k \in document}) = Cardinality(document)

recordUnmatched(k, alg) == k.alg \in {"", alg}

recordMatchesAlgorithm(k, alg) ==
    /\ k.alg \in {"", alg}
    /\ IF k.kty = "RSA" THEN alg \in RSAAlgorithms ELSE curveAlgorithm(k.kty) = alg

-----------------------------------------------------------------------------
setJwks(c, with) == proc' = [proc EXCEPT ![c] = with]
returnJwks(c) == setJwks(c, [IdleJwks EXCEPT !.pc = "done"])
stay == UNCHANGED <<store, seen>>

\* KeyFunc and Lookup refuse algorithms that are not supported or not allowed.
Lookup(c) ==
    /\ proc[c].pc = "idle"
    /\ \E want \in Lookups :
          IF isSupportedAlgorithm(want[2]) /\ want[2] \in Allowed
          THEN setJwks(c, [proc[c] EXCEPT !.pc = "look", !.want = want, !.now = store.now])
          ELSE returnJwks(c)
    /\ stay

\* Refresh bypasses the cooldown.
Refresh(c) ==
    /\ proc[c].pc = "idle"
    /\ setJwks(c, [proc[c] EXCEPT !.pc = "refresh", !.forced = TRUE, !.bypass = TRUE]) /\ stay

Records(c) == {k \in store.keys : k.kid = proc[c].want[1]}

\* The history of a lookup that was answered with the snapshot.
Served(c) == seen' = [seen EXCEPT
    !.missing = @ \/ store.fetchedAt = Never,
    !.old = @ \/ (Records(c) # {} /\ proc[c].now - store.fetchedAt >= CacheTTL),
    !.wrong = @ \/ \E k \in Records(c) : recordMatchesAlgorithm(k, proc[c].want[2]) /\
                       ~ (k.kty = "RSA" <=> proc[c].want[2] \in RSAAlgorithms)]

freshAtTTL(c) == store.fetchedAt # Never /\ proc[c].now <= store.fetchedAt + CacheTTL

freshJwks(c) == store.fetchedAt # Never /\ proc[c].now < store.fetchedAt + CacheTTL

\* One attempt of Lookup: a snapshot that is fresh answers, or is refreshed when it misses the id; an old one is
\* refreshed first.
look(c) ==
    /\ proc[c].pc = "look" /\ UNCHANGED store
    /\ \/ proc[c].tries = 2 /\ returnJwks(c) /\ UNCHANGED seen
       \/ proc[c].tries < 2 /\ freshJwks(c) /\ Records(c) # {} /\ returnJwks(c) /\ Served(c)
       \/ /\ proc[c].tries < 2 /\ freshJwks(c) /\ Records(c) = {} /\ UNCHANGED seen
          /\ setJwks(c, [proc[c] EXCEPT !.pc = "refresh", !.forced = TRUE])
       \/ /\ proc[c].tries < 2 /\ ~ freshJwks(c) /\ UNCHANGED seen
          /\ setJwks(c, [proc[c] EXCEPT !.pc = "refresh", !.forced = FALSE])

\* What a call does with the answer of refresh.
after(p, err) ==
    IF err \/ p.bypass THEN [IdleJwks EXCEPT !.pc = "done"]
    ELSE IF p.forced THEN [p EXCEPT !.pc = "look", !.tries = @ + 1, !.now = store.now]
    ELSE [p EXCEPT !.pc = "use"]

\* After an old snapshot was refreshed, the new one answers.
use(c) == proc[c].pc = "use" /\ returnJwks(c) /\ Served(c) /\ UNCHANGED store

\* refresh: the errors of the last request answer during the cooldown.
forcedCooling(c) == proc[c].forced /\ ~ proc[c].bypass /\ store.forcedAt # Never /\ store.now - store.forcedAt < Cooldown
errorCooling(c) == ~ proc[c].forced /\ store.error /\ store.now - store.errorAt < Cooldown

refresh(c) ==
    /\ proc[c].pc = "refresh"
    /\ \/ store.flight # 0 /\ setJwks(c, [proc[c] EXCEPT !.pc = "wait"]) /\ stay
       \/ store.flight = 0 /\ forcedCooling(c) /\ setJwks(c, after(proc[c], store.error)) /\ stay
       \/ store.flight = 0 /\ errorCooling(c) /\ returnJwks(c) /\ stay
       \/ /\ store.flight = 0 /\ ~ forcedCooling(c) /\ ~ errorCooling(c)
          /\ setJwks(c, [proc[c] EXCEPT !.pc = "fetch"])
          /\ store' = [store EXCEPT !.flight = c]
          /\ seen' = [seen EXCEPT !.flood = @ \/ (proc[c].forced /\ ~ proc[c].bypass /\ store.now - seen.last < Cooldown)]

\* finishRefresh publishes, or remembers the error unless the caller had gone; those who wait get the same answer, and
\* try again when it was only that the owner's context ended.
wake(c, err, canceled) ==
    proc' = [x \in Callers |-> IF x = c THEN after(proc[c], err)
                               ELSE IF proc[x].pc # "wait" THEN proc[x]
                               ELSE IF canceled THEN [proc[x] EXCEPT !.pc = "refresh"]
                               ELSE after(proc[x], err)]

\* A request that is answered with a document the provider accepts.
published(s, d) == [s EXCEPT !.keys = d, !.fetchedAt = s.now, !.error = FALSE, !.errorAt = Never, !.flight = 0]

publishUnanchored(c) ==
    /\ store.flight = c /\ proc[c].pc = "fetch" /\ proc[c].ctx = "live" /\ parseKeySet(store.document)
    /\ store' = published(store, store.document)
    /\ wake(c, FALSE, FALSE) /\ seen' = [seen EXCEPT !.last = store.now]

publish(c) ==
    /\ store.flight = c /\ proc[c].pc = "fetch" /\ proc[c].ctx = "live" /\ parseKeySet(store.document)
    /\ store' = [published(store, store.document) EXCEPT !.forcedAt = store.now]
    /\ wake(c, FALSE, FALSE) /\ seen' = [seen EXCEPT !.last = store.now]

\* The request fails, times out, is too large, or is not a set of acceptable keys.
finishFailed(c) ==
    /\ store.flight = c /\ proc[c].pc = "fetch" /\ proc[c].ctx = "live"
    /\ store' = [store EXCEPT !.error = TRUE, !.errorAt = store.now, !.flight = 0,
                              !.forcedAt = IF proc[c].forced THEN store.now ELSE @]
    /\ wake(c, TRUE, FALSE)
    /\ seen' = [seen EXCEPT !.last = IF proc[c].forced THEN store.now ELSE @]

\* The owner's context has ended: nothing is remembered, and its request's answer is dropped.
finishBlaming(c) ==
    /\ store.flight = c /\ proc[c].pc = "fetch" /\ proc[c].ctx = "done"
    /\ store' = [store EXCEPT !.flight = 0] /\ wake(c, TRUE, FALSE)
    /\ seen' = [seen EXCEPT !.blamed = @ \/ \E x \in Callers \ {c} : proc[x].pc = "wait" /\ proc[x].ctx = "live"]

finishCanceled(c) ==
    /\ store.flight = c /\ proc[c].pc = "fetch" /\ proc[c].ctx = "done"
    /\ store' = [store EXCEPT !.flight = 0] /\ wake(c, TRUE, TRUE) /\ UNCHANGED seen

CancelJwks(c) == proc[c].pc \in {"refresh", "fetch", "wait"} /\ proc[c].ctx = "live" /\ setJwks(c, [proc[c] EXCEPT !.ctx = "done"]) /\ stay

\* A waiter stops with its own context.
Stop(c) == proc[c].pc = "wait" /\ proc[c].ctx = "done" /\ returnJwks(c) /\ stay

Republish == \E d \in Documents : store' = [store EXCEPT !.document = d] /\ UNCHANGED <<proc, seen>>

Again(c) == proc[c].pc = "done" /\ setJwks(c, IdleJwks) /\ stay

TickJwks == store.now < MaxNowJwks /\ store' = [store EXCEPT !.now = @ + 1] /\ UNCHANGED <<proc, seen>>

NextJwks ==
    \/ \E c \in Callers :
          \/ Lookup(c) \/ Refresh(c) \/ look(c) \/ use(c) \/ refresh(c)
          \/ publish(c) \/ finishFailed(c) \/ finishCanceled(c) \/ CancelJwks(c) \/ Stop(c) \/ Again(c)
    \/ Republish \/ TickJwks

-----------------------------------------------------------------------------
(* Properties                                                              *)

\* What a lookup is given comes from a snapshot younger than the cache TTL and of a key type that its algorithm uses,
\* and after a refresh that succeeded there always is a snapshot to read (Provider.Lookup dereferences it).
ServedSafely == ~ seen.old /\ ~ seen.wrong /\ ~ seen.missing

\* Lookups of unknown ids send at most one request per cooldown, counted from whatever request last ended.
Throttled == ~ seen.flood

\* A caller whose context is live never gets the context error of the caller whose request it waited for.
NotBlamedJwks == ~ seen.blamed

=============================================================================

---------------------------- MODULE RequestGuards ----------------------------
(***************************************************************************)
(* What stands before an operation: rate limits, the policies of package   *)
(* resilience, and the middleware of web/gin and web/echo.                 *)
(***************************************************************************)
EXTENDS Integers, FiniteSetsExt, Sequences, FiniteSets, SequencesExt

VARIABLES store, proc, seen   \* what they hold is said in each part

vars == <<store, proc, seen>>

-----------------------------------------------------------------------------
(***************************************************************************)
(* )                                                                       *)
(***************************************************************************)
CONSTANTS
    Callers, Rates, Bursts, Idles,
    Ticks,               \* ticks of the clock in the unit of the rate
    MinIdle, MaxDuration, \* minDefaultIdleTTL and math.MaxInt64, in ticks
    MaxDelay,            \* longest time between reading the clock and linearizing
    MaxNow

\* store: the limiter's options and bucket, and the clock.
\* seen: history: the level of what was let through, drained at the rate; the last refusal;.
\* : whether a failed call charged the bucket without saying so.

(* ratelimit: one bucket, shared by the Callers of a limiter in memory, in  *)
(* Redis or in PostgreSQL, or of the fixture of the conformance suite.      *)
(* Tokens are counted in 1/Ticks of the stored unit, so a tick of the clock *)
(* refills exactly rate of them; only Redis rounds to whole units.          *)
(***************************************************************************)

Kinds == {"memory", "redis", "sql", "fixture"}
Ceil(a, b) == (a + b - 1) \div b

-----------------------------------------------------------------------------
(* Options                                                                 *)

refillDuration(o) ==
    LET d == Ceil(o.burst * Ticks, o.rate) IN IF d >= MaxDuration THEN MaxDuration ELSE d

\* fullRefill * 2 of time.Duration wraps; the SQL limiter saturates.
double(d) == IF 2 * d > MaxDuration THEN 2 * d - 2 * (MaxDuration + 1) ELSE 2 * d
saturatedDouble(d) == IF d > MaxDuration \div 2 THEN MaxDuration ELSE 2 * d

idleTTL(o, doubled) == IF o.idle = 0 THEN Max({doubled, MinIdle}) ELSE o.idle

accepted(o, idle) == o.rate > 0 /\ o.burst > 0 /\ o.idle >= 0 /\ idle >= refillDuration(o)

normalizeMemory(o) == [o EXCEPT !.idle = idleTTL(o, double(refillDuration(o)))]
normalizeRedis(o) == [o EXCEPT !.idle = idleTTL(o, double(refillDuration(o)))]
normalizeSQL(o) == [o EXCEPT !.idle = idleTTL(o, saturatedDouble(refillDuration(o)))]

normalize(kind, o) ==
    CASE kind = "memory" -> normalizeMemory(o) [] kind = "redis" -> normalizeRedis(o)
      [] kind = "sql" -> normalizeSQL(o) [] OTHER -> o

\* The fixture keeps its buckets for ever, so it asks for no default.
validateConfig(o) == o.rate > 0 /\ o.burst > 0 /\ o.idle >= 0 /\ (o.idle > 0 => o.idle >= refillDuration(o))

Options(kind) ==
    IF kind = "fixture" THEN {o \in [rate : Rates, burst : Bursts, idle : Idles] : validateConfig(o)}
    ELSE {normalize(kind, o) : o \in {x \in [rate : Rates, burst : Bursts, idle : Idles] :
                                         accepted(x, normalize(kind, x).idle)}}

-----------------------------------------------------------------------------

Times == 0 .. MaxNow
NoBucket == [live |-> FALSE, tokens |-> 0, updated |-> 0, last |-> 0]
Idle == [pc |-> "idle", at |-> 0, n |-> 0]

InitLimiters ==
    /\ \E k \in Kinds : \E o \in Options(k) :
          store = [kind |-> k, opts |-> o, now |-> 0, bucket |-> NoBucket]
    /\ proc = [p \in Callers |-> Idle]
    /\ seen = [level |-> 0, wants |-> 0, by |-> 0, silent |-> FALSE]

\* The buckets, the readings of the clock and the promises keep to their ranges.
TypeOKLimiters ==
    /\ store.kind \in Kinds /\ store.now \in Times /\ store.bucket.live \in BOOLEAN
    /\ store.bucket.tokens \in 0 .. store.opts.burst * Ticks
    /\ store.bucket.updated \in Times /\ store.bucket.last \in Times
    /\ proc \in [Callers -> [pc : {"idle", "ready"}, at : Times, n : Nat]]
    /\ seen \in [level : Nat, wants : Nat, by : Nat, silent : BOOLEAN]

full == store.opts.burst * Ticks

Tick ==
    /\ store.now < MaxNow
    /\ \A p \in Callers : proc[p].pc = "ready" => store.now - proc[p].at < MaxDelay
    /\ store' = [store EXCEPT !.now = @ + 1]
    /\ seen' = [seen EXCEPT !.level = Max({0, @ - store.opts.rate})]
    /\ UNCHANGED proc

\* Allow up to the mutex, the script or the statement: a request over the
\* burst or an ended context goes no further.  The memory limiter has read
\* the clock; the statement reads it before it waits for the row.
Begin(p, n) ==
    /\ proc[p].pc = "idle" /\ n \in 1 .. store.opts.burst
    /\ proc' = [proc EXCEPT ![p] = [pc |-> "ready", at |-> store.now, n |-> n]]
    /\ UNCHANGED <<store, seen>>

\* The clock reading a call works with: the script and the fixture read it last.
reading(p) == IF store.kind \in {"memory", "sql"} THEN proc[p].at ELSE store.now

\* A bucket is dropped one tick early.
expiredEarly(b, t) == b.live /\ t - b.last >= store.opts.idle - 1

\* pruneIdle and PEXPIRE
expired(b, t) == b.live /\ t - b.last >= store.opts.idle

afterPrune(b, t) == IF expired(b, t) THEN NoBucket ELSE b

\* A reading older than the bucket refills it once more later on.
refillBackwards(b, t) ==
    [b EXCEPT !.tokens = Min({full, b.tokens + Max({0, t - b.updated}) * store.opts.rate}), !.updated = t]

\* refill of the memory limiter ignores a reading older than the bucket.
refill(b, t) ==
    IF t <= b.updated THEN b
    ELSE [b EXCEPT !.tokens = Min({full, b.tokens + (t - b.updated) * store.opts.rate}), !.updated = t]

\* The script refills whole units and moves updated_ms even if that is none.
refillScript(b, t) ==
    IF t <= b.updated THEN b
    ELSE [b EXCEPT !.tokens = Min({full, b.tokens + Ticks * (((t - b.updated) * store.opts.rate) \div Ticks)}), !.updated = t]

\* greatest(updated_at, observed_at)
refillQuery(b, t) ==
    LET later == Max({b.updated, t})
    IN  [b EXCEPT !.tokens = Min({full, b.tokens + (later - b.updated) * store.opts.rate}), !.updated = later]

refillFixture(b, t) == [b EXCEPT !.tokens = Min({full, b.tokens + (t - b.updated) * store.opts.rate}), !.updated = t]

refilled(b, t) ==
    IF ~b.live THEN [live |-> TRUE, tokens |-> full, updated |-> t, last |-> t]
    ELSE CASE store.kind = "memory" -> refill(b, t) [] store.kind = "redis" -> refillScript(b, t)
           [] store.kind = "sql" -> refillQuery(b, t) [] OTHER -> refillFixture(b, t)

\* What a call finds: only the SQL limiter leaves expired buckets to Cleanup,
\* and the fixture keeps them.
found(t) == IF store.kind \in {"memory", "redis"} THEN afterPrune(store.bucket, t) ELSE store.bucket

\* lastSeenAt, the expiry of the key, and expires_at count from here.
touchedLimiters(b, t) == [b EXCEPT !.last = IF store.kind = "sql" THEN b.updated ELSE t]

enough(b, n) == b.tokens >= n * Ticks

durationFloored(tokens) == tokens \div store.opts.rate

durationForTokens(tokens) == Ceil(tokens, store.opts.rate)

\* The bucket lets the request through, or the caller learns RetryAfter: seen
\* keeps the promise of the last refusal until a request is let through.
consume(p, b, t, silently) ==
    IF enough(b, proc[p].n)
    THEN /\ store' = [store EXCEPT !.bucket = touchedLimiters([b EXCEPT !.tokens = @ - proc[p].n * Ticks], t)]
         /\ seen' = [level |-> seen.level + proc[p].n * Ticks, wants |-> 0, by |-> 0, silent |-> seen.silent \/ silently]
    ELSE /\ store' = [store EXCEPT !.bucket = touchedLimiters(b, t)]
         /\ seen' = [seen EXCEPT !.wants = proc[p].n,
                                 !.by = Max({t, b.updated}) + durationForTokens(proc[p].n * Ticks - b.tokens)]

\* How the call to a server goes wrong: never sent, refused by the server, lost before or after it took effect.
Faults == {"none", "notDispatched", "refused", "lostBefore", "lostAfter"}
takesEffect(fault) == fault \in {"none", "lostAfter"}

\* The error tells the caller that the bucket may have been charged: ErrCommitUnknown.
allowError(fault) == fault \notin {"none", "notDispatched"}

classifyTrusting(fault) == fault \notin {"none", "notDispatched", "refused", "lostAfter"}

\* The statement that PostgreSQL refused charged nothing; nor did one for which no connection was found.
classifyOperationError(fault) == fault \notin {"none", "notDispatched", "refused"}

charged(p, fault, unknown) ==
    IF takesEffect(fault) THEN consume(p, refilled(found(reading(p)), reading(p)), reading(p), fault # "none" /\ ~unknown)
    ELSE UNCHANGED <<store, seen>>

\* The linearized part of Allow: the limiter in memory and the fixture under their mutex.
Allow(p) == store.kind = "memory" /\ proc[p].pc = "ready" /\ charged(p, "none", FALSE) /\ proc' = [proc EXCEPT ![p] = Idle]

AllowFixture(p) == store.kind = "fixture" /\ proc[p].pc = "ready" /\ charged(p, "none", FALSE) /\ proc' = [proc EXCEPT ![p] = Idle]

\* One script, and one statement on a connection of its own.
AllowRedis(p, fault) ==
    /\ store.kind = "redis" /\ proc[p].pc = "ready"
    /\ charged(p, fault, allowError(fault)) /\ proc' = [proc EXCEPT ![p] = Idle]

AllowSQL(p, fault) ==
    /\ store.kind = "sql" /\ proc[p].pc = "ready"
    /\ charged(p, fault, classifyOperationError(fault)) /\ proc' = [proc EXCEPT ![p] = Idle]

\* Cleanup of the SQL limiter, and a call for another key, whose pruneIdle
\* looks at every bucket.
expiredRow(b, t) == b.live /\ b.last + store.opts.idle <= t

Cleanup ==
    /\ store.kind = "sql" /\ expiredRow(store.bucket, store.now)
    /\ store' = [store EXCEPT !.bucket = NoBucket]
    /\ UNCHANGED <<proc, seen>>

pruneIdle ==
    /\ store.kind = "memory" /\ expired(store.bucket, store.now)
    /\ store' = [store EXCEPT !.bucket = NoBucket]
    /\ UNCHANGED <<proc, seen>>

NextLimiters ==
    \/ Tick \/ Cleanup \/ pruneIdle
    \/ \E p \in Callers : (\E n \in 1 .. store.opts.burst : Begin(p, n)) \/ Allow(p) \/ AllowFixture(p)
    \/ \E p \in Callers, f \in Faults : AllowRedis(p, f) \/ AllowSQL(p, f)

-----------------------------------------------------------------------------

Slack == IF store.kind \in {"memory", "sql"} THEN MaxDelay ELSE 0

\* Over every interval, Allow lets no more through than the burst and what is
\* refilled meanwhile, however late calls take the mutex or the row and
\* whatever buckets are pruned in between: level is the largest excess over
\* the rate of an interval that ends now.  A late clock reading adds at most
\* the time it was late by.  It also moves lastSeenAt back or finds its bucket
\* cleaned up, so the IdleTTL must leave room for both.
AdmittedBounded ==
    (store.kind \in {"memory", "sql"} => store.opts.idle >= refillDuration(store.opts) + 2 * MaxDelay)
      => seen.level <= full + Slack * store.opts.rate

\* RetryAfter is kept: a refused caller that comes back then is let through
\* unless another request was, however often the refusal was repeated in
\* between; with Redis if a tick refills whole units.
RetryKept ==
    LET b == refilled(found(store.now), store.now)
    IN  (seen.wants > 0 /\ store.now >= seen.by /\ (store.kind = "redis" => store.opts.rate % Ticks = 0))
          => enough(b, seen.wants)

\* A call that failed without ErrCommitUnknown charged nothing, so it is safe
\* to try again: Allow of the Redis and the SQL limiter, wherever the call was
\* lost.
ChargesKnown == ~seen.silent

-----------------------------------------------------------------------------
(***************************************************************************)
(* )                                                                       *)
(***************************************************************************)
CONSTANTS
    CallersPolicies, Pipelines,      \* sequences of "retry", "timeout", "bulkhead" (waits) and "reject"
    KindsPolicies,                   \* of operations: "plain", "client", "handler", "gin", "echo"
    MaxAttempts, MaxConcurrent

\* store: the pipeline, its permits, the operation and the request's body.
\* proc: per caller: the frame it is in, and what the frames hold.
\* seen: history per caller: what its attempts have done.

(* resilience.Run with retry, timeout and bulkhead policies around an       *)
(* operation: a plain one, the request of ResilientRoundTripper, or the     *)
(* handler that ResilientHandler or WrapResilience of gin and echo wrap.    *)
(* An error is the set of what errors.Is and errors.As find in its chain,   *)
(* and {} is success.                                                       *)
(***************************************************************************)

Tags == {"fail", "permanent", "canceled", "deadline", "timeout", "exhausted", "rejected"}

Depths == 1 .. Len(store.pipeline)
Policy(i) == store.pipeline[i]
IdlePolicies == [pc |-> "idle", at |-> 0, err |-> {}, tries |-> [i \in 1 .. 3 |-> 0], ctx |-> [i \in 0 .. 3 |-> "live"], held |-> {}]

InitPolicies ==
    /\ \E pl \in Pipelines, k \in KindsPolicies, b \in {"none", "once", "replay"} :
          /\ (k = "plain" => b = "none")
          /\ store = [pipeline |-> pl, kind |-> k, body |-> b, inFlight |-> [i \in 1 .. 3 |-> 0]]
    /\ proc = [p \in CallersPolicies |-> IdlePolicies]
    /\ seen = [p \in CallersPolicies |-> [written |-> FALSE, sent |-> FALSE, again |-> FALSE, problems |-> 0]]

\* Frames, contexts and permits keep to their ranges.
TypeOKPolicies ==
    /\ store.inFlight \in [1 .. 3 -> 0 .. MaxConcurrent]
    /\ proc \in [CallersPolicies -> [pc : {"idle", "enter", "running", "back", "sleep"}, at : 0 .. 4, err : SUBSET Tags,
                             tries : [1 .. 3 -> 0 .. MaxAttempts], ctx : [0 .. 3 -> {"live", "canceled", "deadline"}],
                             held : SUBSET (1 .. 3)]]
    /\ seen \in [CallersPolicies -> [written : BOOLEAN, sent : BOOLEAN, again : BOOLEAN, problems : 0 .. 1]]

-----------------------------------------------------------------------------
(* Errors                                                                  *)

\* NonRetryable keeps the cause in the chain.
NonRetryable(err) == err \cup {"permanent"}
IsNonRetryable(err) == "permanent" \in err

retryAllButCanceled(err) == "canceled" \notin err /\ ("timeout" \in err \/ "deadline" \notin err)

RetryError(cause) == cause \cup {"exhausted"}
TimeoutError(cause) == cause \cup {"timeout"}

ctxErr(c) == IF c = "live" THEN {} ELSE {c}

-----------------------------------------------------------------------------
(* Contexts: the caller's, and one per timeout.  ctx[i] is what frame i     *)
(* passes on.                                                               *)

end(ctx, from, how) == [i \in DOMAIN ctx |-> IF i >= from /\ ctx[i] = "live" THEN how ELSE ctx[i]]

Cancel(p, how) ==
    /\ proc[p].pc # "idle" /\ proc[p].ctx[0] = "live"
    /\ proc' = [proc EXCEPT ![p].ctx = end(@, 0, how)]
    /\ UNCHANGED <<store, seen>>

Expire(p, i) ==
    /\ proc[p].pc # "idle" /\ i \in Depths /\ i < proc[p].at
    /\ Policy(i) = "timeout" /\ proc[p].ctx[i] = "live"
    /\ proc' = [proc EXCEPT ![p].ctx = end(@, i, "deadline")]
    /\ UNCHANGED <<store, seen>>

-----------------------------------------------------------------------------
(* Going in                                                                *)

goBack(p, i, err) == proc' = [proc EXCEPT ![p].pc = "back", ![p].at = i, ![p].err = err]

\* Run composes the policies, the first one outermost.
Run(p) ==
    /\ proc[p].pc = "idle"
    /\ proc' = [proc EXCEPT ![p] = [IdlePolicies EXCEPT !.pc = "enter", !.at = 1]]
    /\ seen' = [seen EXCEPT ![p] = [written |-> FALSE, sent |-> FALSE, again |-> FALSE, problems |-> 0]]
    /\ UNCHANGED store

\* runOperation: an ended context ends the frame before it begins.
Ended(p) ==
    /\ proc[p].pc = "enter" /\ proc[p].ctx[proc[p].at - 1] # "live"
    /\ goBack(p, proc[p].at - 1, ctxErr(proc[p].ctx[proc[p].at - 1]))
    /\ UNCHANGED <<store, seen>>

entering(p, policies) ==
    /\ proc[p].pc = "enter" /\ proc[p].at \in Depths /\ Policy(proc[p].at) \in policies
    /\ proc[p].ctx[proc[p].at - 1] = "live"

EnterRetry(p) ==
    /\ entering(p, {"retry"})
    /\ proc' = [proc EXCEPT ![p].tries[proc[p].at] = 1, ![p].at = @ + 1]
    /\ UNCHANGED <<store, seen>>

\* context.WithTimeout; the frames below get the new context.
EnterTimeout(p) ==
    /\ entering(p, {"timeout"})
    /\ proc' = [proc EXCEPT ![p].ctx = [i \in DOMAIN @ |-> IF i >= proc[p].at THEN "live" ELSE @[i]], ![p].at = @ + 1]
    /\ UNCHANGED <<store, seen>>

acquire(p) ==
    /\ entering(p, {"bulkhead", "reject"})
    /\ store.inFlight[proc[p].at] < MaxConcurrent
    /\ store' = [store EXCEPT !.inFlight[proc[p].at] = @ + 1]
    /\ proc' = [proc EXCEPT ![p].held = @ \cup {proc[p].at}, ![p].at = @ + 1]
    /\ UNCHANGED seen

rejected(p) ==
    /\ entering(p, {"reject"}) /\ store.inFlight[proc[p].at] >= MaxConcurrent
    /\ goBack(p, proc[p].at - 1, {"rejected"})
    /\ UNCHANGED <<store, seen>>

-----------------------------------------------------------------------------
(* The operation                                                           *)

atOperation(p) == proc[p].pc = "enter" /\ proc[p].at = Len(store.pipeline) + 1 /\ proc[p].ctx[proc[p].at - 1] = "live"

used(p) == store.body = "once" /\ seen[p].sent

\* A body without GetBody is refused on the second attempt, with an error
\* like any other; echo marks it NonRetryable.
cloneRequestForAttempt(p) == IF used(p) THEN {"fail"} ELSE {}
cloneResilienceRequest(p) == IF used(p) THEN NonRetryable({"fail"}) ELSE {}

cloned(p) ==
    CASE store.kind = "client" -> cloneRequestForAttempt(p)
      [] store.kind = "echo"   -> cloneResilienceRequest(p)
      [] OTHER                 -> {}

NoBody(p) ==
    /\ atOperation(p) /\ cloned(p) # {}
    /\ goBack(p, proc[p].at - 1, cloned(p))
    /\ UNCHANGED <<store, seen>>

Start(p) ==
    /\ atOperation(p) /\ cloned(p) = {}
    /\ proc' = [proc EXCEPT ![p].pc = "running"]
    /\ seen' = [seen EXCEPT ![p].sent = TRUE, ![p].again = @ \/ seen[p].written \/ used(p)]
    /\ UNCHANGED store

here(p) == ctxErr(proc[p].ctx[proc[p].at - 1])

\* The transport's error, or the status the predicate calls retryable.
roundTrip(p) == {{}, {"fail"}, here(p)}

\* ResilientHandler only asks the context.
serveHTTP(p) == {here(p)}

\* gin: the last error of the context, else the policy's context; a response,
\* an abort or a consumed body makes it final.
ginWithoutWritten(p, err, wrote, touched) ==
    LET e == IF err # {} THEN err ELSE here(p)
    IN  IF e # {} /\ (touched \/ store.body = "once") THEN NonRetryable(e) ELSE e

ginAttempt(p, err, wrote, touched) ==
    LET e == IF err # {} THEN err ELSE here(p)
    IN  IF e # {} /\ (wrote \/ touched \/ store.body = "once") THEN NonRetryable(e) ELSE e

\* echo: a response past echo's own writer counts as success; values the
\* handler has set, a response, a consumed body or an ended context make an
\* error final.
echoAttempt(p, err, wrote, touched) ==
    IF err = {} THEN IF here(p) = {} THEN {} ELSE NonRetryable(here(p))
    ELSE IF wrote \/ touched \/ store.body = "once" \/ err \cap {"canceled", "deadline"} # {} THEN NonRetryable(err) ELSE err

Outcomes(p, err, wrote, touched) ==
    CASE store.kind = "plain" -> {err, here(p)}
      [] store.kind = "client" -> roundTrip(p)
      [] store.kind = "handler" -> serveHTTP(p)
      [] store.kind = "gin" -> {ginAttempt(p, err, wrote, touched)}
      [] store.kind = "echo" -> {echoAttempt(p, err, wrote, touched)} \cup (IF wrote THEN {{}} ELSE {})

Finish(p) ==
    /\ proc[p].pc = "running"
    /\ \E err \in {{}, {"fail"}, {"permanent"}, here(p)}, wrote \in BOOLEAN, touched \in BOOLEAN :
         /\ store.kind \in {"plain", "client"} => ~wrote /\ ~touched
         /\ \E e \in Outcomes(p, err, wrote, touched) : goBack(p, proc[p].at - 1, e)
         /\ seen' = [seen EXCEPT ![p].written = @ \/ wrote]
    /\ UNCHANGED store

\* A panic unwinds every frame; the bulkhead's release is deferred.
Panic(p) ==
    /\ proc[p].pc = "running"
    /\ store' = [store EXCEPT !.inFlight = [i \in DOMAIN @ |-> IF i \in proc[p].held THEN @[i] - 1 ELSE @[i]]]
    /\ proc' = [proc EXCEPT ![p] = IdlePolicies]
    /\ UNCHANGED seen

-----------------------------------------------------------------------------
(* Coming back                                                             *)

returning(p, policies) == proc[p].pc = "back" /\ proc[p].at \in Depths /\ Policy(proc[p].at) \in policies

retries(p) ==
    /\ proc[p].err # {} /\ ~IsNonRetryable(proc[p].err) /\ retryAllButCanceled(proc[p].err)
    /\ proc[p].tries[proc[p].at] < MaxAttempts

\* Sleep, and the check of the context before the next attempt.
Sleep(p) ==
    /\ returning(p, {"retry"}) /\ retries(p)
    /\ proc' = [proc EXCEPT ![p].pc = "sleep"]
    /\ UNCHANGED <<store, seen>>

Again(p) ==
    /\ proc[p].pc = "sleep"
    /\ LET i == proc[p].at IN
         IF proc[p].ctx[i - 1] = "live"
         THEN proc' = [proc EXCEPT ![p].pc = "enter", ![p].at = i + 1, ![p].err = {}, ![p].tries[i] = @ + 1]
         ELSE goBack(p, i - 1, ctxErr(proc[p].ctx[i - 1]))
    /\ UNCHANGED <<store, seen>>

LeaveRetry(p) ==
    /\ returning(p, {"retry"}) /\ ~retries(p)
    /\ LET e == proc[p].err
           final == e = {} \/ IsNonRetryable(e) \/ ~retryAllButCanceled(e)
       IN  goBack(p, proc[p].at - 1, IF final THEN e ELSE RetryError(e))
    /\ UNCHANGED <<store, seen>>

\* TimeoutError only if this policy's deadline ended the operation.
LeaveTimeout(p) ==
    /\ returning(p, {"timeout"})
    /\ LET i == proc[p].at
           own == "deadline" \in proc[p].err /\ proc[p].ctx[i] = "deadline" /\ proc[p].ctx[i - 1] = "live"
       IN  goBack(p, i - 1, IF own THEN TimeoutError(proc[p].err) ELSE proc[p].err)
    /\ UNCHANGED <<store, seen>>

releaseOnSuccess(p) == IF proc[p].err = {} THEN [store EXCEPT !.inFlight[proc[p].at] = @ - 1] ELSE store

release(p) == [store EXCEPT !.inFlight[proc[p].at] = @ - 1]

LeaveBulkhead(p) ==
    /\ returning(p, {"bulkhead", "reject"})
    /\ store' = release(p)
    /\ proc' = [proc EXCEPT ![p].held = @ \ {proc[p].at}, ![p].at = @ - 1]
    /\ UNCHANGED seen

answered(p) == proc[p].pc = "back" /\ proc[p].at = 0 /\ proc' = [proc EXCEPT ![p] = IdlePolicies] /\ UNCHANGED store

Return(p) == store.kind \in {"plain", "client", "handler"} /\ answered(p) /\ UNCHANGED seen

\* WrapResilience: a failure is answered with a problem if the handler has
\* written nothing; echo's own ErrorHandler is asked even if it has.
ginReturn(p) ==
    /\ store.kind = "gin" /\ answered(p)
    /\ seen' = [seen EXCEPT ![p].problems = IF proc[p].err # {} /\ ~seen[p].written THEN 1 ELSE 0]

echoReturn(p) ==
    /\ store.kind = "echo" /\ answered(p)
    /\ seen' = [seen EXCEPT ![p].problems = IF proc[p].err # {} /\ ~seen[p].written THEN 1 ELSE 0]

NextPolicies ==
    \E p \in CallersPolicies :
       \/ Run(p) \/ Ended(p) \/ EnterRetry(p) \/ EnterTimeout(p) \/ acquire(p) \/ rejected(p)
       \/ NoBody(p) \/ Start(p) \/ Finish(p) \/ Panic(p)
       \/ Sleep(p) \/ Again(p) \/ LeaveRetry(p) \/ LeaveTimeout(p) \/ LeaveBulkhead(p)
       \/ Return(p) \/ ginReturn(p) \/ echoReturn(p)
       \/ \E how \in {"canceled", "deadline"} : Cancel(p, how)
       \/ \E i \in Depths : Expire(p, i)

-----------------------------------------------------------------------------

\* Bulkhead: a permit is in use exactly while a call is inside, whether calls
\* end with an answer, an error, a panic or an ended context, so the policy
\* never lets more than MaxConcurrent in and none is lost.
PermitsReturned ==
    \A i \in Depths : store.inFlight[i] = Cardinality({p \in CallersPolicies : i \in proc[p].held})

\* WrapResilience and RoundTrip: no retry, however policies are nested, runs
\* the handler after a response was written, nor reads a request body twice
\* that cannot be replayed; no problem follows a response.
AttemptsSafe ==
    store.kind \in {"client", "gin", "echo"} => \A p \in CallersPolicies : ~seen[p].again /\ ~(seen[p].written /\ seen[p].problems = 1)

-----------------------------------------------------------------------------
(***************************************************************************)
(* )                                                                       *)
(***************************************************************************)
CONSTANTS
    Frameworks, Chains,      \* "gin", "echo"; sequences of "context", "jwt", "limit"
    Values,                  \* header values: [text, size, trimmed, printable]
    MaxValue,
    Credentials,             \* values of the Authorization header: [trimmed, comma, parts, scheme, size, clean]
    MaxBearerTokenBytes,
    Retries, Second          \* RetryAfter durations, and the length of a second in them

(* Packages web, web/gin and web/echo: one request on its way through a      *)
(* chain of the RequestContext, JWT and rate-limit middlewares to a handler   *)
(* and back. Gin runs the handlers of a chain in a loop that only Abort ends, *)
(* Echo nests them. The resilience middlewares are in Policies.               *)
(***************************************************************************)

NoContext == [requestID |-> "", correlationID |-> "", authSubject |-> ""]
Here == proc.chain[proc.index]

InitWeb ==
    /\ \E f \in Frameworks, ch \in Chains, custom \in BOOLEAN :
        proc = [framework |-> f, chain |-> ch, custom |-> custom, index |-> 1, stack |-> <<>>, request |-> <<"original">>, pc |-> "run", cancelled |-> FALSE,
                context |-> NoContext, error |-> ""]
    /\ store = [status |-> 0, sent |-> 0, aborted |-> FALSE, retry |-> 0, remaining |-> FALSE, reader |-> FALSE]
    /\ seen = [ran |-> 0, refused |-> FALSE, asked |-> 0, callback |-> <<>>, admitted |-> {}]

TypeOKWeb == /\ proc.pc \in {"run", "parsing", "allowing", "done"}
          /\ proc.index \in 1 .. Len(proc.chain) + 2 /\ store.status \in 0 .. 599 /\ store.sent \in 0 .. 2

-----------------------------------------------------------------------------
(* Problems                                                                *)

validateStatus(status) == status \in 100 .. 599
validateExtensions(problem) == problem.extensions

Problem(status) == [kind |-> "problem", status |-> status, extensions |-> TRUE]

\* The end of a context is recognised before the error's own problem.
ProblemFromError(err) ==
    CASE err.kind = "deadline" -> Problem(504)
      [] err.kind = "canceled" -> Problem(408)
      [] err.kind = "problem"  -> err
      [] OTHER                 -> Problem(500)

\* A problem that cannot be encoded writes nothing; the header goes out before the body, which may fail.
WriteProblem(s, err) ==
    LET p == ProblemFromError(err)
    IN  IF validateStatus(p.status) /\ validateExtensions(p) THEN [s EXCEPT !.status = p.status, !.sent = @ + 1] ELSE s

abort(s) == IF proc.framework = "gin" THEN [s EXCEPT !.aborted = TRUE] ELSE s

writtenTwice(s, err) == WriteProblem(WriteProblem(abort(s), err), Problem(500))

\* Gin: nothing but the abort when the response has begun; a problem that could not be written falls back to a plain 500.
AbortWithProblem(s, err) ==
    LET w == WriteProblem(abort(s), err)
    IN  IF s.sent > 0 THEN abort(s) ELSE IF w.sent > 0 THEN w ELSE WriteProblem(w, Problem(500))

\* Echo: the same without a chain to abort.
echoProblem(s, err) ==
    LET w == WriteProblem(s, err)
    IN  IF s.sent > 0 THEN s ELSE IF w.sent > 0 THEN w ELSE WriteProblem(w, Problem(500))

refuse(s, err) == IF proc.framework = "gin" THEN AbortWithProblem(s, err) ELSE echoProblem(s, err)

-----------------------------------------------------------------------------
(* Passing the request on                                                  *)

\* c.Next(), or next(c): the middleware waits below with the request it found, to put it back.
next(request) == [proc EXCEPT !.stack = Append(@, proc.request), !.request = request, !.index = @ + 1, !.pc = "run"]

\* The middleware returns without passing the request on. Gin's loop goes on with the next one unless it is aborted.
stop(s) == [proc EXCEPT !.index = IF proc.framework = "echo" \/ s.aborted THEN Len(proc.chain) + 2 ELSE @ + 1, !.pc = "run"]

CancelWeb == proc.pc # "done" /\ ~proc.cancelled /\ proc' = [proc EXCEPT !.cancelled = TRUE] /\ UNCHANGED <<store, seen>>

-----------------------------------------------------------------------------
(* RequestContext                                                          *)

\* The value of a header, <<>> when it is refused: one value at most, trimmed, short and printable.
validatedHeaderValue(v) == IF v.trimmed = "" THEN <<"">> ELSE IF v.size <= MaxValue /\ v.printable THEN <<v.trimmed>> ELSE <<>>
validatedSingleHeaderValue(vs) == IF Len(vs) > 1 THEN <<>> ELSE IF vs = <<>> THEN <<"">> ELSE validatedHeaderValue(vs[1])

\* The request id is taken or generated, the correlation id falls back to it; the rest only from a trusted proxy.
ExtractRequestContext(h, generated, trusted) ==
    LET given == validatedSingleHeaderValue(h.requestID)
        id == IF given = <<"">> THEN generated ELSE given
        correlation == validatedSingleHeaderValue(h.correlationID)
        subject == IF trusted THEN validatedSingleHeaderValue(h.authSubject) ELSE <<"">>
    IN  IF <<>> \in {id, correlation, subject} \/ id = <<"">> THEN <<>>
        ELSE <<[requestID |-> id[1], correlationID |-> IF correlation[1] = "" THEN id[1] ELSE correlation[1], authSubject |-> subject[1]]>>

Headers == {<<>>} \cup {<<v>> : v \in Values} \cup {<<v, v>> : v \in Values}

WithRequestContextOnRequest(h, generated, trusted) ==
    /\ LET value == ExtractRequestContext(h, generated, trusted)
           failed == refuse(store, Problem(400))
       IN  IF value = <<>>
           THEN store' = failed /\ proc' = stop(failed) /\ seen' = [seen EXCEPT !.refused = TRUE]
           ELSE /\ proc' = [next(Append(proc.request, "context")) EXCEPT !.context = value[1]]
                /\ seen' = [seen EXCEPT !.admitted = @ \cup {proc.index}] /\ UNCHANGED store

at(framework, middleware) == proc.framework = framework /\ proc.pc = "run" /\ proc.index <= Len(proc.chain) /\ Here = middleware

RequestContext(h, generated, trusted) == at("gin", "context") /\ WithRequestContextOnRequest(h, generated, trusted)
echoRequestContext(h, generated, trusted) == at("echo", "context") /\ WithRequestContextOnRequest(h, generated, trusted)

-----------------------------------------------------------------------------
(* JWT                                                                     *)

parseBearerToken(values) ==
    IF values = <<>> THEN "missing"
    ELSE IF Len(values) # 1 THEN "malformed"
    ELSE LET v == values[1] IN
         IF ~v.trimmed \/ v.comma \/ v.parts # 2 \/ ~v.scheme \/ v.size \notin 1 .. MaxBearerTokenBytes \/ ~v.clean THEN "malformed" ELSE ""

classifyJWTError(answer) ==
    IF proc.cancelled \/ answer = "canceled" THEN "canceled" ELSE IF answer = "expired" THEN "expired" ELSE "invalid"

\* The Echo adapter has copies of its own.
echoBearerToken(values) == parseBearerToken(values)
echoClassified(answer) == classifyJWTError(answer)

stripped(request) == Append(request, "stripped")

refused(s, kind) ==
    /\ store' = s
    /\ proc' = [stop(s) EXCEPT !.error = kind]
    /\ seen' = [seen EXCEPT !.refused = TRUE, !.callback = IF proc.custom THEN stripped(proc.request) ELSE <<>>]

failJWTUnaborted(kind) == refused(IF proc.custom THEN store ELSE AbortWithProblem(store, Problem(401)), kind)

\* A custom handler sees a copy of the request without its credentials; the chain goes no further either way.
failJWT(kind) == refused(IF proc.custom THEN abort(store) ELSE AbortWithProblem(store, Problem(401)), kind)

\* Echo's copy has no body either, and the chain goes no further because next is not called.
echoFailJWT(kind) == refused(IF proc.custom THEN store ELSE echoProblem(store, Problem(401)), kind)

parsing == proc' = [proc EXCEPT !.pc = "parsing"] /\ UNCHANGED <<store, seen>>

NewJWT(values) ==
    /\ at("gin", "jwt")
    /\ LET kind == parseBearerToken(values)
       IN  IF kind # "" THEN failJWT(kind) ELSE IF proc.cancelled THEN failJWT("canceled") ELSE parsing

echoNewJWT(values) ==
    /\ at("echo", "jwt")
    /\ LET kind == echoBearerToken(values)
       IN  IF kind # "" THEN echoFailJWT(kind) ELSE IF proc.cancelled THEN echoFailJWT("canceled") ELSE parsing

\* The parser answers; the context may have ended meanwhile.
parseJWT(answer) ==
    /\ proc.pc = "parsing"
    /\ IF answer = "reader" /\ ~proc.cancelled
       THEN /\ store' = [store EXCEPT !.reader = TRUE]
            /\ proc' = next(proc.request)
            /\ seen' = [seen EXCEPT !.admitted = @ \cup {proc.index}]
       ELSE IF proc.framework = "gin" THEN failJWT(classifyJWTError(answer)) ELSE echoFailJWT(echoClassified(answer))

-----------------------------------------------------------------------------
(* Rate limit                                                              *)

retryFloored(d) == d \div Second

retryAfterSeconds(d) == IF d <= 0 THEN 0 ELSE (d + Second - 1) \div Second

\* The request goes to ratelimit.Handler with the framework's context inside; its next handler is the rest of the chain.
allowing == proc' = [proc EXCEPT !.pc = "allowing"] /\ UNCHANGED <<store, seen>>
NewRateLimit == at("gin", "limit") /\ allowing
echoNewRateLimit == at("echo", "limit") /\ allowing

rateLimitError(s, answer, retry) ==
    CASE answer = "ended"    -> WriteProblem(s, [kind |-> "canceled"])
      [] answer = "error"    -> WriteProblem(s, Problem(503))
      [] answer = "rejected" -> WriteProblem([s EXCEPT !.retry = retryAfterSeconds(retry), !.remaining = TRUE], Problem(429))

unabortedRateLimitError(answer, retry) == IF proc.custom THEN store ELSE rateLimitError(store, answer, retry)

\* Gin's chain ends here whether a custom handler answers or the problem is written.
handleRateLimitError(answer, retry) == IF proc.custom THEN abort(store) ELSE rateLimitError(abort(store), answer, retry)
echoRateLimitError(answer, retry) == IF proc.custom THEN store ELSE rateLimitError(store, answer, retry)

\* ServeHTTP: an empty key and a failing limiter are errors, a limiter that refuses is not.
ServeHTTP(answer, retry) ==
    /\ proc.pc = "allowing"
    /\ answer = "ended" => proc.cancelled
    /\ IF answer # "allowed"
       THEN LET s == IF proc.framework = "gin" THEN handleRateLimitError(answer, retry) ELSE echoRateLimitError(answer, retry)
            IN  /\ store' = s /\ proc' = [stop(s) EXCEPT !.error = "limit"]
                /\ seen' = [seen EXCEPT !.refused = TRUE, !.asked = IF answer = "rejected" /\ ~proc.custom THEN retry ELSE 0]
       ELSE /\ proc' = next(Append(proc.request, "limit"))
            /\ seen' = [seen EXCEPT !.admitted = @ \cup {proc.index}] /\ UNCHANGED store

-----------------------------------------------------------------------------
(* The handler, and the way back                                           *)

\* The handler answers, or reports an error as a problem, or returns an error (Echo).
Handle(err) ==
    /\ proc.pc = "run" /\ proc.index = Len(proc.chain) + 1
    /\ store' = IF err.kind = "none" THEN [store EXCEPT !.status = 200, !.sent = @ + 1]
                ELSE IF err.kind = "returned" THEN store ELSE refuse(store, err)
    /\ proc' = [proc EXCEPT !.index = @ + 1, !.error = IF err.kind = "returned" /\ proc.framework = "echo" THEN "returned" ELSE @]
    /\ seen' = [seen EXCEPT !.ran = @ + 1]

\* A middleware below returns: the one above puts back the request it found, and its own loop or call is over.
ReturnWeb ==
    /\ proc.pc = "run" /\ proc.index = Len(proc.chain) + 2
    /\ proc' = IF proc.stack = <<>> THEN [proc EXCEPT !.pc = "done"] ELSE [proc EXCEPT !.request = proc.stack[Len(proc.stack)], !.stack = SubSeq(@, 1, Len(@) - 1)]
    /\ UNCHANGED <<store, seen>>

Errors == {[kind |-> "none"], [kind |-> "returned"], [kind |-> "deadline"], [kind |-> "other"], Problem(422), Problem(42), [Problem(409) EXCEPT !.extensions = FALSE]}

NextWeb ==
    \/ CancelWeb \/ ReturnWeb \/ NewRateLimit \/ echoNewRateLimit
    \/ proc.pc = "run" /\ proc.index <= Len(proc.chain) /\ Here = "context" /\
       \E id, co, au \in Headers, g \in {<<"generated">>, <<"">>, <<>>}, t \in BOOLEAN :
            LET h == [requestID |-> id, correlationID |-> co, authSubject |-> au] IN RequestContext(h, g, t) \/ echoRequestContext(h, g, t)
    \/ \E c \in Credentials : NewJWT(c) \/ echoNewJWT(c)
    \/ \E a \in {"reader", "nil", "expired", "canceled", "invalid"} : parseJWT(a)
    \/ \E a \in {"allowed", "rejected", "error", "ended"}, d \in Retries : ServeHTTP(a, d)
    \/ \E e \in Errors : Handle(e)

-----------------------------------------------------------------------------
(* Properties                                                              *)

\* The handler runs at most once, and only when every middleware ahead of it let the request through: a middleware that
\* refuses ends the chain, in Gin's loop too, whether or not a custom error handler writes the answer.
Gated == /\ seen.ran <= 1
         /\ seen.ran = 1 => ~seen.refused /\ seen.admitted = 1 .. Len(proc.chain)
         /\ seen.ran = 1 /\ "jwt" \in ToSet(proc.chain) => store.reader

\* When the chain is over the request is the one it began with, one response was begun at most, and one was begun unless
\* a custom handler or the framework is to answer; a rejected client is told to wait no less than the limiter asked for,
\* and less than a second more.
Answered ==
    proc.pc = "done" =>
        /\ proc.request = <<"original">> /\ store.sent <= 1
        /\ store.sent = 1 \/ proc.custom \/ seen.ran = 1
        /\ seen.asked > 0 => store.retry * Second >= seen.asked /\ (store.retry - 1) * Second < seen.asked

=============================================================================

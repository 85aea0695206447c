------------------------------ MODULE MCStores ------------------------------
(***************************************************************************)
(* Model checking of the Redis structures and of the caches, each on its    *)
(* own: which chooses the one a behaviour is about, and the variables of    *)
(* the others stay as they are.  The caches use store, proc and seen.       *)
(***************************************************************************)
EXTENDS FencedLock

CONSTANTS None, MaxPermits, MaxEntries, MaxIdle, MaxFaults, Limits, MaxSize, MaxValues

VARIABLES
  which,
  clock, opts, attempts, call, key, leases, acquired,
  db, writes, taken, reply,
  last, entries, cursor, pending, working, acked, removed, faults

Namespaces == {<<"n">>}
HashTags == {<<>>}
Logical == {<<"x">>, <<"map", "x">>}
Consumers == Clients
StoreTTL == 1
StoreNow == 1

Mutex == INSTANCE RedisMutex
Semaphore == INSTANCE RedisSemaphore
Store == INSTANCE RedisStore WITH MaxTTL <- StoreTTL, MaxNow <- StoreNow
Stream == INSTANCE RedisStream

storeOnly == <<db, writes, taken, reply>>
streamOnly == <<last, entries, cursor, pending, working, acked, removed, faults>>
leaseOnly == <<opts, attempts, call>>
allVars == <<vars, which, clock, leaseOnly, key, leases, acquired, storeOnly, streamOnly>>

Unused(x) == x = 0
NoLeases == Unused(opts) /\ Unused(attempts) /\ Unused(call) /\ Unused(key) /\ Unused(leases) /\ Unused(acquired)
NoStore == Unused(db) /\ Unused(writes) /\ Unused(taken) /\ Unused(reply)
NoStream ==
  /\ Unused(last) /\ Unused(entries) /\ Unused(cursor) /\ Unused(pending)
  /\ Unused(working) /\ Unused(acked) /\ Unused(removed) /\ Unused(faults)

AllInit ==
  /\ Init
  /\ \/ which = "lock" /\ Unused(clock) /\ NoLeases /\ NoStore /\ NoStream
     \/ /\ ttl = MaxTTL
        /\ \/ which = "mutex" /\ Mutex!Init /\ Unused(leases) /\ Unused(acquired) /\ NoStore /\ NoStream
           \/ which = "semaphore" /\ Semaphore!Init /\ Unused(key) /\ NoStore /\ NoStream
           \/ which = "store" /\ Store!Init /\ NoLeases /\ NoStream
           \/ which = "stream" /\ Stream!Init /\ Unused(clock) /\ NoLeases /\ NoStore

AllNext ==
  \/ /\ which = "lock" /\ Next
     /\ UNCHANGED <<which, clock, leaseOnly, key, leases, acquired, storeOnly, streamOnly>>
  \/ /\ which = "mutex" /\ Mutex!Next
     /\ UNCHANGED <<vars, which, leases, acquired, storeOnly, streamOnly>>
  \/ /\ which = "semaphore" /\ Semaphore!Next
     /\ UNCHANGED <<vars, which, key, storeOnly, streamOnly>>
  \/ /\ which = "store" /\ Store!Next
     /\ UNCHANGED <<vars, which, leaseOnly, key, leases, acquired, streamOnly>>
  \/ /\ which = "stream" /\ Stream!Next
     /\ UNCHANGED <<vars, which, clock, leaseOnly, key, leases, acquired, storeOnly>>

AllSpec == AllInit /\ [][AllNext]_allVars

\* The types of the structures: the keys, the leases, the entries and the replies.
RedisTypes ==
  /\ TypeOK
  /\ which = "mutex" => Mutex!TypeOK
  /\ which = "semaphore" => Semaphore!TypeOK
  /\ which = "store" => Store!TypeOK
  /\ which = "stream" => Stream!TypeOK

\* What Redis holds for its users is kept: a failed TryLock of lock/redis that left its key says so, live leases of the
\* semaphore never pass its permits, a value is taken at most once (GetAndDelete, CompareAndSet), a bucket never returns a
\* map's value, only a TTL of 0 makes one persistent, and a stream entry is ahead of the cursor, pending, acknowledged or
\* removed.
RedisDataKept ==
  /\ which = "mutex" => Mutex!AmbiguityReported
  /\ which = "semaphore" => Semaphore!PermitsBounded
  /\ which = "store" => Store!TakenOnce /\ Store!KindsSeparate /\ Store!PersistentIfAsked
  /\ which = "stream" => Stream!NothingLost

-----------------------------------------------------------------------------
(* The caches                                                              *)

VARIABLES store, proc, seen

cacheVars == <<store, proc, seen>>
storesVars == <<allVars, cacheVars>>

Operations == [p \in 1 .. 3 |->
                 CASE p = 1 -> {"GetOrLoad", "Set"}
                   [] p = 2 -> {"Get", "GetOrLoad", "Delete", "InvalidateLocal"}
                   [] p = 3 -> {"ClearLocal", "Clear"}]

Loading == INSTANCE LoadingCaches WITH Callers <- {1, 2}, Procs <- {1, 2}, MaxTokens <- 3
Tiered == INSTANCE TieredCache WITH Callers <- {1, 2, 3}, Values <- {1, 2}, Ops <- Operations, LateCancel <- FALSE
Remote == INSTANCE RedisCaches WITH
    Nodes <- {1, 2}, Closers <- {1}, MaxVersion <- 3,
    MaxBytes <- 2, TTLs <- {0, 1, 5, 8, 11}, LocalTTL <- 6, MaxClock <- 14, MaxWrites <- 3
\* The tiered cache with a caller whose context ends between the check that follows SET and the write of L1.
TwoWriters == [p \in {1, 2} |-> IF p = 1 THEN {"Set"} ELSE {"Set", "Get"}]
Late == INSTANCE TieredCache WITH Callers <- {1, 2}, Values <- {1, 2}, Ops <- TwoWriters, LateCancel <- TRUE

NoRedis == Init /\ ttl = MaxTTL /\ Unused(clock) /\ NoLeases /\ NoStore /\ NoStream

CachesInit ==
    /\ NoRedis
    /\ \/ which = "memory" /\ Loading!InitMemory
       \/ which = "tiered" /\ Tiered!Init
       \/ which = "near" /\ Remote!InitNear
       \/ which = "stampede" /\ Loading!InitStampede
       \/ which = "values" /\ Remote!InitValue

CachesNext ==
    /\ UNCHANGED allVars
    /\ \/ which = "memory" /\ Loading!NextMemory
       \/ which = "tiered" /\ Tiered!Next
       \/ which = "near" /\ Remote!NextNear
       \/ which = "stampede" /\ Loading!NextStampede
       \/ which = "values" /\ Remote!NextValue

StoresInit == (AllInit /\ store = 0 /\ proc = 0 /\ seen = 0) \/ CachesInit
StoresNext == (AllNext /\ UNCHANGED cacheVars) \/ CachesNext
StoresSpec == StoresInit /\ [][StoresNext]_storesVars

\* The late cancellation, for a run of its own.
LateInit == which = "late" /\ NoRedis /\ Late!Init
LateNext == Late!Next /\ UNCHANGED allVars
LateSpec == LateInit /\ [][LateNext]_storesVars

\* Every structure and every cache keeps to its types: keys, leases, entries, coordinators, localState.
TypesOK ==
    /\ RedisTypes
    /\ which = "memory" => Loading!TypeOKMemory
    /\ which = "tiered" => Tiered!TypeOK
    /\ which = "near" => Remote!TypeOKNear
    /\ which = "stampede" => Loading!TypeOKStampede
    /\ which = "values" => Remote!TypeOKValue

\* No cache serves what it should not: a healthy L1 serves what Redis holds once no call is reconciling them, under one
\* holder of the key's token (redisvalue.TieredCache); no copy is older than the source once the messages are in, and a
\* closed cache is quiet (redisnear.NearCache); a bounded read answers for one state of the key, out of an intact envelope
\* of its own profile, and the L1 entry of a write does not outlive the L2 entry (redisvalue, redisfory).
CachesCoherent ==
    /\ which = "tiered" => Tiered!Coherent /\ Tiered!OneHolder
    /\ which = "near" => Remote!CopiesFresh /\ Remote!ClosedIsQuiet
    /\ which = "values" => Remote!ReadIsReal /\ Remote!EnvelopeGuards /\ Remote!WriteNotOutlived

\* Loads are shared and nobody pays for another's: one loader runs at a time and its context error ends only callers
\* whose own context has ended (cache.Memory); whoever shares a flight shares one that will be published
\* (redisvalue.TieredCache); a waiter loads only without a result, never takes an earlier burst's, and every way out of
\* an owner's call releases the load lock (rediscoord.StampedeCache).
LoadsShared ==
    /\ which = "memory" => Loading!NotPoisoned /\ Loading!Collapsed
    /\ which = "tiered" => Tiered!FlightIsLed
    /\ which = "stampede" => Loading!NoNeedlessLoad /\ Loading!NoOldResult /\ Loading!LockNotAbandoned

\* What a step may do: the key of lock/redis moves only like the lock of the conformance suite (locktest), Unlock deletes its own key or nothing, GetAndDelete and CompareAndSet leave a value over the limit alone,
\* and only an explicit ClearLocal heals a blocked L1, and leaves it empty (redisvalue.TieredCache).
StepsAllowed ==
    /\ (which = "mutex" => Mutex!Cell!Init) /\ [][which = "mutex" => Mutex!CellStep /\ Mutex!OthersKept]_storesVars
    /\ [][which = "store" /\ clock' = clock => Store!OversizeKept]_storesVars
    /\ [][(which = "tiered") => Tiered!HealedByClearLocal]_storesVars

\* redisvalue.TieredCache, also when a context ends just before L1 is written: a healthy L1 serves what Redis holds.
Coherent == Late!Coherent

=============================================================================

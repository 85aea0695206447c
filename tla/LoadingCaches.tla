---------------------------- MODULE LoadingCaches ----------------------------
(***************************************************************************)
(* Caches that collapse concurrent loads: cache.Memory within a process,   *)
(* cache/rediscoord across processes.                                      *)
(***************************************************************************)
EXTENDS Integers, FiniteSets

VARIABLES store, proc, seen   \* what they hold is said in each part

vars == <<store, proc, seen>>

-----------------------------------------------------------------------------
(***************************************************************************)
(* )                                                                       *)
(***************************************************************************)
CONSTANT Callers    \* goroutines using the cache

\* store: the entry, the flight key and the group of running calls.
\* proc: the callers, each with the load it started.
\* seen: a flight key was dropped while another GetOrLoad was under way.

(* cache: Memory, the process-local TTL cache, for one key.  GetOrLoad     *)
(* runs the loader in a singleflight call keyed by the flight key of the   *)
(* cache key; the call runs in a goroutine of its own with the context of  *)
(* the caller that started it, and callers that arrive meanwhile share its *)
(* result.  singleflight.Group is external: DoChan joins the call running  *)
(* under the flight key or starts one, and the call leaves the group when  *)
(* its function returns.  A caller makes its next call when the load it    *)
(* started has ended.                                                      *)
(***************************************************************************)

Keys == 1 .. Cardinality(Callers)
Nobody == 0

Idle == [pc |-> "idle", live |-> TRUE, key |-> 0, led |-> Nobody, run |-> "none", shared |-> FALSE,
         out |-> "none", again |-> FALSE]

TypeOKMemory ==
    /\ store \in [entry : {"none", "fresh", "expired"}, key : Keys \cup {0},
                  flights : [Keys -> Callers \cup {Nobody}]]
    /\ proc \in [Callers -> [pc : {"idle", "miss", "keyed", "waiting", "answered"}, live : BOOLEAN, key : Keys \cup {0},
                             led : Callers \cup {Nobody}, run : {"none", "check", "load"}, shared : BOOLEAN,
                             out : {"none", "value", "error", "context"}, again : BOOLEAN]]
    /\ seen \in BOOLEAN

InitMemory ==
    /\ store = [entry |-> "none", key |-> 0, flights |-> [k \in Keys |-> Nobody]]
    /\ proc = [p \in Callers |-> Idle]
    /\ seen = FALSE

Active == {p \in Callers : proc[p].pc # "idle" \/ proc[p].run # "none"}

\* Get drops an expired entry together with its flight key.
getMiss(s) == IF s.entry = "expired" THEN [s EXCEPT !.entry = "none", !.key = 0] ELSE s

\* The first look of GetOrLoad: a hit returns at once.
GetOrLoad(p) ==
    /\ proc[p].pc = "idle" /\ proc[p].run = "none"
    /\ store.entry # "fresh"
    /\ store' = getMiss(store)
    /\ proc' = [proc EXCEPT ![p] = [Idle EXCEPT !.pc = "miss"]]
    /\ seen' = (seen \/ (store.entry = "expired" /\ Active # {}))

\* A mutant flightKey, which reads the registry and stores into it under two locks.
flightKeyNew(p) ==
    /\ proc[p].pc = "miss"
    /\ LET k == CHOOSE i \in Keys : store.flights[i] = Nobody /\ \A q \in Callers \ {p} : proc[q].key # i
       IN  /\ store' = [store EXCEPT !.key = k]
           /\ proc' = [proc EXCEPT ![p].pc = "keyed", ![p].key = k]
    /\ UNCHANGED seen

\* flightKey: the registered key, or a new one.
flightKey(p) ==
    /\ proc[p].pc = "miss"
    /\ LET k == IF store.key # 0 THEN store.key
                ELSE CHOOSE i \in Keys : store.flights[i] = Nobody /\ \A q \in Callers \ {p} : proc[q].key # i
       IN  /\ store' = [store EXCEPT !.key = k]
           /\ proc' = [proc EXCEPT ![p].pc = "keyed", ![p].key = k]
    /\ UNCHANGED seen

\* DoChan joins the call of the flight key, or starts it.
DoChan(p) ==
    /\ proc[p].pc = "keyed"
    /\ LET q == store.flights[proc[p].key]
       IN  IF q # Nobody
           THEN /\ proc' = [proc EXCEPT ![p].pc = "waiting", ![p].led = q, ![q].shared = TRUE]
                /\ UNCHANGED store
           ELSE /\ store' = [store EXCEPT !.flights[proc[p].key] = p]
                /\ proc' = [proc EXCEPT ![p].pc = "waiting", ![p].led = p, ![p].run = "check", ![p].shared = FALSE]
    /\ UNCHANGED seen

\* The call p started returns out to everyone waiting for it.
answer(p, out) ==
    [q \in Callers |->
        LET r == IF q = p THEN [proc[q] EXCEPT !.run = "none", !.shared = FALSE] ELSE proc[q]
        IN  IF proc[q].pc # "waiting" \/ proc[q].led # p THEN r
            ELSE [r EXCEPT !.pc = "answered", !.out = out, !.again = proc[p].shared /\ out = "context"]]

\* The call of p leaves the group.
leave(s, p) == [s EXCEPT !.flights = [k \in Keys |-> IF @[k] = p THEN Nobody ELSE @[k]]]

\* deleteFlightKey: whatever flight key is registered by now.
deleteFlightKey(s) == [s EXCEPT !.key = 0]

\* The call looks again before it loads, with the context of the caller that started it.
Check(p) ==
    /\ proc[p].run = "check"
    /\ CASE ~proc[p].live -> /\ store' = deleteFlightKey(leave(store, p))
                             /\ proc' = answer(p, "context")
         [] proc[p].live /\ store.entry = "fresh" -> /\ store' = leave(store, p)
                                                     /\ proc' = answer(p, "value")
         [] OTHER -> /\ store' = getMiss(store)
                     /\ proc' = [proc EXCEPT ![p].run = "load"]
    /\ seen' = (seen \/ (proc[p].live /\ store.entry = "expired") \/ (~proc[p].live /\ Active # {p}))

\* The loader returns: an error, or a value that is stored if the context has not ended.  The
\* loader's error may be a context error of its own, or of the context it was given.
Loaded(p) ==
    /\ proc[p].run = "load"
    /\ \E out \in {"value", "error", "context"} :
          /\ out = "value" => proc[p].live
          /\ store' = IF out = "value" THEN [leave(store, p) EXCEPT !.entry = "fresh"]
                      ELSE deleteFlightKey(leave(store, p))
          /\ proc' = answer(p, out)
          /\ seen' = (seen \/ (out # "value" /\ Active # {p}))

\* A mutant receive, which takes a shared context error for its own.
retriesNever(p) == FALSE

\* A caller whose context lives does not take the context error of a shared call.
retries(p) == proc[p].again /\ proc[p].live

\* The caller receives the answer.  When it goes round again it has the group forget the call of its
\* flight key, which may by now be another one.
Receive(p) ==
    /\ proc[p].pc = "answered"
    /\ IF retries(p)
       THEN /\ proc' = [proc EXCEPT ![p].pc = "miss", ![p].key = 0, ![p].led = Nobody, ![p].out = "none", ![p].again = FALSE]
            /\ store' = [store EXCEPT !.flights[proc[p].key] = Nobody]
       ELSE /\ proc' = [proc EXCEPT ![p].pc = "idle", ![p].key = 0, ![p].again = FALSE]
            /\ UNCHANGED store
    /\ UNCHANGED seen

\* A caller's context ends; a waiting caller returns, its load goes on.
Cancel(p) ==
    /\ proc[p].pc # "idle" /\ proc[p].live
    /\ proc' = [proc EXCEPT ![p].live = FALSE]
    /\ UNCHANGED <<store, seen>>

GiveUp(p) ==
    /\ proc[p].pc \in {"waiting", "answered"} /\ ~proc[p].live
    /\ proc' = [proc EXCEPT ![p].pc = "idle", ![p].out = "context", ![p].key = 0, ![p].again = FALSE]
    /\ UNCHANGED <<store, seen>>

Set ==
    /\ store' = [store EXCEPT !.entry = "fresh"]
    /\ UNCHANGED <<proc, seen>>

\* Delete and Clear drop the entry and its flight key.
Delete ==
    /\ store' = [store EXCEPT !.entry = "none", !.key = 0]
    /\ seen' = (seen \/ Active # {})
    /\ UNCHANGED proc

Expire ==
    /\ store.entry = "fresh"
    /\ store' = [store EXCEPT !.entry = "expired"]
    /\ UNCHANGED <<proc, seen>>

NextMemory ==
    \/ Set \/ Delete \/ Expire
    \/ \E p \in Callers : \/ GetOrLoad(p) \/ flightKey(p) \/ DoChan(p) \/ Check(p) \/ Loaded(p)
                           \/ Receive(p) \/ Cancel(p) \/ GiveUp(p)

SpecMemory == InitMemory /\ [][NextMemory]_vars

-----------------------------------------------------------------------------
(* Properties *)

\* A caller that shares the load of another gets a context error only if its own context has ended,
\* whatever became of the context the load runs with (GetOrLoad's retry).
NotPoisoned == \A p \in Callers : proc[p].pc = "idle" /\ proc[p].out = "context" /\ proc[p].led \notin {Nobody, p} => ~proc[p].live

\* One loader of the key runs at a time as long as no flight key is dropped under another call: by a
\* load that fails, by Delete and Clear, or with an expired entry (flightKey, deleteFlightKey).
Collapsed == ~seen => Cardinality({p \in Callers : proc[p].run = "load"}) <= 1

-----------------------------------------------------------------------------
(***************************************************************************)
(* )                                                                       *)
(***************************************************************************)
CONSTANTS
    Procs,       \* processes, each with a wrapped cache of its own
    MaxTokens    \* bound: lock attempts

\* store: the load lock, the result envelope, the tokens handed out.
\* proc: the call of every process and its cached value.
\* seen: tokens whose lock expired or could not be released; results older than a call.

(* cache/rediscoord: StampedeCache, one load per cold burst across         *)
(* processes, for one key.  The process that takes the Redis load lock     *)
(* loads and publishes the result under its owner token; the others poll   *)
(* for the result of the owner they saw.  A token is used once and names   *)
(* the value its owner loads.  Keys expire by an action of their own, so   *)
(* every TTL is covered.                                                   *)
(***************************************************************************)

Tokens == 1 .. MaxTokens

Pcs == {"idle", "lock", "reconcile", "load", "ensure", "publish", "unlock", "read", "owner", "reread"}

TypeOKStampede ==
    /\ store \in [lock : Tokens \cup {0}, result : Tokens \cup {0}, next : 1 .. MaxTokens + 1]
    /\ proc \in [Procs -> [pc : Pcs, token : Tokens \cup {0}, owner : Tokens \cup {0}, local : Tokens \cup {0}]]
    /\ seen \in [lapsed : SUBSET Tokens, stuck : SUBSET Tokens, old : [Procs -> SUBSET Tokens]]

InitStampede ==
    /\ store = [lock |-> 0, result |-> 0, next |-> 1]
    /\ proc = [p \in Procs |-> [pc |-> "idle", token |-> 0, owner |-> 0, local |-> 0]]
    /\ seen = [lapsed |-> {}, stuck |-> {}, old |-> [p \in Procs |-> {}]]

At(p, pc) == proc[p].pc = pc
Goto(p, pc) == proc' = [proc EXCEPT ![p].pc = pc]
End(p) == proc' = [proc EXCEPT ![p].pc = "idle", ![p].token = 0, ![p].owner = 0]

\* GetOrLoad: the wrapped cache missed.
GetOrLoadStampede(p) ==
    /\ At(p, "idle")
    /\ proc[p].local = 0
    /\ Goto(p, "lock")
    /\ seen' = [seen EXCEPT !.old[p] = {store.result} \ {0, store.lock}]
    /\ UNCHANGED store

\* The wrapped cache loses its value (Delete, Clear, expiry).
Forget(p) ==
    /\ At(p, "idle") /\ proc[p].local # 0
    /\ proc' = [proc EXCEPT ![p].local = 0]
    /\ seen' = [seen EXCEPT !.old[p] = {}]
    /\ UNCHANGED store

\* tryAcquire: the lock is taken, or another owner has it, or the outcome is unknown.
tryAcquire(p) ==
    /\ At(p, "lock")
    /\ store.next <= MaxTokens
    /\ LET t == store.next
           taken == [store EXCEPT !.lock = IF @ = 0 THEN t ELSE @, !.next = t + 1]
       IN  \/ /\ store.lock = 0
              /\ store' = taken
              /\ proc' = [proc EXCEPT ![p].pc = "load", ![p].token = t, ![p].owner = 0]
           \/ /\ store.lock # 0
              /\ UNCHANGED store
              /\ proc' = [proc EXCEPT ![p].pc = "owner", ![p].owner = 0]
           \/ /\ store' \in {taken, [store EXCEPT !.next = t + 1]}
              /\ proc' = [proc EXCEPT ![p].pc = "reconcile", ![p].token = t, ![p].owner = 0]
    /\ UNCHANGED seen

\* reconcileUnlock: an unlock of a lock that may have been taken, tried twice.
reconcileUnlock(p) ==
    /\ At(p, "reconcile")
    /\ \/ store' = [store EXCEPT !.lock = IF @ = proc[p].token THEN 0 ELSE @] /\ UNCHANGED seen
       \/ seen' = [seen EXCEPT !.stuck = @ \cup {proc[p].token}] /\ UNCHANGED store
    /\ End(p)

\* loadAsOwner: the loader fills the wrapped cache, or fails.
Load(p) ==
    /\ At(p, "load")
    /\ \/ proc' = [proc EXCEPT ![p].pc = "ensure", ![p].local = proc[p].token]
       \/ Goto(p, "unlock")
    /\ UNCHANGED <<store, seen>>

\* ensureOwner: the result is published only under a lock that is still held.
ensureOwner(p) ==
    /\ At(p, "ensure")
    /\ \/ store.lock = proc[p].token /\ Goto(p, "publish")
       \/ Goto(p, "unlock")
    /\ UNCHANGED <<store, seen>>

\* A mutant storeResult, whose failure ends the call at once.
storeResultOrEnd(p) ==
    /\ At(p, "publish")
    /\ \/ store' = [store EXCEPT !.result = proc[p].token] /\ Goto(p, "unlock")
       \/ End(p) /\ UNCHANGED store
    /\ UNCHANGED seen

\* storeResult, whose outcome may stay unknown.
storeResult(p) ==
    /\ At(p, "publish")
    /\ store' \in {store, [store EXCEPT !.result = proc[p].token]}
    /\ Goto(p, "unlock")
    /\ UNCHANGED seen

\* unlock: the owner's lock is released, or that fails.
unlock(p) ==
    /\ At(p, "unlock")
    /\ \/ store' = [store EXCEPT !.lock = IF @ = proc[p].token THEN 0 ELSE @] /\ UNCHANGED seen
       \/ seen' = [seen EXCEPT !.stuck = @ \cup {proc[p].token}] /\ UNCHANGED store
    /\ End(p)

\* A mutant decodeResult, which takes any envelope.
matchesAny(p) == store.result # 0

\* decodeResult: the envelope must carry the token of the owner the waiter saw.
matches(p) == proc[p].owner # 0 /\ store.result = proc[p].owner

\* readOwnerResult fills the wrapped cache with the owner's value.
Taken(p) == proc' = [proc EXCEPT ![p].pc = "idle", ![p].owner = 0, ![p].local = store.result]

\* One turn of waitForOwnerResult begins with the result of the owner it saw.
readOwnerResult(p) ==
    /\ At(p, "read")
    /\ \/ IF matches(p) THEN Taken(p) ELSE Goto(p, "owner")
       \/ End(p)
    /\ UNCHANGED <<store, seen>>

\* A mutant ownerToken, which gives up on the owner as soon as the lock is gone.
ownerGone(p) ==
    /\ At(p, "owner")
    /\ IF store.lock # 0 THEN proc' = [proc EXCEPT ![p].pc = "read", ![p].owner = store.lock] ELSE Goto(p, "lock")
    /\ UNCHANGED <<store, seen>>

\* ownerToken: who holds the lock now.  If nobody does, the result of the owner seen last is read once more.
ownerToken(p) ==
    /\ At(p, "owner")
    /\ \/ /\ store.lock # 0
          /\ proc' = [proc EXCEPT ![p].pc = "read", ![p].owner = store.lock]
       \/ /\ store.lock = 0
          /\ Goto(p, IF proc[p].owner # 0 THEN "reread" ELSE "lock")
       \/ End(p)
    /\ UNCHANGED <<store, seen>>

Reread(p) ==
    /\ At(p, "reread")
    /\ IF matches(p) THEN Taken(p) ELSE Goto(p, "lock")
    /\ UNCHANGED <<store, seen>>

ExpireLock ==
    /\ store.lock # 0
    /\ store' = [store EXCEPT !.lock = 0]
    /\ seen' = [seen EXCEPT !.lapsed = @ \cup {store.lock}]
    /\ UNCHANGED proc

ExpireResult ==
    /\ store.result # 0
    /\ store' = [store EXCEPT !.result = 0]
    /\ UNCHANGED <<proc, seen>>

NextStampede ==
    \/ ExpireLock \/ ExpireResult
    \/ \E p \in Procs :
          \/ GetOrLoadStampede(p) \/ Forget(p) \/ tryAcquire(p) \/ reconcileUnlock(p) \/ Load(p) \/ ensureOwner(p)
          \/ storeResult(p) \/ unlock(p) \/ readOwnerResult(p) \/ ownerToken(p) \/ Reread(p)

SpecStampede == InitStampede /\ [][NextStampede]_vars

-----------------------------------------------------------------------------
(* Properties *)

\* A waiter does not go on to load while the result of the owner it saw lies there, unless that
\* owner's lock had expired: an owner publishes before it unlocks, and the waiter that finds the
\* lock gone reads once more (waitForOwnerResult).
NoNeedlessLoad == \A p \in Procs : At(p, "lock") /\ proc[p].owner # 0 /\ store.result = proc[p].owner
                                      => proc[p].owner \in seen.lapsed

\* A result left over from a load that had ended before a call began never answers
\* that call (decodeResult's token check).
NoOldResult == \A p \in Procs : proc[p].local \notin seen.old[p]

\* The load lock is held by a token whose process is still in its call, or could not be released:
\* every way out of a call that took the lock releases it (loadAsOwner, reconcileUnlock).
LockNotAbandoned == store.lock # 0 /\ store.lock \notin seen.stuck => \E p \in Procs : proc[p].token = store.lock

=============================================================================

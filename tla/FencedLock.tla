----------------------------- MODULE FencedLock -----------------------------
(***************************************************************************)
(* redis/lock: an expiring lock with a fencing counter.  A client makes one *)
(* call at a time; every acquisition has a fresh owner token, the number of *)
(* its attempt.  TTLs and the clock are in milliseconds of the server.      *)
(***************************************************************************)
EXTENDS Integers

CONSTANTS Clients, MaxTTL, MaxNow, MaxTokens

ASSUME FencedAssumption == MaxTTL \in Nat /\ MaxNow \in Nat /\ MaxTokens \in Nat

\* ValidateTTL; PX 0 would be refused by the server.
ValidTTL(t) == t >= 1
TTLs == {t \in 0..MaxTTL : ValidTTL(t)}
Tokens == 1..MaxTokens

VARIABLES
  ttl, now,
  owner, expiry,   \* the owner key: its token, 0 if absent, and when it expires
  counter,         \* the counter key
  tokens,          \* tokens drawn so far
  pc, token,       \* the call of each client and the token of its attempt
  since,           \* history: when the attempt with a token was dispatched
  fence, assigned, \* the fence of the lease of a token, 0 if none; history: INCR's answer
  released         \* history: tokens a Release was called for

server == <<owner, expiry, counter>>
history == <<since, assigned, released>>
vars == <<ttl, now, server, tokens, pc, token, fence, history>>

TypeOK ==
  /\ ttl \in TTLs /\ now \in 0..MaxNow
  /\ owner \in 0..MaxTokens /\ expiry \in 0..(MaxNow + MaxTTL) /\ counter \in 0..MaxTokens
  /\ tokens \in 0..MaxTokens
  /\ pc \in [Clients -> {"idle", "acquire", "probe owner", "probe counter", "held"}]
  /\ token \in [Clients -> 0..MaxTokens]
  /\ since \in [Tokens -> 0..MaxNow]
  /\ fence \in [Tokens -> 0..MaxTokens] /\ assigned \in [Tokens -> 0..MaxTokens]
  /\ released \subseteq Tokens

Init ==
  /\ ttl \in TTLs /\ now = 0
  /\ owner = 0 /\ expiry = 0 /\ counter = 0 /\ tokens = 0
  /\ pc = [c \in Clients |-> "idle"] /\ token = [c \in Clients |-> 0]
  /\ since = [t \in Tokens |-> 0]
  /\ fence = [t \in Tokens |-> 0] /\ assigned = [t \in Tokens |-> 0] /\ released = {}

Goto(c, label) == pc' = [pc EXCEPT ![c] = label]

\* Time passes; the owner key disappears when it expires, the counter stays.
Tick ==
  /\ now < MaxNow
  /\ now' = now + 1
  /\ owner' = IF expiry <= now + 1 THEN 0 ELSE owner
  /\ UNCHANGED <<ttl, expiry, counter, tokens, pc, token, fence, history>>

\* TryAcquire up to the script; Acquire waits and starts here again.
TryAcquire(c) ==
  /\ pc[c] = "idle" /\ tokens < MaxTokens
  /\ tokens' = tokens + 1
  /\ token' = [token EXCEPT ![c] = tokens + 1]
  /\ since' = [since EXCEPT ![tokens + 1] = now]
  /\ Goto(c, "acquire")
  /\ UNCHANGED <<ttl, now, server, fence, assigned, released>>

\* acquireScript without its test.
acquireAlways(t) ==
  /\ owner' = t /\ expiry' = now + ttl /\ counter' = counter + 1
  /\ assigned' = [assigned EXCEPT ![t] = counter + 1]

\* acquireScript when the owner key is absent.
acquireScript(t) ==
  /\ owner = 0
  /\ owner' = t /\ expiry' = now + ttl /\ counter' = counter + 1
  /\ assigned' = [assigned EXCEPT ![t] = counter + 1]

newLease(c, f) ==
  /\ fence' = [fence EXCEPT ![token[c]] = f]
  /\ Goto(c, "held")

Acquired(c) ==
  /\ pc[c] = "acquire"
  /\ acquireScript(token[c])
  /\ newLease(c, counter')
  /\ UNCHANGED <<ttl, now, tokens, token, since, released>>

\* ErrNotAcquired.
Busy(c) ==
  /\ pc[c] = "acquire" /\ owner # 0
  /\ Goto(c, "idle")
  /\ UNCHANGED <<ttl, now, server, tokens, token, fence, history>>

\* The script's answer is lost; it was run or not.
AcquireLost(c) ==
  /\ pc[c] = "acquire"
  /\ acquireScript(token[c]) \/ UNCHANGED <<server, assigned>>
  /\ Goto(c, "probe owner")
  /\ UNCHANGED <<ttl, now, tokens, token, fence, since, released>>

\* reconcileAcquire compares the owner; without a match, or when the probe
\* fails, TryAcquire fails with ErrCommitUnknown.
ProbeOwner(c) ==
  /\ pc[c] = "probe owner"
  /\ \/ owner = token[c] /\ Goto(c, "probe counter")
     \/ Goto(c, "idle")
  /\ UNCHANGED <<ttl, now, server, tokens, token, fence, history>>

\* The counter it then reads becomes the fence of the lease.
ProbeCounter(c) ==
  /\ pc[c] = "probe counter"
  /\ \/ counter > 0 /\ newLease(c, counter)
     \/ Goto(c, "idle") /\ UNCHANGED fence
  /\ UNCHANGED <<ttl, now, server, tokens, token, history>>

\* Release deletes whatever owner there is.
compareDeleteAny(t) == owner' = 0

\* compareDeleteScript
compareDelete(t) == owner' = IF owner = t THEN 0 ELSE owner

\* Release; when its answer is lost the script was run or not.
Release(c) ==
  /\ pc[c] = "held"
  /\ compareDelete(token[c]) \/ UNCHANGED owner
  /\ released' = released \cup {token[c]}
  /\ Goto(c, "idle")
  /\ UNCHANGED <<ttl, now, expiry, counter, tokens, token, fence, since, assigned>>

\* The caller drops the lease and leaves the key to its expiry.
Abandon(c) ==
  /\ pc[c] = "held"
  /\ Goto(c, "idle")
  /\ UNCHANGED <<ttl, now, server, tokens, token, fence, history>>

Step(c) ==
  \/ TryAcquire(c) \/ Acquired(c) \/ Busy(c) \/ AcquireLost(c)
  \/ ProbeOwner(c) \/ ProbeCounter(c) \/ Release(c) \/ Abandon(c)

Next == Tick \/ \E c \in Clients : Step(c)

Spec == Init /\ [][Next]_vars

-----------------------------------------------------------------------------

\* A lease is live until its TTL has passed since the call that acquired it
\* was made, unless it is released.
Live(t) == fence[t] # 0 /\ t \notin released /\ now < since[t] + ttl

\* A live lease, also one a lost answer was reconciled for, is the owner in
\* Redis: no other acquisition, expiry or release of an old lease takes it.
\* Two live leases would both be the owner, so there is never more than one.
LeaseHoldsLock == \A t \in Tokens : Live(t) => owner = t

\* The fence of a live lease is the greatest handed out: a resource that has
\* seen it refuses every older one.
LiveFenceGreatest ==
  \A t \in Tokens : Live(t) => \A u \in Tokens : fence[u] <= fence[t]

Cell == INSTANCE LeaseCell WITH
  Owners <- Tokens, clock <- now, expiresAt <- IF owner = 0 THEN 0 ELSE expiry

\* Whatever answers are lost, the owner key behaves like the lock of the
\* conformance suite: it changes hands only when it is free or expired, and
\* only the owner's token releases it.
ImplementsCell == Cell!Spec

\* The comment of FencingToken: it is the token assigned at acquire.
FenceAsAssigned == \A t \in Tokens : fence[t] \in {0, assigned[t]}

=============================================================================

--------------------------- MODULE RedisSemaphore ---------------------------
(***************************************************************************)
(* redis/semaphore: permits are members of a sorted set, scored with their  *)
(* expiry.  Every attempt has a fresh owner token, its number.              *)
(***************************************************************************)
EXTENDS Integers, FiniteSets

CONSTANTS Clients, MaxPermits, MaxTTL, MaxNow, MaxTokens

Tokens == 1..MaxTokens

\* Options without the check of the permits.
OptionsUnchecked == {o \in [permits : 0..(MaxPermits + 1), ttl : 0..MaxTTL] : o.ttl >= 1}

\* Options.normalize
Options == {o \in [permits : 0..MaxPermits, ttl : 0..MaxTTL] : o.permits > 0 /\ o.ttl >= 1}

VARIABLES
  opts, clock,
  leases,     \* the score of each token, 0 if it is no member
  attempts,
  call,       \* per client: where it is and its token
  acquired    \* history: per token, when its attempt was made, once the caller has the lease

vars == <<opts, clock, leases, attempts, call, acquired>>

Never == -1

TypeOK ==
  /\ opts.permits \in 1..MaxPermits /\ opts.ttl \in 1..MaxTTL /\ clock \in 1..MaxNow /\ attempts \in 0..MaxTokens
  /\ leases \in [Tokens -> 0..(MaxNow + MaxTTL)]
  /\ call \in [Clients -> [pc : {"idle", "acquire", "held"}, token : 0..MaxTokens, at : 0..MaxNow]]
  /\ acquired \in [Tokens -> Never..MaxNow]

Init ==
  /\ opts \in Options /\ clock = 1 /\ attempts = 0
  /\ leases = [t \in Tokens |-> 0]
  /\ call = [c \in Clients |-> [pc |-> "idle", token |-> 0, at |-> 0]]
  /\ acquired = [t \in Tokens |-> Never]

Tick ==
  /\ clock < MaxNow
  /\ clock' = clock + 1
  /\ UNCHANGED <<opts, leases, attempts, call, acquired>>

\* Acquire makes another attempt after ErrNotAcquired.
TryAcquire(c) ==
  /\ call[c].pc = "idle" /\ attempts < MaxTokens
  /\ attempts' = attempts + 1
  /\ call' = [call EXCEPT ![c] = [pc |-> "acquire", token |-> attempts + 1, at |-> clock]]
  /\ UNCHANGED <<opts, clock, leases, acquired>>

\* ZREMRANGEBYSCORE, which removes the scores up to clock
Pruned == [t \in Tokens |-> IF leases[t] > clock THEN leases[t] ELSE 0]
Members == {t \in Tokens : Pruned[t] # 0}

\* ZCARD compared with > instead of >=.
RoomForOneMore == Cardinality(Members) <= opts.permits

Room == Cardinality(Members) < opts.permits

acquireScript(t) == leases' = IF Room THEN [Pruned EXCEPT ![t] = clock + opts.ttl] ELSE Pruned

Acquired(c) ==
  /\ call[c].pc = "acquire"
  /\ acquireScript(call[c].token)
  /\ call' = [call EXCEPT ![c].pc = IF Room THEN "held" ELSE "idle"]
  /\ acquired' = IF Room THEN [acquired EXCEPT ![call[c].token] = call[c].at] ELSE acquired
  /\ UNCHANGED <<opts, clock, attempts>>

\* The answer is lost: ErrCommitUnknown, and no lease.
AcquireLost(c) ==
  /\ call[c].pc = "acquire"
  /\ acquireScript(call[c].token) \/ UNCHANGED leases
  /\ call' = [call EXCEPT ![c].pc = "idle"]
  /\ UNCHANGED <<opts, clock, attempts, acquired>>

\* releaseScript pops the first permit to expire.
releaseFirst(t) ==
  leases' = [u \in Tokens |-> IF u \in Members /\ \A w \in Members : leases[u] <= leases[w] THEN 0 ELSE leases[u]]

releaseScript(t) == leases' = [leases EXCEPT ![t] = 0]

\* Release, whose answer may be lost, and which may be called twice.
Release(c) ==
  /\ call[c].pc = "held"
  /\ releaseScript(call[c].token) \/ UNCHANGED leases
  /\ acquired' = [acquired EXCEPT ![call[c].token] = Never]
  /\ call' = [call EXCEPT ![c].pc = "idle"] \/ UNCHANGED call
  /\ UNCHANGED <<opts, clock, attempts>>

Next == Tick \/ \E c \in Clients : TryAcquire(c) \/ Acquired(c) \/ AcquireLost(c) \/ Release(c)

Spec == Init /\ [][Next]_vars

-----------------------------------------------------------------------------

Live == {t \in Tokens : acquired[t] # Never /\ clock < acquired[t] + opts.ttl}

\* A lease that its caller has, and whose TTL has not passed since the call,
\* is a member: neither another client's late or repeated Release nor an
\* acquisition takes it.  Lost acquisitions count as well, so the permits
\* callers and lost calls hold together never exceed opts.permits.
PermitsBounded == Live \subseteq Members /\ Cardinality(Members) <= opts.permits

=============================================================================

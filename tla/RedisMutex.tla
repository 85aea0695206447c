----------------------------- MODULE RedisMutex -----------------------------
(***************************************************************************)
(* lock/redis: SET NX PX with an owner token and a compare-and-delete.      *)
(* Options.Token may give all acquisitions of a mutex the same token.       *)
(***************************************************************************)
EXTENDS Integers

CONSTANTS Clients, MaxTTL, MaxNow, MaxTokens

\* Options.normalize
Options == {o \in [ttl : 0..MaxTTL, fixed : BOOLEAN] : o.ttl > 0}

VARIABLES
  opts, clock,
  key,       \* the token in Redis and the attempt that put it there, and its expiry
  attempts,  \* attempts so far; without a fixed token also the token
  call       \* per client: where it is, its attempt, and what the last call reported

vars == <<opts, clock, key, attempts, call>>

NoKey == [token |-> 0, attempt |-> 0, expiry |-> 0]
Token(n) == IF opts.fixed THEN 1 ELSE n

TypeOK ==
  /\ opts \in Options /\ clock \in 0..MaxNow /\ attempts \in 0..MaxTokens
  /\ key \in [token : 0..MaxTokens, attempt : 0..MaxTokens, expiry : 0..(MaxNow + MaxTTL)]
  /\ call \in [Clients -> [pc : {"idle", "set", "probe", "held", "unlock probe"}, attempt : 0..MaxTokens,
                           report : {"ok", "busy", "failed", "unknown", "not sent"}]]

Init ==
  /\ opts \in Options /\ clock = 0 /\ key = NoKey /\ attempts = 0
  /\ call = [c \in Clients |-> [pc |-> "idle", attempt |-> 0, report |-> "ok"]]

Tick ==
  /\ clock < MaxNow
  /\ clock' = clock + 1
  /\ key' = IF key.expiry <= clock + 1 THEN NoKey ELSE key
  /\ UNCHANGED <<opts, attempts, call>>

Becomes(c, pc, report) == call' = [call EXCEPT ![c].pc = pc, ![c].report = report]

TryLock(c) ==
  /\ call[c].pc = "idle" /\ attempts < MaxTokens
  /\ attempts' = attempts + 1
  /\ call' = [call EXCEPT ![c] = [pc |-> "set", attempt |-> attempts + 1, report |-> "ok"]]
  /\ UNCHANGED <<opts, clock, key>>

\* SET without NX.
SetAlways(n) == key' = [token |-> Token(n), attempt |-> n, expiry |-> clock + opts.ttl]

\* SETNX
Set(n) == key' = IF key = NoKey THEN [token |-> Token(n), attempt |-> n, expiry |-> clock + opts.ttl] ELSE key

SetAnswered(c) ==
  /\ call[c].pc = "set"
  /\ Set(call[c].attempt)
  /\ IF key = NoKey THEN Becomes(c, "held", "ok") ELSE Becomes(c, "idle", "busy")
  /\ UNCHANGED <<opts, clock, attempts>>

SetLost(c) ==
  /\ call[c].pc = "set"
  /\ Set(call[c].attempt) \/ UNCHANGED key
  /\ Becomes(c, "probe", "ok")
  /\ UNCHANGED <<opts, clock, attempts>>

Owns(c) == key.token # 0 /\ key.token = Token(call[c].attempt)

\* An owner that could not be read counts as a failure.
ReconcileAsFailed(c) ==
  /\ call[c].pc = "probe"
  /\ \/ Owns(c) /\ Becomes(c, "held", "ok")
     \/ Becomes(c, "idle", "failed")
  /\ UNCHANGED <<opts, clock, key, attempts>>

\* reconcileOwner after a lost SETNX: a probe that fails returns the lease
\* together with ErrCommitUnknown.
Reconcile(c) ==
  /\ call[c].pc = "probe"
  /\ \/ Owns(c) /\ Becomes(c, "held", "ok")
     \/ ~Owns(c) /\ Becomes(c, "idle", "failed")
     \/ Becomes(c, "held", "unknown")
  /\ UNCHANGED <<opts, clock, key, attempts>>

\* A delete that does not compare tokens.
DeleteAny(c) == key' = NoKey

\* unlockScript and compareDeleteScript
CompareDelete(c) == key' = IF Owns(c) THEN NoKey ELSE key

Unlock(c) ==
  /\ call[c].pc = "held"
  /\ CompareDelete(c)
  /\ Becomes(c, "idle", "ok")
  /\ UNCHANGED <<opts, clock, attempts>>

\* The answer is lost: ErrCommitUnknown, or the context has ended and
\* preDispatchCancellation looks whether the key is still there.
UnlockLost(c) ==
  /\ call[c].pc = "held"
  /\ CompareDelete(c) \/ UNCHANGED key
  /\ Becomes(c, "idle", "unknown") \/ Becomes(c, "unlock probe", "ok")
  /\ UNCHANGED <<opts, clock, attempts>>

\* Every cancelled Unlock is taken for one that was not sent.
preDispatchAlways(c) ==
  /\ call[c].pc = "unlock probe"
  /\ Becomes(c, "held", "not sent")
  /\ UNCHANGED <<opts, clock, key, attempts>>

preDispatchCancellation(c) ==
  /\ call[c].pc = "unlock probe"
  /\ \/ Owns(c) /\ Becomes(c, "held", "not sent")
     \/ Becomes(c, "idle", "unknown")
  /\ UNCHANGED <<opts, clock, key, attempts>>

Step(c) ==
  \/ TryLock(c) \/ SetAnswered(c) \/ SetLost(c) \/ Reconcile(c)
  \/ Unlock(c) \/ UnlockLost(c) \/ preDispatchCancellation(c)

Next == Tick \/ \E c \in Clients : Step(c)

Spec == Init /\ [][Next]_vars

-----------------------------------------------------------------------------

\* With random tokens an Unlock, however late, deletes the key of its own
\* acquisition or nothing.
OthersKept ==
  \A c \in Clients :
    call[c].pc = "held" /\ call'[c].pc # "held" /\ key'.attempt # key.attempt /\ ~opts.fixed =>
      key.attempt = call[c].attempt

Cell == INSTANCE LeaseCell WITH
  Owners <- 1..MaxTokens, ttl <- opts.ttl, owner <- key.token, expiresAt <- key.expiry

\* Whatever answers are lost, every step of the key is a step of the lock of
\* the conformance suite.
CellStep == Cell!Next \/ UNCHANGED Cell!vars

\* Unless the outcome was reported as ambiguous or the caller has the lease,
\* no key of a finished attempt is left behind in Redis.
AmbiguityReported ==
  \A c \in Clients :
    call[c].pc = "idle" /\ call[c].report # "unknown" => key.attempt = 0 \/ key.attempt # call[c].attempt

=============================================================================

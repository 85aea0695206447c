------------------------------ MODULE LeaseCell ------------------------------
(***************************************************************************)
(* What an expiring lock promises, after the in-memory lock the conformance *)
(* suite lock/locktest measures the others with: one record per key, taken  *)
(* only while there is none or it has expired, and given up by its owner.   *)
(***************************************************************************)
EXTENDS Integers

CONSTANT Owners

VARIABLES clock, ttl, owner, expiresAt

vars == <<clock, ttl, owner, expiresAt>>

Init == owner = 0 /\ expiresAt = 0

Expired(t) == expiresAt <= t

\* acquireFunc
Acquire(o) ==
  /\ owner = 0 \/ Expired(clock)
  /\ owner' = o /\ expiresAt' = clock + ttl
  /\ UNCHANGED <<clock, ttl>>

\* releaseFunc
Release(o) ==
  /\ owner = o /\ ~Expired(clock)
  /\ owner' = 0 /\ expiresAt' = 0
  /\ UNCHANGED <<clock, ttl>>

\* Time passes; Owner removes a record that has expired.
Tick ==
  /\ clock' = clock + 1
  /\ \/ UNCHANGED <<owner, expiresAt>>
     \/ Expired(clock + 1) /\ owner' = 0 /\ expiresAt' = 0
  /\ UNCHANGED ttl

Next == Tick \/ \E o \in Owners : Acquire(o) \/ Release(o)

Spec == Init /\ [][Next]_vars

=============================================================================

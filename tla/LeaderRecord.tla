----------------------------- MODULE LeaderRecord -----------------------------
(***************************************************************************)
(* What a lease record shared by electors promises, after the backend of    *)
(* the conformance suite leader/leadertest.  A client may read a clock that *)
(* is late, or ahead of the record's by up to Skew.                         *)
(***************************************************************************)
EXTENDS Integers

CONSTANTS Owners, NoOwner, Lease, Skew

VARIABLES now, owner, leaseUntil

vars == <<now, owner, leaseUntil>>

Init == owner = NoOwner /\ leaseUntil = 0

Readings == 0..(now + Skew)

\* memoryBackend.campaign
campaign(o, t) ==
  /\ owner \in {NoOwner, o} \/ leaseUntil <= t
  /\ owner' = o /\ leaseUntil' = t + Lease
  /\ UNCHANGED now

\* memoryBackend.renew
renew(o, t) ==
  /\ owner = o /\ leaseUntil > t
  /\ leaseUntil' = t + Lease
  /\ UNCHANGED <<now, owner>>

\* memoryBackend.resign
resign(o) ==
  /\ owner = o
  /\ owner' = NoOwner /\ leaseUntil' = 0
  /\ UNCHANGED now

\* Time passes; Owner removes a record that has expired.
Tick == now' = now + 1 /\ UNCHANGED <<owner, leaseUntil>>
Owner == leaseUntil <= now /\ owner' = NoOwner /\ leaseUntil' = 0 /\ UNCHANGED now

Next == Tick \/ Owner \/ \E o \in Owners : resign(o) \/ \E t \in Readings : campaign(o, t) \/ renew(o, t)

Spec == Init /\ [][Next]_vars

=============================================================================

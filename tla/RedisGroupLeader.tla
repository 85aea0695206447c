--------------------------- MODULE RedisGroupLeader ---------------------------
(***************************************************************************)
(* leader/redis, GroupElector: at most MaxLeaders electors hold a slot, a  *)
(* member of a sorted set whose score is the slot's expiry.  Each elector  *)
(* is used by one goroutine, which makes one call at a time.  ZsetTTL is   *)
(* left out: PEXPIRE keeps the set five seconds longer than any member.    *)
(***************************************************************************)
EXTENDS Integers, FiniteSets

CONSTANTS
  Electors,
  MaxLeaders, Lease,   \* opts.MaxLeaders, and opts.Lease in clock units
  MaxNow,              \* bound of the clock
  MaxLoops             \* bound of the acquisitions of each elector

Loops == UNION {1..MaxLoops[e] : e \in Electors}

VARIABLES
  now, slots,      \* the clock of the server; the score of each member, 0 if absent
  owned, active,
  handle,          \* e.cancel and e.done: the loop they belong to, 0 for nil
  started,         \* the loops started so far
  loop, cancelled,
  pc, joined,      \* where the elector's caller is; the local done of Resign
  granted,         \* history: the expiry of the last slot the elector was told of
  gaveUp           \* history: the electors a Resign of which gave up waiting

elector == <<owned, active, handle>>
vars == <<now, slots, elector, started, loop, cancelled, pc, joined, granted, gaveUp>>

TypeOK ==
  /\ now \in 0..MaxNow
  /\ slots \in [Electors -> 0..(MaxNow + Lease)]
  /\ owned \in [Electors -> BOOLEAN] /\ active \in [Electors -> BOOLEAN]
  /\ handle \in [Electors -> Loops \cup {0}] /\ started \in [Electors -> Loops \cup {0}]
  /\ loop \in [Electors -> [Loops -> {"none", "waiting", "renewing", "failed", "done"}]]
  /\ cancelled \in [Electors -> SUBSET Loops]
  /\ pc \in [Electors -> {"idle", "acquire", "poll", "won", "ending", "join", "release"}]
  /\ joined \in [Electors -> Loops \cup {0}]
  /\ granted \in [Electors -> 0..(MaxNow + Lease)] /\ gaveUp \subseteq Electors

Init ==
  /\ now = 0
  /\ slots = [e \in Electors |-> 0]
  /\ owned = [e \in Electors |-> FALSE] /\ active = [e \in Electors |-> FALSE]
  /\ handle = [e \in Electors |-> 0] /\ started = [e \in Electors |-> 0]
  /\ loop = [e \in Electors |-> [l \in Loops |-> "none"]]
  /\ cancelled = [e \in Electors |-> {}]
  /\ pc = [e \in Electors |-> "idle"] /\ joined = [e \in Electors |-> 0]
  /\ granted = [e \in Electors |-> 0] /\ gaveUp = {}

\* Time passes at the server.
Tick ==
  /\ now < MaxNow
  /\ now' = now + 1
  /\ UNCHANGED <<slots, elector, started, loop, cancelled, pc, joined, granted, gaveUp>>

-----------------------------------------------------------------------------
(* The scripts. *)

\* ZREMRANGEBYSCORE key 0 now
Pruned == [e \in Electors |-> IF slots[e] > now THEN slots[e] ELSE 0]
Active == {e \in Electors : Pruned[e] # 0}

\* ZCARD compared with <= instead of <.
RoomForOneMore == Cardinality(Active) <= MaxLeaders

\* The test of groupAcquireScript; a member that is still there counts too.
Room == Cardinality(Active) < MaxLeaders

Extended(e) == [Pruned EXCEPT ![e] = now + Lease]

Goto(e, label) == pc' = [pc EXCEPT ![e] = label]
Confirm(e) == granted' = [granted EXCEPT ![e] = now + Lease]

-----------------------------------------------------------------------------
(* Campaign of elector e. *)

Campaign(e) ==
  /\ pc[e] = "idle"
  /\ ~owned[e] /\ ~active[e]
  /\ started[e] < MaxLoops[e]
  /\ active' = [active EXCEPT ![e] = TRUE]
  /\ Goto(e, "acquire")
  /\ UNCHANGED <<now, slots, owned, handle, started, loop, cancelled, joined, granted, gaveUp>>

\* groupAcquireScript answers.
acquire(e) ==
  /\ pc[e] = "acquire"
  /\ IF Room
     THEN slots' = Extended(e) /\ Confirm(e) /\ Goto(e, "won")
     ELSE slots' = Pruned /\ Goto(e, "poll") /\ UNCHANGED granted
  /\ UNCHANGED <<now, elector, started, loop, cancelled, joined, gaveUp>>

\* groupAcquireScript fails, applied or not.
acquireUnknown(e) ==
  /\ pc[e] = "acquire"
  /\ slots' \in {slots, IF Room THEN Extended(e) ELSE Pruned}
  /\ Goto(e, "ending")
  /\ UNCHANGED <<now, elector, started, loop, cancelled, joined, granted, gaveUp>>

\* The next poll, or the context ended.
Poll(e) ==
  /\ pc[e] = "poll"
  /\ Goto(e, "acquire") \/ Goto(e, "ending")
  /\ UNCHANGED <<now, slots, elector, started, loop, cancelled, joined, granted, gaveUp>>

\* The winner's section, without the return that follows it.
WonThenPoll(e) ==
  LET l == started[e] + 1
  IN /\ pc[e] = "won"
     /\ owned' = [owned EXCEPT ![e] = TRUE]
     /\ active' = [active EXCEPT ![e] = FALSE]
     /\ handle' = [handle EXCEPT ![e] = l]
     /\ started' = [started EXCEPT ![e] = l]
     /\ loop' = [loop EXCEPT ![e][l] = "waiting"]
     /\ Goto(e, "poll")
     /\ UNCHANGED <<now, slots, cancelled, joined, granted, gaveUp>>

\* The winner's section, and its loop is started.
Won(e) ==
  LET l == started[e] + 1
  IN /\ pc[e] = "won"
     /\ owned' = [owned EXCEPT ![e] = TRUE]
     /\ active' = [active EXCEPT ![e] = FALSE]
     /\ handle' = [handle EXCEPT ![e] = l]
     /\ started' = [started EXCEPT ![e] = l]
     /\ loop' = [loop EXCEPT ![e][l] = "waiting"]
     /\ Goto(e, "ending")
     /\ UNCHANGED <<now, slots, cancelled, joined, granted, gaveUp>>

\* The deferred clearCampaigning, and Campaign returns.
clearCampaigning(e) ==
  /\ pc[e] = "ending"
  /\ active' = [active EXCEPT ![e] = @ /\ owned[e]]
  /\ Goto(e, "idle")
  /\ UNCHANGED <<now, slots, owned, handle, started, loop, cancelled, joined, granted, gaveUp>>

-----------------------------------------------------------------------------
(* renewLoop l of elector e. *)

SetLoop(e, l, state) == loop' = [loop EXCEPT ![e][l] = state]

\* The cancelled loop returns; a tick that is ready as well may come first,
\* and its renewal fails undispatched.
LoopStop(e, l) ==
  /\ loop[e][l] = "waiting" /\ l \in cancelled[e]
  /\ SetLoop(e, l, "done") \/ SetLoop(e, l, "failed")
  /\ UNCHANGED <<now, slots, elector, started, cancelled, pc, joined, granted, gaveUp>>

RenewTick(e, l) ==
  /\ loop[e][l] = "waiting" /\ l \notin cancelled[e]
  /\ SetLoop(e, l, "renewing")
  /\ UNCHANGED <<now, slots, elector, started, cancelled, pc, joined, granted, gaveUp>>

\* groupRenewScript answers.
renew(e, l) ==
  /\ loop[e][l] = "renewing"
  /\ IF e \in Active
     THEN slots' = Extended(e) /\ Confirm(e) /\ SetLoop(e, l, "waiting")
     ELSE slots' = Pruned /\ SetLoop(e, l, "failed") /\ UNCHANGED granted
  /\ UNCHANGED <<now, elector, started, cancelled, pc, joined, gaveUp>>

\* groupRenewScript fails or times out, applied or not.
renewUnknown(e, l) ==
  /\ loop[e][l] = "renewing"
  /\ slots' \in {slots, IF e \in Active THEN Extended(e) ELSE Pruned}
  /\ SetLoop(e, l, "failed")
  /\ UNCHANGED <<now, elector, started, cancelled, pc, joined, granted, gaveUp>>

\* A lost slot that the elector does not notice.
clearNothing(e, l) ==
  /\ loop[e][l] = "failed"
  /\ SetLoop(e, l, "done")
  /\ UNCHANGED <<now, slots, elector, started, cancelled, pc, joined, granted, gaveUp>>

\* The section after a failed renewal, whichever acquisition is current.
renewFailed(e, l) ==
  /\ loop[e][l] = "failed"
  /\ owned' = [owned EXCEPT ![e] = FALSE]
  /\ active' = [active EXCEPT ![e] = FALSE]
  /\ handle' = [handle EXCEPT ![e] = 0]
  /\ SetLoop(e, l, "done")
  /\ UNCHANGED <<now, slots, started, cancelled, pc, joined, granted, gaveUp>>

-----------------------------------------------------------------------------
(* Resign of elector e. *)

\* The first section of Resign and the cancellation; without a slot it
\* returns at once.
Resign(e) ==
  /\ pc[e] = "idle"
  /\ owned[e]
  /\ owned' = [owned EXCEPT ![e] = FALSE]
  /\ active' = [active EXCEPT ![e] = FALSE]
  /\ handle' = [handle EXCEPT ![e] = 0]
  /\ cancelled' = [cancelled EXCEPT ![e] = @ \cup ({handle[e]} \cap Loops)]
  /\ joined' = [joined EXCEPT ![e] = handle[e]]
  /\ Goto(e, "join")
  /\ UNCHANGED <<now, slots, started, loop, granted, gaveUp>>

Join(e) ==
  /\ pc[e] = "join"
  /\ joined[e] # 0 => loop[e][joined[e]] = "done"
  /\ Goto(e, "release")
  /\ UNCHANGED <<now, slots, elector, started, loop, cancelled, joined, granted, gaveUp>>

\* Resign's context ends during the wait.
JoinTimeout(e) ==
  /\ pc[e] = "join" /\ joined[e] # 0
  /\ Goto(e, "idle") /\ joined' = [joined EXCEPT ![e] = 0]
  /\ gaveUp' = gaveUp \cup {e}
  /\ UNCHANGED <<now, slots, elector, started, loop, cancelled, granted>>

\* The release removes the slot that expires first instead of the elector's own.
releaseOther(e) ==
  /\ pc[e] = "release"
  /\ slots' \in {slots} \cup {[slots EXCEPT ![o] = 0] : o \in {f \in Active : \A g \in Active : slots[f] <= slots[g]}}
  /\ Goto(e, "idle") /\ joined' = [joined EXCEPT ![e] = 0]
  /\ UNCHANGED <<now, elector, started, loop, cancelled, granted, gaveUp>>

\* groupReleaseScript answers, or fails applied or not; Resign returns.
release(e) ==
  /\ pc[e] = "release"
  /\ slots' \in {slots, [slots EXCEPT ![e] = 0]}
  /\ Goto(e, "idle") /\ joined' = [joined EXCEPT ![e] = 0]
  /\ UNCHANGED <<now, elector, started, loop, cancelled, granted, gaveUp>>

-----------------------------------------------------------------------------

Call(e) ==
  \/ Campaign(e) \/ acquire(e) \/ acquireUnknown(e) \/ Poll(e) \/ Won(e) \/ clearCampaigning(e)
  \/ Resign(e) \/ Join(e) \/ JoinTimeout(e) \/ release(e)

renewLoop(e, l) ==
  LoopStop(e, l) \/ RenewTick(e, l) \/ renew(e, l) \/ renewUnknown(e, l) \/ renewFailed(e, l)

Next ==
  \/ Tick
  \/ \E e \in Electors : Call(e) \/ \E l \in Loops : renewLoop(e, l)

Spec == Init /\ [][Next]_vars

-----------------------------------------------------------------------------

\* However acquisitions, renewals, expiries and releases interleave, and
\* whichever of them fails after it was applied, the set never holds more
\* than MaxLeaders unexpired slots.
SlotsBounded == Cardinality(Active) <= MaxLeaders

\* While the slot an elector was last told of runs and IsLeader is true, the
\* set holds it at least as long; with SlotsBounded, at most MaxLeaders
\* electors lead.
LeaderHoldsSlot ==
  \A e \in Electors : owned[e] /\ now < granted[e] => slots[e] >= granted[e]

\* A slot is renewed until resign, renewal loss or backend failure: the loops
\* that may still renew belong to an elector that owns the slot, or they are
\* cancelled; and the one of an owner runs.
Renewed(e) ==
  /\ \A l \in Loops : loop[e][l] \in {"waiting", "renewing"} /\ l \notin cancelled[e] =>
       owned[e] /\ handle[e] = l
  /\ owned[e] => loop[e][handle[e]] \in {"waiting", "renewing", "failed"}

RenewedIffOwned == \A e \in Electors : Renewed(e)

\* That holds for an elector whose Resign calls all waited for the loop.
RenewedIffJoined == \A e \in Electors \ gaveUp : Renewed(e)

=============================================================================

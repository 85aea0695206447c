----------------------------- MODULE RedisLeader -----------------------------
(***************************************************************************)
(* leader/redis, Elector: electors that compete for one key with SET NX    *)
(* and a TTL, renew it in a loop of their own and release it by comparing  *)
(* their token.  Each elector is used by the goroutines that Uses maps to  *)
(* it, each of which makes one call at a time.  Commands are atomic at the *)
(* server and may fail after they were applied.                            *)
(***************************************************************************)
EXTENDS Integers

CONSTANTS
  Electors, Callers,
  Uses,           \* the elector each caller uses
  NoOwner,        \* the value of a key that does not exist
  Lease,          \* opts.Lease in clock units
  MaxNow,         \* bound of the clock
  MaxGeneration   \* bound of the acquisitions of one elector

Generations == 1..MaxGeneration

VARIABLES
  now, key,       \* the clock of the server; the key's value and expiry
  owned, campaigning, cleanup, generation,
  handle,         \* e.done and e.cancel: the generation they belong to, 0 for nil
  loop, cancelled,           \* the renewal loop of each generation
  pc,                        \* where the call of each caller is
  callGeneration, callDone,  \* the locals generation and done of Resign
  granted         \* history: the expiry of the last lease the elector was told of

elector == <<owned, campaigning, cleanup, generation, handle>>
locals == <<callGeneration, callDone>>
vars == <<now, key, elector, loop, cancelled, pc, locals, granted>>

Campaigning == {"acquire", "reconcile", "backoff", "won", "ending"}
Resigning == {"join", "release", "finish"}

TypeOK ==
  /\ now \in 0..MaxNow
  /\ key \in [owner : Electors \cup {NoOwner}, until : Nat]
  /\ owned \in [Electors -> BOOLEAN] /\ campaigning \in [Electors -> BOOLEAN]
  /\ cleanup \in [Electors -> BOOLEAN]
  /\ generation \in [Electors -> 0..MaxGeneration]
  /\ handle \in [Electors -> 0..MaxGeneration]
  /\ loop \in [Electors -> [Generations -> {"none", "waiting", "renewing", "lost", "unknown", "done"}]]
  /\ cancelled \in [Electors -> SUBSET Generations]
  /\ pc \in [Callers -> {"idle"} \cup Campaigning \cup Resigning]
  /\ callGeneration \in [Callers -> 0..MaxGeneration]
  /\ callDone \in [Callers -> 0..MaxGeneration]
  /\ granted \in [Electors -> Nat]

Init ==
  /\ now = 0
  /\ key = [owner |-> NoOwner, until |-> 0]
  /\ owned = [e \in Electors |-> FALSE] /\ campaigning = [e \in Electors |-> FALSE]
  /\ cleanup = [e \in Electors |-> FALSE]
  /\ generation = [e \in Electors |-> 0] /\ handle = [e \in Electors |-> 0]
  /\ loop = [e \in Electors |-> [g \in Generations |-> "none"]]
  /\ cancelled = [e \in Electors |-> {}]
  /\ pc = [c \in Callers |-> "idle"]
  /\ callGeneration = [c \in Callers |-> 0] /\ callDone = [c \in Callers |-> 0]
  /\ granted = [e \in Electors |-> 0]

\* Time passes at the server.
Tick ==
  /\ now < MaxNow
  /\ now' = now + 1
  /\ UNCHANGED <<key, elector, loop, cancelled, pc, locals, granted>>

-----------------------------------------------------------------------------
(* The commands. *)

Exists == key.owner # NoOwner /\ key.until > now
Leased(e) == [owner |-> e, until |-> now + Lease]

\* SET without NX.
SetNXAlways == TRUE

\* SetNX would set the key.
SetNX == ~Exists

\* renewScript and releaseScript find the token of e.
Holds(e) == Exists /\ key.owner = e

-----------------------------------------------------------------------------
(* Campaign by caller c. *)

Goto(c, label) == pc' = [pc EXCEPT ![c] = label]

\* beginCampaign; the other cases only return a sentinel error.
beginCampaign(c) ==
  LET e == Uses[c]
  IN /\ pc[c] = "idle"
     /\ ~cleanup[e] /\ ~owned[e] /\ ~campaigning[e]
     /\ generation[e] < MaxGeneration
     /\ campaigning' = [campaigning EXCEPT ![e] = TRUE]
     /\ Goto(c, "acquire")
     /\ UNCHANGED <<now, key, owned, cleanup, generation, handle, loop, cancelled, locals, granted>>

\* SetNX answers.
Acquire(c) ==
  LET e == Uses[c]
  IN /\ pc[c] = "acquire"
     /\ IF SetNX
        THEN /\ key' = Leased(e)
             /\ granted' = [granted EXCEPT ![e] = now + Lease]
             /\ Goto(c, "won")
        ELSE Goto(c, "backoff") /\ UNCHANGED <<key, granted>>
     /\ UNCHANGED <<now, elector, loop, cancelled, locals>>

\* SetNX fails, applied or not.
AcquireUnknown(c) ==
  /\ pc[c] = "acquire"
  /\ key' \in {key} \cup IF SetNX THEN {Leased(Uses[c])} ELSE {}
  /\ Goto(c, "reconcile")
  /\ UNCHANGED <<now, elector, loop, cancelled, locals, granted>>

\* reconcileCampaign answers: the token is there, or the campaign fails.
reconcileCampaign(c) ==
  LET e == Uses[c]
  IN /\ pc[c] = "reconcile"
     /\ IF Holds(e)
        THEN Goto(c, "won") /\ granted' = [granted EXCEPT ![e] = key.until]
        ELSE Goto(c, "ending") /\ UNCHANGED granted
     /\ UNCHANGED <<now, key, elector, loop, cancelled, locals>>

\* The probe fails as well: ErrCommitUnknown.
ProbeFails(c) ==
  /\ pc[c] = "reconcile"
  /\ cleanup' = [cleanup EXCEPT ![Uses[c]] = TRUE]
  /\ Goto(c, "ending")
  /\ UNCHANGED <<now, key, owned, campaigning, generation, handle, loop, cancelled, locals, granted>>

\* sleepContext returns: the next attempt, or the caller's context ended.
sleepContext(c) ==
  /\ pc[c] = "backoff"
  /\ Goto(c, "acquire") \/ Goto(c, "ending")
  /\ UNCHANGED <<now, key, elector, loop, cancelled, locals, granted>>

\* startRenewal without the return that follows it.
startRenewalThenRetry(c) ==
  LET e == Uses[c]
      g == generation[e] + 1
  IN /\ pc[c] = "won"
     /\ generation' = [generation EXCEPT ![e] = g]
     /\ owned' = [owned EXCEPT ![e] = TRUE]
     /\ cleanup' = [cleanup EXCEPT ![e] = FALSE]
     /\ handle' = [handle EXCEPT ![e] = g]
     /\ loop' = [loop EXCEPT ![e][g] = "waiting"]
     /\ Goto(c, "acquire")
     /\ UNCHANGED <<now, key, campaigning, cancelled, locals, granted>>

\* startRenewal, and Campaign returns.
startRenewal(c) ==
  LET e == Uses[c]
      g == generation[e] + 1
  IN /\ pc[c] = "won"
     /\ generation' = [generation EXCEPT ![e] = g]
     /\ owned' = [owned EXCEPT ![e] = TRUE]
     /\ cleanup' = [cleanup EXCEPT ![e] = FALSE]
     /\ handle' = [handle EXCEPT ![e] = g]
     /\ loop' = [loop EXCEPT ![e][g] = "waiting"]
     /\ Goto(c, "ending")
     /\ UNCHANGED <<now, key, campaigning, cancelled, locals, granted>>

endCampaign(c) ==
  /\ pc[c] = "ending"
  /\ campaigning' = [campaigning EXCEPT ![Uses[c]] = FALSE]
  /\ Goto(c, "idle")
  /\ UNCHANGED <<now, key, owned, cleanup, generation, handle, loop, cancelled, locals, granted>>

-----------------------------------------------------------------------------
(* renewLoop of generation g. *)

SetLoop(e, g, state) == loop' = [loop EXCEPT ![e][g] = state]

\* The cancelled loop closes done; a tick that is ready as well may come
\* first, and its renewal fails undispatched.
LoopStop(e, g) ==
  /\ loop[e][g] = "waiting" /\ g \in cancelled[e]
  /\ SetLoop(e, g, "done") \/ SetLoop(e, g, "unknown")
  /\ UNCHANGED <<now, key, elector, cancelled, pc, locals, granted>>

RenewTick(e, g) ==
  /\ loop[e][g] = "waiting" /\ g \notin cancelled[e]
  /\ SetLoop(e, g, "renewing")
  /\ UNCHANGED <<now, key, elector, cancelled, pc, locals, granted>>

\* renew answers: PEXPIRE, or the token is no longer there.
renew(e, g) ==
  /\ loop[e][g] = "renewing"
  /\ IF Holds(e)
     THEN /\ key' = Leased(e)
          /\ granted' = [granted EXCEPT ![e] = now + Lease]
          /\ SetLoop(e, g, "waiting")
     ELSE SetLoop(e, g, "lost") /\ UNCHANGED <<key, granted>>
  /\ UNCHANGED <<now, elector, cancelled, pc, locals>>

\* renew fails or times out, applied or not.
renewUnknown(e, g) ==
  /\ loop[e][g] = "renewing"
  /\ key' \in {key} \cup IF Holds(e) THEN {Leased(e)} ELSE {}
  /\ SetLoop(e, g, "unknown")
  /\ UNCHANGED <<now, elector, cancelled, pc, locals, granted>>

\* A loss that is only logged.
clearNothing(e, g) ==
  /\ loop[e][g] \in {"lost", "unknown"}
  /\ SetLoop(e, g, "done")
  /\ UNCHANGED <<now, key, elector, cancelled, pc, locals, granted>>

\* A loss that always allows the next campaign.
clearOwnershipAndCleanup(e, g) ==
  /\ loop[e][g] \in {"lost", "unknown"}
  /\ owned' = [owned EXCEPT ![e] = FALSE]
  /\ cleanup' = [cleanup EXCEPT ![e] = FALSE]
  /\ handle' = [handle EXCEPT ![e] = 0]
  /\ SetLoop(e, g, "done")
  /\ UNCHANGED <<now, key, campaigning, generation, cancelled, pc, locals, granted>>

\* clearOwnershipAfterLoss, then the loop closes done.
clearOwnershipAfterLoss(e, g) ==
  /\ loop[e][g] \in {"lost", "unknown"}
  /\ IF generation[e] = g /\ handle[e] = g
     THEN /\ owned' = [owned EXCEPT ![e] = FALSE]
          /\ cleanup' = [cleanup EXCEPT ![e] = loop[e][g] = "unknown"]
          /\ handle' = [handle EXCEPT ![e] = 0]
     ELSE UNCHANGED <<owned, cleanup, handle>>
  /\ SetLoop(e, g, "done")
  /\ UNCHANGED <<now, key, campaigning, generation, cancelled, pc, locals, granted>>

-----------------------------------------------------------------------------
(* Resign by caller c. *)

\* The first section of Resign and the cancellation; an elector that is
\* neither owned nor pending cleanup makes it return at once.
Resign(c) ==
  LET e == Uses[c]
  IN /\ pc[c] = "idle"
     /\ owned[e] \/ cleanup[e]
     /\ owned' = [owned EXCEPT ![e] = FALSE]
     /\ cleanup' = [cleanup EXCEPT ![e] = TRUE]
     /\ callGeneration' = [callGeneration EXCEPT ![c] = generation[e]]
     /\ callDone' = [callDone EXCEPT ![c] = handle[e]]
     /\ cancelled' = [cancelled EXCEPT ![e] = @ \cup ({handle[e]} \cap Generations)]
     /\ Goto(c, "join")
     /\ UNCHANGED <<now, key, campaigning, generation, handle, loop, granted>>

Join(c) ==
  /\ pc[c] = "join"
  /\ callDone[c] # 0 => loop[Uses[c]][callDone[c]] = "done"
  /\ Goto(c, "release")
  /\ UNCHANGED <<now, key, elector, loop, cancelled, locals, granted>>

\* Resign returns.
Return(c) ==
  /\ Goto(c, "idle")
  /\ callGeneration' = [callGeneration EXCEPT ![c] = 0]
  /\ callDone' = [callDone EXCEPT ![c] = 0]

\* Resign's context ends during the wait: the cleanup stays pending.
JoinTimeout(c) ==
  /\ pc[c] = "join" /\ callDone[c] # 0
  /\ Return(c)
  /\ UNCHANGED <<now, key, elector, loop, cancelled, granted>>

\* What releaseScript leaves.
Released(e) == IF Holds(e) THEN [owner |-> NoOwner, until |-> 0] ELSE key

\* releaseScript answers.
release(c) ==
  /\ pc[c] = "release"
  /\ key' = Released(Uses[c])
  /\ Goto(c, "finish")
  /\ UNCHANGED <<now, elector, loop, cancelled, locals, granted>>

\* releaseScript fails, applied or not: ErrCommitUnknown.
releaseUnknown(c) ==
  /\ pc[c] = "release"
  /\ key' \in {key, Released(Uses[c])}
  /\ Return(c)
  /\ UNCHANGED <<now, elector, loop, cancelled, granted>>

\* The last section of Resign.
Finish(c) ==
  LET e == Uses[c]
  IN /\ pc[c] = "finish"
     /\ IF generation[e] = callGeneration[c]
        THEN /\ cleanup' = [cleanup EXCEPT ![e] = FALSE]
             /\ handle' = [handle EXCEPT ![e] = 0]
        ELSE UNCHANGED <<cleanup, handle>>
     /\ Return(c)
     /\ UNCHANGED <<now, key, owned, campaigning, generation, loop, cancelled, granted>>

-----------------------------------------------------------------------------

Call(c) ==
  \/ beginCampaign(c) \/ Acquire(c) \/ AcquireUnknown(c) \/ reconcileCampaign(c) \/ ProbeFails(c)
  \/ sleepContext(c) \/ startRenewal(c) \/ endCampaign(c)
  \/ Resign(c) \/ Join(c) \/ JoinTimeout(c) \/ release(c) \/ releaseUnknown(c) \/ Finish(c)

renewLoop(e, g) ==
  LoopStop(e, g) \/ RenewTick(e, g) \/ renew(e, g) \/ renewUnknown(e, g) \/ clearOwnershipAfterLoss(e, g)

Next ==
  \/ Tick
  \/ \E c \in Callers : Call(c)
  \/ \E e \in Electors, g \in Generations : renewLoop(e, g)

Spec == Init /\ [][Next]_vars

-----------------------------------------------------------------------------

Leads(e) == owned[e] /\ now < granted[e]

\* While the lease an elector was last told of runs, the key holds its token
\* at least as long, so no other elector leads: no Resign, renewal or
\* campaign, failed or not, takes the key away from it.
LeaderHoldsKey ==
  \A e \in Electors : Leads(e) => key.owner = e /\ key.until >= granted[e]

\* IsLeader is only true while the uncancelled renewal loop of the current
\* generation runs; and no loop of an earlier generation still renews.
OwnedIsRenewed ==
  \A e \in Electors :
    /\ owned[e] => /\ loop[e][generation[e]] \in {"waiting", "renewing", "lost", "unknown"}
                   /\ generation[e] \notin cancelled[e]
    /\ \A g \in Generations : loop[e][g] \in {"waiting", "renewing"} => g = generation[e]

\* A key that holds the token of an elector is never forgotten: the elector
\* leads, campaigns, or still refuses campaigns until a Resign cleaned up,
\* whichever command failed after it was applied.
NothingForgotten ==
  \A e \in Electors : Holds(e) => owned[e] \/ campaigning[e] \/ cleanup[e]

\* Resign releases the ownership it was called for: the key is never deleted
\* under an elector that has become leader again since.
ResignReleasesOwn ==
  [][\A c \in Callers : pc[c] = "release" /\ key' # key /\ key.owner = Uses[c] => ~owned[Uses[c]]]_vars

=============================================================================

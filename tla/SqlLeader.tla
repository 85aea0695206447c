------------------------------ MODULE SqlLeader ------------------------------
(***************************************************************************)
(* leader/sql: PostgreSQL-backed electors that compete for the one lease   *)
(* row of their group.  The server's clock is `now`; every statement is    *)
(* one atomic step, after which its caller learns the result or an error   *)
(* that does not say whether the statement was applied.  Each elector has  *)
(* one campaign at a time, one renewal loop per generation and any number  *)
(* of overlapping Resign calls.                                            *)
(***************************************************************************)
EXTENDS Integers, FiniteSets

CONSTANTS
  Electors,       \* electors of one group; an elector stands for its owner token
  Resigners,      \* goroutines that call Resign, each on any elector
  NoOwner,        \* the owner of a row that does not exist
  Lease,          \* opts.Lease in clock units
  MaxNow,         \* bound of the clock
  MaxGeneration   \* bound of the acquisitions of one elector

ASSUME LeaseAssumption == Lease \in Nat \ {0} /\ MaxNow \in Nat
ASSUME GenerationAssumption == MaxGeneration \in Nat
ASSUME NoOwnerAssumption == NoOwner \notin Electors
ASSUME ResignersAssumption == IsFiniteSet(Resigners)

Generations == 1..MaxGeneration

VARIABLES
  now,            \* pg_catalog.clock_timestamp()
  row,            \* the row of bluetape_leader_leases: owner_token, lease_until
  owned, campaigning, cleanup, resigning, resolved, generation,
  handle,         \* e.done and e.cancel: the generation they belong to, 0 for nil
  campaign,       \* where the campaign of each elector is
  loop,           \* the renewal loop of each generation
  cancelled,      \* the generations whose renewal context is cancelled
  call,           \* where the Resign call of each resigner is
  on,             \* the elector it is on
  callGeneration, callDone,  \* the generation and the done clearOwnership gave it
  callResolved,   \* its local variable resolved
  confirmed       \* history: the expiry of the last lease the elector was told of

elector == <<owned, campaigning, cleanup, resigning, resolved, generation, handle>>
calls == <<call, on, callGeneration, callDone, callResolved>>
vars == <<now, row, elector, campaign, loop, cancelled, calls, confirmed>>

CampaignState == {"idle", "acquire", "reconcile", "backoff", "won", "ending"}
LoopState == {"none", "waiting", "renewing", "lost", "unknown", "done"}
CallState == {"idle", "join", "delete", "finish"}

TypeOK ==
  /\ now \in 0..MaxNow
  /\ row \in [owner : Electors \cup {NoOwner}, until : Nat]
  /\ owned \in [Electors -> BOOLEAN] /\ campaigning \in [Electors -> BOOLEAN]
  /\ cleanup \in [Electors -> BOOLEAN] /\ resolved \in [Electors -> BOOLEAN]
  /\ resigning \in [Electors -> Nat]
  /\ generation \in [Electors -> 0..MaxGeneration]
  /\ handle \in [Electors -> 0..MaxGeneration]
  /\ campaign \in [Electors -> CampaignState]
  /\ loop \in [Electors -> [Generations -> LoopState]]
  /\ cancelled \in [Electors -> SUBSET Generations]
  /\ call \in [Resigners -> CallState] /\ on \in [Resigners -> Electors \cup {NoOwner}]
  /\ callGeneration \in [Resigners -> 0..MaxGeneration]
  /\ callDone \in [Resigners -> 0..MaxGeneration]
  /\ callResolved \in [Resigners -> BOOLEAN]
  /\ confirmed \in [Electors -> Nat]

Init ==
  /\ now = 0
  /\ row = [owner |-> NoOwner, until |-> 0]
  /\ owned = [e \in Electors |-> FALSE] /\ campaigning = [e \in Electors |-> FALSE]
  /\ cleanup = [e \in Electors |-> FALSE] /\ resolved = [e \in Electors |-> FALSE]
  /\ resigning = [e \in Electors |-> 0]
  /\ generation = [e \in Electors |-> 0] /\ handle = [e \in Electors |-> 0]
  /\ campaign = [e \in Electors |-> "idle"]
  /\ loop = [e \in Electors |-> [g \in Generations |-> "none"]]
  /\ cancelled = [e \in Electors |-> {}]
  /\ call = [r \in Resigners |-> "idle"] /\ on = [r \in Resigners |-> NoOwner]
  /\ callGeneration = [r \in Resigners |-> 0] /\ callDone = [r \in Resigners |-> 0]
  /\ callResolved = [r \in Resigners |-> FALSE]
  /\ confirmed = [e \in Electors |-> 0]

Tick ==
  /\ now < MaxNow
  /\ now' = now + 1
  /\ UNCHANGED <<row, elector, campaign, loop, cancelled, calls, confirmed>>

-----------------------------------------------------------------------------
(* The statements of queries.go. *)

Live == row.owner # NoOwner /\ row.until > now
Leased(e) == [owner |-> e, until |-> now + Lease]

\* An upsert without its where clause.
AcquirableAlways(e) == TRUE

\* acquireQuery returns a row for e.
Acquirable(e) == ~Live \/ row.owner = e

\* renewQuery updates a row for e.
Renewable(e) == Live /\ row.owner = e

\* What deleteQuery leaves.
Deleted(e) == IF row.owner = e THEN [owner |-> NoOwner, until |-> 0] ELSE row

\* lookupQuery finds e.
Owner(e) == Live /\ row.owner = e

-----------------------------------------------------------------------------
(* Campaign. *)

\* beginCampaign that does not look at a pending cleanup.
beginCampaignDuringCleanup(e) ==
  /\ ~owned[e] /\ ~campaigning[e]
  /\ generation[e] < MaxGeneration
  /\ campaigning' = [campaigning EXCEPT ![e] = TRUE]
  /\ campaign' = [campaign EXCEPT ![e] = "acquire"]
  /\ UNCHANGED <<now, row, owned, cleanup, resigning, resolved, generation, handle,
                 loop, cancelled, calls, confirmed>>

\* beginCampaign; the other cases only return a sentinel error.
beginCampaign(e) ==
  /\ ~cleanup[e] /\ ~owned[e] /\ ~campaigning[e]
  /\ generation[e] < MaxGeneration
  /\ campaigning' = [campaigning EXCEPT ![e] = TRUE]
  /\ campaign' = [campaign EXCEPT ![e] = "acquire"]
  /\ UNCHANGED <<now, row, owned, cleanup, resigning, resolved, generation, handle,
                 loop, cancelled, calls, confirmed>>

\* tryAcquire answers: e owns the row, or a live contender does.
Acquire(e) ==
  /\ campaign[e] = "acquire"
  /\ \/ /\ Acquirable(e)
        /\ row' = Leased(e)
        /\ confirmed' = [confirmed EXCEPT ![e] = now + Lease]
        /\ campaign' = [campaign EXCEPT ![e] = "won"]
     \/ /\ ~Acquirable(e)
        /\ campaign' = [campaign EXCEPT ![e] = "backoff"]
        /\ UNCHANGED <<row, confirmed>>
  /\ UNCHANGED <<now, elector, loop, cancelled, calls>>

\* tryAcquire fails, or succeeds after its context ended: the insert may or
\* may not have been applied.
AcquireUnknown(e) ==
  /\ campaign[e] = "acquire"
  /\ row' \in {row} \cup IF Acquirable(e) THEN {Leased(e)} ELSE {}
  /\ campaign' = [campaign EXCEPT ![e] = "reconcile"]
  /\ UNCHANGED <<now, elector, loop, cancelled, calls, confirmed>>

\* The probe answers.  Without e's token a timeout of the attempt goes back
\* to the loop and any other failure ends the campaign.
Reconcile(e) ==
  /\ campaign[e] = "reconcile"
  /\ \/ /\ Owner(e)
        /\ campaign' = [campaign EXCEPT ![e] = "won"]
        /\ confirmed' = [confirmed EXCEPT ![e] = row.until]
     \/ /\ ~Owner(e)
        /\ \E next \in {"backoff", "ending"} : campaign' = [campaign EXCEPT ![e] = next]
        /\ UNCHANGED confirmed
  /\ UNCHANGED <<now, row, elector, loop, cancelled, calls>>

\* The probe fails as well: markCleanupPending and ErrCommitUnknown.
markCleanupPending(e) ==
  /\ campaign[e] = "reconcile"
  /\ owned' = [owned EXCEPT ![e] = FALSE]
  /\ cleanup' = [cleanup EXCEPT ![e] = TRUE]
  /\ campaign' = [campaign EXCEPT ![e] = "ending"]
  /\ UNCHANGED <<now, row, campaigning, resigning, resolved, generation, handle,
                 loop, cancelled, calls, confirmed>>

\* backoff.wait returns: the next attempt, or the caller's context ended.
Backoff(e) ==
  /\ campaign[e] = "backoff"
  /\ \E next \in {"acquire", "ending"} : campaign' = [campaign EXCEPT ![e] = next]
  /\ UNCHANGED <<now, row, elector, loop, cancelled, calls, confirmed>>

startRenewal(e) ==
  /\ campaign[e] = "won"
  /\ LET g == generation[e] + 1
     IN /\ generation' = [generation EXCEPT ![e] = g]
        /\ handle' = [handle EXCEPT ![e] = g]
        /\ loop' = [loop EXCEPT ![e][g] = "waiting"]
  /\ owned' = [owned EXCEPT ![e] = TRUE]
  /\ cleanup' = [cleanup EXCEPT ![e] = FALSE]
  /\ campaign' = [campaign EXCEPT ![e] = "ending"]
  /\ UNCHANGED <<now, row, campaigning, resigning, resolved, cancelled, calls, confirmed>>

endCampaign(e) ==
  /\ campaign[e] = "ending"
  /\ campaigning' = [campaigning EXCEPT ![e] = FALSE]
  /\ campaign' = [campaign EXCEPT ![e] = "idle"]
  /\ UNCHANGED <<now, row, owned, cleanup, resigning, resolved, generation, handle,
                 loop, cancelled, calls, confirmed>>

-----------------------------------------------------------------------------
(* The renewal loop of generation g. *)

\* The loop sees its context cancelled and closes done; when a tick is ready
\* as well it may take that first, and renew fails undispatched.
LoopStop(e, g) ==
  /\ loop[e][g] = "waiting" /\ g \in cancelled[e]
  /\ \E next \in {"done", "unknown"} : loop' = [loop EXCEPT ![e][g] = next]
  /\ UNCHANGED <<now, row, elector, campaign, cancelled, calls, confirmed>>

\* A tick: the renewal statement is dispatched.
RenewTick(e, g) ==
  /\ loop[e][g] = "waiting" /\ g \notin cancelled[e]
  /\ loop' = [loop EXCEPT ![e][g] = "renewing"]
  /\ UNCHANGED <<now, row, elector, campaign, cancelled, calls, confirmed>>

\* A renewal that matched no row taken for a success.
RenewWithoutRow(e, g) ==
  /\ loop[e][g] = "renewing"
  /\ loop' = [loop EXCEPT ![e][g] = "waiting"]
  /\ IF Renewable(e)
     THEN row' = Leased(e) /\ confirmed' = [confirmed EXCEPT ![e] = now + Lease]
     ELSE UNCHANGED <<row, confirmed>>
  /\ UNCHANGED <<now, elector, campaign, cancelled, calls>>

\* renew answers: the lease is extended, or the row is no longer e's.
Renew(e, g) ==
  /\ loop[e][g] = "renewing"
  /\ \/ /\ Renewable(e)
        /\ row' = Leased(e)
        /\ confirmed' = [confirmed EXCEPT ![e] = now + Lease]
        /\ loop' = [loop EXCEPT ![e][g] = "waiting"]
     \/ /\ ~Renewable(e)
        /\ loop' = [loop EXCEPT ![e][g] = "lost"]
        /\ UNCHANGED <<row, confirmed>>
  /\ UNCHANGED <<now, elector, campaign, cancelled, calls>>

\* renew fails or times out, applied or not.
RenewUnknown(e, g) ==
  /\ loop[e][g] = "renewing"
  /\ row' \in {row} \cup IF Renewable(e) THEN {Leased(e)} ELSE {}
  /\ loop' = [loop EXCEPT ![e][g] = "unknown"]
  /\ UNCHANGED <<now, elector, campaign, cancelled, calls, confirmed>>

\* A loss that forgets the Resign calls in progress.
clearOwnershipDuringResign(e, g) ==
  /\ loop[e][g] \in {"lost", "unknown"}
  /\ IF generation[e] = g /\ handle[e] = g
     THEN /\ owned' = [owned EXCEPT ![e] = FALSE]
          /\ cleanup' = [cleanup EXCEPT ![e] = loop[e][g] = "unknown"]
          /\ handle' = [handle EXCEPT ![e] = 0]
     ELSE UNCHANGED <<owned, cleanup, handle>>
  /\ loop' = [loop EXCEPT ![e][g] = "done"]
  /\ UNCHANGED <<now, row, campaigning, resigning, resolved, generation, campaign,
                 cancelled, calls, confirmed>>

\* A loss that leaves IsLeader true.
clearCleanupOnly(e, g) ==
  /\ loop[e][g] \in {"lost", "unknown"}
  /\ cleanup' = [cleanup EXCEPT ![e] = loop[e][g] = "unknown" \/ resigning[e] > 0]
  /\ loop' = [loop EXCEPT ![e][g] = "done"]
  /\ UNCHANGED <<now, row, owned, campaigning, resigning, resolved, generation, handle,
                 campaign, cancelled, calls, confirmed>>

\* clearOwnershipAfterLoss, then the loop closes done.
clearOwnershipAfterLoss(e, g) ==
  /\ loop[e][g] \in {"lost", "unknown"}
  /\ IF generation[e] = g /\ handle[e] = g
     THEN /\ owned' = [owned EXCEPT ![e] = FALSE]
          /\ cleanup' = [cleanup EXCEPT ![e] = loop[e][g] = "unknown" \/ resigning[e] > 0]
          /\ handle' = [handle EXCEPT ![e] = IF resigning[e] = 0 THEN 0 ELSE @]
     ELSE UNCHANGED <<owned, cleanup, handle>>
  /\ loop' = [loop EXCEPT ![e][g] = "done"]
  /\ UNCHANGED <<now, row, campaigning, resigning, resolved, generation, campaign,
                 cancelled, calls, confirmed>>

-----------------------------------------------------------------------------
(* Resign by goroutine r. *)

\* What the call keeps of clearOwnership's result.
Enter(r, e) ==
  /\ call' = [call EXCEPT ![r] = "join"]
  /\ on' = [on EXCEPT ![r] = e]
  /\ callGeneration' = [callGeneration EXCEPT ![r] = generation[e]]
  /\ callDone' = [callDone EXCEPT ![r] = handle[e]]
  /\ UNCHANGED callResolved

\* The call returns.
Leave(r) ==
  /\ call' = [call EXCEPT ![r] = "idle"]
  /\ on' = [on EXCEPT ![r] = NoOwner]
  /\ callGeneration' = [callGeneration EXCEPT ![r] = 0]
  /\ callDone' = [callDone EXCEPT ![r] = 0]
  /\ callResolved' = [callResolved EXCEPT ![r] = FALSE]

\* A Resign that does not cancel the renewal it then waits for.
clearOwnershipUncancelled(r, e) ==
  /\ call[r] = "idle"
  /\ owned[e] \/ cleanup[e]
  /\ Enter(r, e)
  /\ owned' = [owned EXCEPT ![e] = FALSE]
  /\ cleanup' = [cleanup EXCEPT ![e] = TRUE]
  /\ resigning' = [resigning EXCEPT ![e] = @ + 1]
  /\ UNCHANGED <<now, row, campaigning, resolved, generation, handle, campaign, loop,
                 cancelled, confirmed>>

\* clearOwnership and the cancellation of the renewal it returned; an elector
\* that is neither owned nor pending cleanup makes Resign return at once.
clearOwnership(r, e) ==
  /\ call[r] = "idle"
  /\ owned[e] \/ cleanup[e]
  /\ Enter(r, e)
  /\ owned' = [owned EXCEPT ![e] = FALSE]
  /\ cleanup' = [cleanup EXCEPT ![e] = TRUE]
  /\ resigning' = [resigning EXCEPT ![e] = @ + 1]
  /\ cancelled' = [cancelled EXCEPT ![e] = @ \cup ({handle[e]} \cap Generations)]
  /\ UNCHANGED <<now, row, campaigning, resolved, generation, handle, campaign, loop, confirmed>>

\* The wait for done ends; without a renewal loop there is none.
Join(r) ==
  /\ call[r] = "join"
  /\ callDone[r] # 0 => loop[on[r]][callDone[r]] = "done"
  /\ call' = [call EXCEPT ![r] = "delete"]
  /\ UNCHANGED <<now, row, elector, campaign, loop, cancelled, confirmed,
                 on, callGeneration, callDone, callResolved>>

\* The caller's context ends during the wait.
JoinTimeout(r) ==
  /\ call[r] = "join" /\ callDone[r] # 0
  /\ call' = [call EXCEPT ![r] = "finish"]
  /\ UNCHANGED <<now, row, elector, campaign, loop, cancelled, confirmed,
                 on, callGeneration, callDone, callResolved>>

\* deleteOwner succeeds, or fails with the row deleted or not.
deleteOwner(r) ==
  /\ call[r] = "delete"
  /\ call' = [call EXCEPT ![r] = "finish"]
  /\ \/ /\ row' = Deleted(on[r])
        /\ callResolved' = [callResolved EXCEPT ![r] = TRUE]
     \/ /\ row' \in {row, Deleted(on[r])}
        /\ UNCHANGED callResolved
  /\ UNCHANGED <<now, elector, campaign, loop, cancelled, confirmed, on, callGeneration, callDone>>

\* A Resign that counts itself out twice.
finishResignTwice(r) ==
  /\ call[r] = "finish"
  /\ resigning' = [resigning EXCEPT ![on[r]] = @ - 2]
  /\ Leave(r)
  /\ UNCHANGED <<now, row, owned, campaigning, cleanup, resolved, generation, handle,
                 campaign, loop, cancelled, confirmed>>

finishResign(r) ==
  /\ call[r] = "finish"
  /\ LET e == on[r]
         n == resigning[e] - 1
         settled == resolved[e] \/ callResolved[r]
     IN IF generation[e] = callGeneration[r] /\ resigning[e] # 0
        THEN /\ resigning' = [resigning EXCEPT ![e] = n]
             /\ resolved' = [resolved EXCEPT ![e] = settled /\ n # 0]
             /\ cleanup' = [cleanup EXCEPT ![e] = IF settled /\ n = 0 THEN FALSE ELSE @]
             /\ handle' = [handle EXCEPT ![e] = IF settled /\ n = 0 THEN 0 ELSE @]
        ELSE UNCHANGED <<resigning, resolved, cleanup, handle>>
  /\ Leave(r)
  /\ UNCHANGED <<now, row, owned, campaigning, generation, campaign, loop, cancelled, confirmed>>

-----------------------------------------------------------------------------

CampaignStep(e) ==
  \/ beginCampaign(e) \/ Acquire(e) \/ AcquireUnknown(e) \/ Reconcile(e)
  \/ markCleanupPending(e) \/ Backoff(e) \/ startRenewal(e) \/ endCampaign(e)

LoopStep(e, g) ==
  LoopStop(e, g) \/ RenewTick(e, g) \/ Renew(e, g) \/ RenewUnknown(e, g) \/ clearOwnershipAfterLoss(e, g)

ResignStep(r) ==
  \/ \E e \in Electors : clearOwnership(r, e)
  \/ Join(r) \/ JoinTimeout(r) \/ deleteOwner(r) \/ finishResign(r)

Next ==
  \/ Tick
  \/ \E e \in Electors : CampaignStep(e)
  \/ \E e \in Electors, g \in Generations : LoopStep(e, g)
  \/ \E r \in Resigners : ResignStep(r)

Spec == Init /\ [][Next]_vars

\* Renewal loops tick, statements return within their budgets and a Resign
\* that may proceed does; nobody has to campaign, resign or run out of time.
Fairness ==
  /\ \A e \in Electors, g \in Generations : WF_vars(LoopStep(e, g))
  /\ \A r \in Resigners : WF_vars(Join(r) \/ deleteOwner(r) \/ finishResign(r))

FairSpec == Spec /\ Fairness

-----------------------------------------------------------------------------

\* e believes in a lease whose expiry it was told and that has not passed.
Leads(e) == owned[e] /\ now < confirmed[e]

\* No two electors lead at once: while the lease an elector was last told of
\* runs, no campaign, renewal or Resign of anybody gives the row to another.
MutualExclusion == \A e, f \in Electors : Leads(e) /\ Leads(f) => e = f

\* An elector that leads has its row in the table, valid at least as long:
\* no Resign of an earlier generation deletes it.
LeaderHoldsRow == \A e \in Electors : Leads(e) => row.owner = e /\ row.until >= confirmed[e]

\* IsLeader is only true while the renewal loop of the current generation is
\* there to notice a loss, and no other loop of the elector still renews.
Renewing(e, g) == loop[e][g] \in {"waiting", "renewing", "lost", "unknown"}
OwnedIsRenewed ==
  \A e \in Electors :
    /\ owned[e] => Renewing(e, generation[e]) /\ generation[e] \notin cancelled[e]
    /\ \A g \in Generations : Renewing(e, g) => g = generation[e]

\* The resigning counter counts the unfinished Resign calls, so the last of
\* them clears the pending cleanup; and while one is unfinished no campaign
\* of the elector talks to the database.
Active(e) == {r \in Resigners : call[r] # "idle" /\ on[r] = e}
ResignExcludesCampaign ==
  \A e \in Electors :
    /\ resigning[e] = Cardinality(Active(e))
    /\ Active(e) # {} => cleanup[e] /\ ~owned[e] /\ campaign[e] \in {"idle", "ending"}

\* An elector whose row is gone or taken over stops being leader: its
\* renewal loop finds no row, or fails, and clears owned.
LossNoticed == \A e \in Electors : owned[e] /\ row.owner # e ~> ~owned[e]

\* A Resign without a deadline returns: the renewal it cancelled closes done.
ResignReturns == \A r \in Resigners : call[r] # "idle" ~> call[r] = "idle"

=============================================================================

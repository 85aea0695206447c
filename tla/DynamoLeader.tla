----------------------------- MODULE DynamoLeader -----------------------------
(***************************************************************************)
(* leader/dynamodb: electors that compete for one item.  Each elector is      *)
(* shared by goroutines, one that campaigns and several that resign.        *)
(* Leases are computed from the process clocks; a command that fails was    *)
(* applied or not, and is then reconciled by a consistent read.             *)
(***************************************************************************)
EXTENDS Integers, FiniteSets

CONSTANTS Electors, NoOwner, Resigners, Lease, MaxSkew, MaxDelay, MaxNow, MaxGenerations

ASSUME OwnersAssumption == NoOwner \notin Electors
ASSUME TimesAssumption == Lease \in Nat /\ MaxSkew \in Nat /\ MaxDelay \in Nat /\ MaxNow \in Nat /\ MaxGenerations \in Nat

VARIABLES
  now, skew,    \* true time, and how far ahead each process is
  record,       \* the item: owner and lease
  el,           \* per elector: the fields under its mutex
  loop,         \* per elector: its renewal loop
  pc,           \* per elector: where the Campaign is
  call,         \* per elector and resigner: where the Resign is, and what clearOwnership gave it
  known         \* history: the end of the lease the elector was last told of

vars == <<now, skew, record, el, loop, pc, call, known>>

NoItem == [owner |-> NoOwner, lease |-> 0]
Idle == [at |-> "idle", generation |-> 0]

TypeOK ==
  /\ now \in 0..MaxNow /\ skew \in [Electors -> 0..MaxSkew]
  /\ record \in [owner : Electors \cup {NoOwner}, lease : Nat]
  /\ el \in [Electors -> [owned : BOOLEAN, cleanup : BOOLEAN, resigning : Nat, resolved : BOOLEAN,
                          generation : 0..MaxGenerations, handle : BOOLEAN, cancelled : BOOLEAN]]
  /\ loop \in [Electors -> {"none", "waiting", "renewing", "probing"}]
  /\ pc \in [Electors -> {"idle", "put", "takeover", "retry", "fail", "sleep", "started"}]
  /\ \A e \in Electors :
       call[e] \in [Resigners[e] -> [at : {"idle", "join", "delete", "probe"}, generation : 0..MaxGenerations]]
  /\ known \in [Electors -> Nat]

Init ==
  /\ now = 0 /\ skew \in [Electors -> 0..MaxSkew]
  /\ record = NoItem
  /\ el = [e \in Electors |-> [owned |-> FALSE, cleanup |-> FALSE, resigning |-> 0, resolved |-> FALSE,
                               generation |-> 0, handle |-> FALSE, cancelled |-> FALSE]]
  /\ loop = [e \in Electors |-> "none"]
  /\ pc = [e \in Electors |-> "idle"]
  /\ call = [e \in Electors |-> [r \in Resigners[e] |-> Idle]]
  /\ known = [e \in Electors |-> 0]

clock(e) == now + skew[e]

\* The clock as it was read, at most MaxDelay before the command, and after
\* the reading of the elector's lease.
Readings(e) == {t \in (clock(e) - MaxDelay)..clock(e) : t >= skew[e] /\ t + Lease >= known[e]}

Tick == now < MaxNow /\ now' = now + 1 /\ UNCHANGED <<skew, record, el, loop, pc, call, known>>

\* The table's TTL removes an expired item some time later.
Expire == record # NoItem /\ record.lease <= now /\ record' = NoItem /\ UNCHANGED <<now, skew, el, loop, pc, call, known>>

Leased(e, t) == [owner |-> e, lease |-> t + Lease]

At(e, next) == pc' = [pc EXCEPT ![e] = next]

beginCampaign(e) ==
  /\ pc[e] = "idle" /\ ~el[e].cleanup /\ ~el[e].owned
  /\ At(e, "put")
  /\ UNCHANGED <<now, skew, record, el, loop, call, known>>

startRenewal(e) ==
  /\ el[e].generation < MaxGenerations
  /\ el' = [el EXCEPT ![e].generation = @ + 1, ![e].owned = TRUE, ![e].cleanup = FALSE, ![e].handle = TRUE, ![e].cancelled = FALSE]
  /\ loop' = [loop EXCEPT ![e] = "waiting"]
  /\ At(e, "started")

markCleanupPending(e) == [el EXCEPT ![e].owned = FALSE, ![e].cleanup = TRUE, ![e].cancelled = @ \/ el[e].handle]

\* attribute_not_exists for PutItem, the lease for the UpdateItem of takeover.
MayPut(e, t) == record = NoItem
MayTake(e, t) == record = NoItem \/ record.lease <= t

\* acquireAttempt (step "put") and takeover: the command succeeds, its
\* condition fails, it ends in an error or in a timeout that a probe resolves,
\* or the context ends.
Attempt(e, step, May(_, _), refused) ==
  /\ pc[e] = step
  /\ \E t \in Readings(e) :
       \/ May(e, t) /\ record' = Leased(e, t) /\ known' = [known EXCEPT ![e] = t + Lease] /\ startRenewal(e)
       \/ ~May(e, t) /\ At(e, refused) /\ UNCHANGED <<record, el, loop, known>>
       \/ /\ record' \in {record} \cup {i \in {Leased(e, t)} : May(e, t)}
          /\ \/ At(e, "fail") /\ UNCHANGED el
             \/ At(e, "retry") /\ UNCHANGED el
             \/ At(e, "idle") /\ el' = markCleanupPending(e)
          /\ UNCHANGED <<loop, known>>
  /\ UNCHANGED <<now, skew, call>>

acquireAttempt(e) == Attempt(e, "put", MayPut, "takeover")
takeover(e) == Attempt(e, "takeover", MayTake, "sleep")

\* A timeout that is retried without a probe.
reconcileNever(e) ==
  /\ pc[e] \in {"fail", "retry"}
  /\ At(e, IF pc[e] = "retry" THEN "sleep" ELSE "idle")
  /\ UNCHANGED <<now, skew, record, el, loop, call, known>>

confirmed(e) == record.owner = e /\ record.lease > clock(e)

reconcile(e) ==
  /\ pc[e] \in {"fail", "retry"}
  /\ \/ confirmed(e) /\ startRenewal(e) /\ known' = [known EXCEPT ![e] = record.lease]
     \/ ~confirmed(e) /\ At(e, IF pc[e] = "retry" THEN "sleep" ELSE "idle") /\ UNCHANGED <<el, loop, known>>
     \/ el' = markCleanupPending(e) /\ At(e, "idle") /\ UNCHANGED <<loop, known>>
  /\ UNCHANGED <<now, skew, record, call>>

sleepContext(e) ==
  /\ pc[e] = "sleep" /\ \E next \in {"put", "idle"} : At(e, next)
  /\ UNCHANGED <<now, skew, record, el, loop, call, known>>

\* The last check of Campaign's context.
Started(e) ==
  /\ pc[e] = "started" /\ At(e, "idle")
  /\ \/ UNCHANGED <<el, known>>
     \/ el' = markCleanupPending(e) /\ known' = [known EXCEPT ![e] = 0]
  /\ UNCHANGED <<now, skew, record, loop, call>>

\* The loop ticks, or finds its context cancelled and closes done.
renewLoop(e) ==
  /\ loop[e] = "waiting"
  /\ loop' = [loop EXCEPT ![e] = IF el[e].cancelled THEN "none" ELSE "renewing"]
  /\ UNCHANGED <<now, skew, record, el, pc, call, known>>

clearOwnershipAfterLoss(e, cleanup) ==
  /\ el' = [el EXCEPT ![e].owned = FALSE, ![e].cleanup = cleanup \/ el[e].resigning > 0, ![e].handle = @ /\ el[e].resigning > 0]
  /\ loop' = [loop EXCEPT ![e] = "none"]
  /\ known' = [known EXCEPT ![e] = 0]

MayRenew(e, t) == record.owner = e /\ record.lease > t

\* renew: renewed, not the owner any more, or an error; a cancelled loop returns.
renew(e) ==
  /\ loop[e] = "renewing"
  /\ \E t \in Readings(e) :
       IF el[e].cancelled
       THEN /\ record' \in {record} \cup {i \in {Leased(e, t)} : MayRenew(e, t)}
            /\ loop' = [loop EXCEPT ![e] = "none"] /\ UNCHANGED <<el, known>>
       ELSE \/ /\ MayRenew(e, t) /\ record' = Leased(e, t) /\ known' = [known EXCEPT ![e] = IF el[e].owned THEN t + Lease ELSE 0]
               /\ loop' = [loop EXCEPT ![e] = "waiting"] /\ UNCHANGED el
            \/ ~MayRenew(e, t) /\ clearOwnershipAfterLoss(e, FALSE) /\ UNCHANGED record
            \/ /\ record' \in {record} \cup {i \in {Leased(e, t)} : MayRenew(e, t)}
               /\ loop' = [loop EXCEPT ![e] = "probing"] /\ UNCHANGED <<el, known>>
  /\ UNCHANGED <<now, skew, pc, call>>

\* The probe after a failed renewal.
renewProbe(e) ==
  /\ loop[e] = "probing"
  /\ \/ /\ confirmed(e) /\ loop' = [loop EXCEPT ![e] = "waiting"]
        /\ known' = [known EXCEPT ![e] = IF el[e].owned THEN record.lease ELSE 0] /\ UNCHANGED el
     \/ ~confirmed(e) /\ clearOwnershipAfterLoss(e, FALSE)
     \/ clearOwnershipAfterLoss(e, TRUE)
  /\ UNCHANGED <<now, skew, record, pc, call>>

\* A Resign that is not counted.
clearOwnershipUncounted(e, r) ==
  /\ call[e][r] = Idle /\ (el[e].owned \/ el[e].cleanup)
  /\ el' = [el EXCEPT ![e].owned = FALSE, ![e].cleanup = TRUE, ![e].cancelled = @ \/ el[e].handle]
  /\ call' = [call EXCEPT ![e][r] = [at |-> "join", generation |-> el[e].generation]]
  /\ known' = [known EXCEPT ![e] = 0]
  /\ UNCHANGED <<now, skew, record, loop, pc>>

clearOwnership(e, r) ==
  /\ call[e][r] = Idle /\ (el[e].owned \/ el[e].cleanup)
  /\ el' = [el EXCEPT ![e].owned = FALSE, ![e].cleanup = TRUE, ![e].resigning = @ + 1, ![e].cancelled = @ \/ el[e].handle]
  /\ call' = [call EXCEPT ![e][r] = [at |-> "join", generation |-> el[e].generation]]
  /\ known' = [known EXCEPT ![e] = 0]
  /\ UNCHANGED <<now, skew, record, loop, pc>>

\* Every Resign finishes the cleanup by itself.
finishEach(e, r, resolved, state) ==
  /\ el' = [state EXCEPT ![e].resigning = @ - 1, ![e].resolved = FALSE,
                         ![e].cleanup = @ /\ ~resolved, ![e].handle = @ /\ ~resolved]
  /\ call' = [call EXCEPT ![e][r] = Idle]

\* finishResign, deferred by Resign: the last of the calls ends the cleanup.
finishResign(e, r, resolved, state) ==
  /\ LET stale == el[e].generation # call[e][r].generation \/ el[e].resigning = 0
         all == el[e].resolved \/ resolved
         over == el[e].resigning = 1 /\ all
     IN el' = IF stale THEN state
              ELSE [state EXCEPT ![e].resigning = @ - 1, ![e].resolved = all /\ ~over,
                                 ![e].cleanup = @ /\ ~over, ![e].handle = @ /\ ~over]
  /\ call' = [call EXCEPT ![e][r] = Idle]

\* Resign waits for the loop, or its context ends first.
Join(e, r) ==
  /\ call[e][r].at = "join"
  /\ \/ loop[e] = "none" /\ call' = [call EXCEPT ![e][r].at = "delete"] /\ UNCHANGED el
     \/ finishResign(e, r, FALSE, el)
  /\ UNCHANGED <<now, skew, record, loop, pc, known>>

Without(e) == IF record.owner = e THEN NoItem ELSE record

\* DeleteItem: done or not the owner, the context ends, or a probe follows.
Resign(e, r) ==
  /\ call[e][r].at = "delete"
  /\ \/ record' = Without(e) /\ finishResign(e, r, TRUE, el)
     \/ record' \in {record, Without(e)} /\ finishResign(e, r, FALSE, el)
     \/ record' \in {record, Without(e)} /\ call' = [call EXCEPT ![e][r].at = "probe"] /\ UNCHANGED el
  /\ UNCHANGED <<now, skew, loop, pc, known>>

\* Not the owner: resolved; otherwise markCleanupPending, then finishResign.
ResignProbe(e, r) ==
  /\ call[e][r].at = "probe"
  /\ \/ ~confirmed(e) /\ finishResign(e, r, TRUE, el)
     \/ finishResign(e, r, FALSE, markCleanupPending(e))
  /\ UNCHANGED <<now, skew, record, loop, pc, known>>

Step(e) ==
  \/ beginCampaign(e) \/ acquireAttempt(e) \/ takeover(e) \/ reconcile(e) \/ sleepContext(e) \/ Started(e)
  \/ renewLoop(e) \/ renew(e) \/ renewProbe(e)
  \/ \E r \in Resigners[e] : clearOwnership(e, r) \/ Join(e, r) \/ Resign(e, r) \/ ResignProbe(e, r)

Next == Tick \/ Expire \/ \E e \in Electors : Step(e)

Spec == Init /\ [][Next]_vars

-----------------------------------------------------------------------------

\* An elector that leads, and whose clock says that its lease has more than
\* the skew left, has the item, whatever its other callers and the timeouts do.
LeaderHoldsItem ==
  \A e \in Electors : el[e].owned /\ clock(e) + MaxSkew < known[e] => record.owner = e

\* A live item of an elector is never forgotten: it leads, campaigns, or
\* refuses campaigns until a Resign has cleaned up.
NothingForgotten ==
  \A e \in Electors : confirmed(e) => el[e].owned \/ el[e].cleanup \/ pc[e] # "idle"

\* The counter that delays the end of a cleanup counts the calls of Resign
\* that are under way, across generations.
ResigningCounted ==
  \A e \in Electors : el[e].resigning = Cardinality({r \in Resigners[e] : call[e][r] # Idle})

=============================================================================

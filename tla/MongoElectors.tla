---------------------------- MODULE MongoElectors ----------------------------
(*******************************************************************************)
(* Package leader/mongo: the Elector, whose electors compete for one document, *)
(* and the GroupElector, whose members compete for one document per slot.      *)
(*******************************************************************************)
EXTENDS Integers, FiniteSets

VARIABLES now, skew, record, el, known   \* what they hold is said in each part

vars == <<now, skew, record, el, known>>

-----------------------------------------------------------------------------
CONSTANTS Electors, NoOwner, Lease, MaxSkew, MaxNow

\* now, skew: the server's clock, and how far ahead each process is.
\* record: the lease document: token and lease_until.
\* el: per elector: owned, cleanup, its renewal loop, and where its caller is.
\* known: history: the end of the lease the elector was last told of.

(***************************************************************************)
(* leader/mongo, Elector: electors that compete for one document, each used *)
(* by one goroutine.  Leases are computed from the process clocks, which    *)
(* are ahead of the server's by up to MaxSkew; a command that fails was     *)
(* applied or not.                                                          *)
(***************************************************************************)

NoDoc == [token |-> NoOwner, until |-> 0]
Loops == {"none", "waiting", "renewing", "stopped"}
Elector == [owned : BOOLEAN, cleanup : BOOLEAN, cancelled : BOOLEAN, loop : Loops, at : Int, renewAt : Int,
            pc : {"idle", "acquire", "sleep", "join", "delete"}]

TypeOKLeader ==
  /\ now \in 0..MaxNow /\ skew \in [Electors -> 0..MaxSkew]
  /\ record \in [token : Electors \cup {NoOwner}, until : Nat]
  /\ el \in [Electors -> Elector]
  /\ known \in [Electors -> Nat]

InitLeader ==
  /\ now = 0 /\ skew \in [Electors -> 0..MaxSkew]
  /\ record = NoDoc
  /\ el = [e \in Electors |-> [owned |-> FALSE, cleanup |-> FALSE, cancelled |-> FALSE, loop |-> "none", 
                               pc |-> "idle", at |-> 0, renewAt |-> 0]]
  /\ known = [e \in Electors |-> 0]

clock(e) == now + skew[e]

Tick == now < MaxNow /\ now' = now + 1 /\ UNCHANGED <<skew, record, el, known>>

\* The TTL index of EnsureIndexes removes an expired document some time later.
Expire == record # NoDoc /\ record.until <= now /\ record' = NoDoc /\ UNCHANGED <<now, skew, el, known>>

\* beginCampaign, and the clock tryAcquire reads before its command.
beginCampaign(e) ==
  /\ el[e].pc = "idle" /\ ~el[e].cleanup /\ ~el[e].owned
  /\ el' = [el EXCEPT ![e].pc = "acquire", ![e].at = clock(e)]
  /\ UNCHANGED <<now, skew, record, known>>

\* The filter without the condition on the lease.
FilterAll(e) == TRUE

\* The filter of FindOneAndUpdate; no match makes the upsert fail on _id.
Filter(e) == record.token \in {NoOwner, e} \/ record.until <= el[e].at

Leased(e, t) == [token |-> e, until |-> t + Lease]

\* startRenewal, and Campaign returns.
startRenewal(e) ==
  el' = [el EXCEPT ![e].pc = "idle", ![e].owned = TRUE, ![e].cleanup = FALSE, ![e].cancelled = FALSE, ![e].loop = "waiting",
                     ![e].at = 0]

tryAcquire(e) ==
  /\ el[e].pc = "acquire"
  /\ IF Filter(e)
     THEN /\ record' = Leased(e, el[e].at) /\ known' = [known EXCEPT ![e] = el[e].at + Lease]
          /\ startRenewal(e)
     ELSE el' = [el EXCEPT ![e].pc = "sleep", ![e].at = 0] /\ UNCHANGED <<record, known>>
  /\ UNCHANGED <<now, skew>>

\* A failure that is not remembered.
acquireFailed(e) ==
  /\ el[e].pc = "acquire"
  /\ \/ Filter(e) /\ record' = Leased(e, el[e].at)
     \/ UNCHANGED record
  /\ el' = [el EXCEPT ![e].pc = "idle", ![e].at = 0]
  /\ UNCHANGED <<now, skew, known>>

\* ErrCommitUnknown: the cleanup is pending.
acquireUnknown(e) ==
  /\ el[e].pc = "acquire"
  /\ \/ Filter(e) /\ record' = Leased(e, el[e].at)
     \/ UNCHANGED record
  /\ el' = [el EXCEPT ![e].pc = "idle", ![e].cleanup = TRUE, ![e].at = 0]
  /\ UNCHANGED <<now, skew, known>>

\* sleepContext ends, or the context does.
sleepContext(e) ==
  /\ el[e].pc = "sleep"
  /\ \/ el' = [el EXCEPT ![e].pc = "acquire", ![e].at = clock(e)]
     \/ el' = [el EXCEPT ![e].pc = "idle"]
  /\ UNCHANGED <<now, skew, record, known>>

\* The loop ticks, or it finds its context cancelled.
renewLoop(e) ==
  /\ el[e].loop = "waiting"
  /\ \/ ~el[e].cancelled /\ el' = [el EXCEPT ![e].loop = "renewing", ![e].renewAt = clock(e)]
     \/ el[e].cancelled /\ el' = [el EXCEPT ![e].loop = "stopped"]
  /\ UNCHANGED <<now, skew, record, known>>

Holds(e) == record.token = e /\ record.until > el[e].renewAt

\* clearOwnershipAfterLoss, and the loop returns.
clearOwnershipAfterLoss(e, cleanup) ==
  /\ el' = [el EXCEPT ![e].owned = FALSE, ![e].cleanup = cleanup, ![e].loop = "none", ![e].renewAt = 0]
  /\ known' = [known EXCEPT ![e] = 0]

renew(e) ==
  /\ el[e].loop = "renewing"
  /\ IF Holds(e)
     THEN /\ record' = Leased(e, el[e].renewAt) /\ known' = [known EXCEPT ![e] = IF el[e].owned THEN el[e].renewAt + Lease ELSE 0]
          /\ el' = [el EXCEPT ![e].loop = "waiting", ![e].renewAt = 0]
     ELSE clearOwnershipAfterLoss(e, FALSE) /\ UNCHANGED record
  /\ UNCHANGED <<now, skew>>

renewUnknown(e) ==
  /\ el[e].loop = "renewing"
  /\ \/ Holds(e) /\ record' = Leased(e, el[e].renewAt)
     \/ UNCHANGED record
  /\ clearOwnershipAfterLoss(e, TRUE)
  /\ UNCHANGED <<now, skew>>

\* clearOwnership, and the loop is cancelled.
clearOwnership(e) ==
  /\ el[e].pc = "idle" /\ (el[e].owned \/ el[e].cleanup)
  /\ el' = [el EXCEPT ![e].owned = FALSE, ![e].cleanup = TRUE, ![e].cancelled = TRUE, ![e].pc = "join"]
  /\ known' = [known EXCEPT ![e] = 0]
  /\ UNCHANGED <<now, skew, record>>

\* Resign waits for the loop, or gives up and leaves the cleanup pending.
Join(e) ==
  /\ el[e].pc = "join"
  /\ \/ el[e].loop \in {"none", "stopped"} /\ el' = [el EXCEPT ![e].pc = "delete"]
     \/ el[e].loop # "none" /\ el' = [el EXCEPT ![e].pc = "idle"]
  /\ UNCHANGED <<now, skew, record, known>>

Without(e) == IF record.token = e THEN NoDoc ELSE record

\* DeleteOne, and the last section of Resign; or the command fails.
Resign(e) ==
  /\ el[e].pc = "delete"
  /\ \/ record' = Without(e) /\ el' = [el EXCEPT ![e].pc = "idle", ![e].cleanup = FALSE, ![e].loop = "none"]
     \/ record' \in {record, Without(e)} /\ el' = [el EXCEPT ![e].pc = "idle"]
  /\ UNCHANGED <<now, skew, known>>

Step(e) ==
  \/ beginCampaign(e) \/ tryAcquire(e) \/ acquireUnknown(e) \/ sleepContext(e)
  \/ renewLoop(e) \/ renew(e) \/ renewUnknown(e)
  \/ clearOwnership(e) \/ Join(e) \/ Resign(e)

NextLeader == Tick \/ Expire \/ \E e \in Electors : Step(e)

SpecLeader == InitLeader /\ [][NextLeader]_vars

-----------------------------------------------------------------------------

\* An elector that leads, and whose clock says that its lease has more than
\* the skew left, has the document: no clock that is ahead, late answer,
\* TTL index or earlier Resign takes it.
LeaderHoldsDocument ==
  \A e \in Electors : el[e].owned /\ clock(e) + MaxSkew < known[e] => record.token = e

\* A live document of an elector is never forgotten: it leads, campaigns, or
\* refuses campaigns until a Resign has cleaned up.
NothingForgotten ==
  \A e \in Electors : record.token = e /\ record.until > clock(e) =>
    el[e].owned \/ el[e].cleanup \/ el[e].pc \in {"acquire", "sleep"}

Record == INSTANCE LeaderRecord WITH
  Owners <- Electors, Skew <- MaxSkew, owner <- record.token, leaseUntil <- record.until

\* Every step of the document is one the conformance suite's record allows, to
\* clients whose clocks are late or ahead by up to the skew.
RecordStep == Record!Next \/ UNCHANGED Record!vars

-----------------------------------------------------------------------------
CONSTANTS Members, MaxLeaders, SlotStart, MaxDelay

\* now, skew: the server's clock, and how far ahead each process is.
\* record: the slot documents.
\* el: per member: owned, slot, its renewal loop, and where its caller is.
\* known: history: the end of the lease the member was last told of.

(***************************************************************************)
(* leader/mongo, GroupElector: one document per slot.  Each member is used  *)
(* by one goroutine, whose Resign waits for the renewal loop.  The process  *)
(* clocks are ahead of the server's by up to MaxSkew.                       *)
(***************************************************************************)

Slots == 0..(MaxLeaders - 1)
NoDocGroup == [token |-> NoOwner, until |-> 0]
Member == [owned : BOOLEAN, slot : Slots \cup {-1}, cancelled : BOOLEAN, loop : {"none", "waiting", "renewing", "stopped"},
           pc : {"idle", "acquire", "sleep", "join", "delete"}, offset : 0..MaxLeaders, renewAt : Nat, held : Slots \cup {-1}]

TypeOKGroup ==
  /\ now \in 0..MaxNow /\ skew \in [Members -> 0..MaxSkew]
  /\ record \in [Slots -> [token : Members \cup {NoOwner}, until : Nat]]
  /\ el \in [Members -> Member]
  /\ known \in [Members -> Nat]

InitGroup ==
  /\ now = 0 /\ skew \in [Members -> 0..MaxSkew]
  /\ record = [s \in Slots |-> NoDocGroup]
  /\ el = [m \in Members |-> [owned |-> FALSE, slot |-> -1, cancelled |-> FALSE, loop |-> "none",
                                  pc |-> "idle", offset |-> 0, renewAt |-> 0, held |-> -1]]
  /\ known = [m \in Members |-> 0]

clockGroup(m) == now + skew[m]

\* What the clock said when it was read, at most MaxDelay before the command.
Readings(m) == {t \in (clockGroup(m) - MaxDelay)..clockGroup(m) : t >= skew[m]}

TickGroup == now < MaxNow /\ now' = now + 1 /\ UNCHANGED <<skew, record, el, known>>

\* The TTL index removes an expired slot some time later.
ExpireGroup(s) ==
  /\ record[s] # NoDocGroup /\ record[s].until <= now
  /\ record' = [record EXCEPT ![s] = NoDocGroup]
  /\ UNCHANGED <<now, skew, el, known>>

beginCampaignGroup(m) ==
  /\ el[m].pc = "idle" /\ ~el[m].owned
  /\ el' = [el EXCEPT ![m].pc = "acquire", ![m].offset = 0]
  /\ UNCHANGED <<now, skew, record, known>>

\* The slots in the order tryAcquireSlot visits them.
slotAt(m) == (SlotStart[m] + el[m].offset) % MaxLeaders

\* A mutant filter, which compares with the end of the lease it is about to take.
FilterNewLease(m, s, t) == record[s].token \in {NoOwner, m} \/ record[s].until <= t + Lease

\* The filter of tryAcquireSpecificSlot.
FilterGroup(m, s, t) == record[s].token \in {NoOwner, m} \/ record[s].until <= t

LeasedGroup(m, t) == [token |-> m, until |-> t + Lease]

\* tryAcquireSpecificSlot on the next slot; startRenewal after a success.
tryAcquireSlot(m) ==
  LET s == slotAt(m) IN \E t \in Readings(m) :
  /\ el[m].pc = "acquire" /\ el[m].offset < MaxLeaders
  /\ IF FilterGroup(m, s, t)
     THEN /\ record' = [record EXCEPT ![s] = LeasedGroup(m, t)] /\ known' = [known EXCEPT ![m] = t + Lease]
          /\ el' = [el EXCEPT ![m] = [@ EXCEPT !.pc = "idle", !.owned = TRUE, !.slot = s, !.cancelled = FALSE,
                                                       !.loop = "waiting", !.offset = 0]]
     ELSE el' = [el EXCEPT ![m].offset = @ + 1] /\ UNCHANGED <<record, known>>
  /\ UNCHANGED <<now, skew>>

\* The command fails, applied or not: Campaign returns the error.
acquireError(m) ==
  LET s == slotAt(m) IN \E t \in Readings(m) :
  /\ el[m].pc = "acquire" /\ el[m].offset < MaxLeaders
  /\ \/ FilterGroup(m, s, t) /\ record' = [record EXCEPT ![s] = LeasedGroup(m, t)]
     \/ UNCHANGED record
  /\ el' = [el EXCEPT ![m].pc = "idle", ![m].offset = 0]
  /\ UNCHANGED <<now, skew, known>>

\* Every slot was taken: the next round, or the context ends.
sleepContextGroup(m) ==
  /\ el[m].pc = "acquire" /\ el[m].offset = MaxLeaders
  /\ \E pc \in {"acquire", "idle"} : el' = [el EXCEPT ![m].pc = pc, ![m].offset = 0]
  /\ UNCHANGED <<now, skew, record, known>>

\* The loop reads its slot and the clock, or finds its context cancelled.
renewLoopGroup(m) ==
  /\ el[m].loop = "waiting"
  /\ \/ ~el[m].cancelled /\ el' = [el EXCEPT ![m].loop = "renewing", ![m].renewAt = clockGroup(m), ![m].held = el[m].slot]
     \/ el[m].cancelled /\ el' = [el EXCEPT ![m].loop = "stopped"]
  /\ UNCHANGED <<now, skew, record, known>>

clearOwnershipAfterLossGroup(m) ==
  /\ el' = [el EXCEPT ![m].owned = FALSE, ![m].slot = -1, ![m].loop = "none", ![m].renewAt = 0, ![m].held = -1]
  /\ known' = [known EXCEPT ![m] = 0]

HoldsGroup(m) == record[el[m].held].token = m /\ record[el[m].held].until > el[m].renewAt

renewGroup(m) ==
  /\ el[m].loop = "renewing"
  /\ IF HoldsGroup(m)
     THEN /\ record' = [record EXCEPT ![el[m].held] = LeasedGroup(m, el[m].renewAt)]
          /\ known' = [known EXCEPT ![m] = IF el[m].owned THEN el[m].renewAt + Lease ELSE 0]
          /\ el' = [el EXCEPT ![m].loop = "waiting", ![m].renewAt = 0, ![m].held = -1]
     ELSE clearOwnershipAfterLossGroup(m) /\ UNCHANGED record
  /\ UNCHANGED <<now, skew>>

renewError(m) ==
  /\ el[m].loop = "renewing"
  /\ \/ HoldsGroup(m) /\ record' = [record EXCEPT ![el[m].held] = LeasedGroup(m, el[m].renewAt)]
     \/ UNCHANGED record
  /\ clearOwnershipAfterLossGroup(m)
  /\ UNCHANGED <<now, skew>>

\* clearOwnership; offset keeps the slot to delete.
clearOwnershipGroup(m) ==
  /\ el[m].pc = "idle" /\ el[m].owned
  /\ el' = [el EXCEPT ![m].owned = FALSE, ![m].slot = -1, ![m].cancelled = TRUE, ![m].pc = "join",
                              ![m].offset = el[m].slot]
  /\ known' = [known EXCEPT ![m] = 0]
  /\ UNCHANGED <<now, skew, record>>

JoinGroup(m) ==
  /\ el[m].pc = "join" /\ el[m].loop \in {"none", "stopped"}
  /\ el' = [el EXCEPT ![m].pc = "delete", ![m].loop = "none"]
  /\ UNCHANGED <<now, skew, record, known>>

WithoutGroup(m, s) == [record EXCEPT ![s] = IF @.token = m THEN NoDocGroup ELSE @]

\* DeleteOne, which may fail.
ResignGroup(m) ==
  /\ el[m].pc = "delete"
  /\ record' \in {record, WithoutGroup(m, el[m].offset)}
  /\ el' = [el EXCEPT ![m].pc = "idle", ![m].offset = 0]
  /\ UNCHANGED <<now, skew, known>>

StepGroup(m) ==
  \/ beginCampaignGroup(m) \/ tryAcquireSlot(m) \/ acquireError(m) \/ sleepContextGroup(m)
  \/ renewLoopGroup(m) \/ renewGroup(m) \/ renewError(m) \/ clearOwnershipGroup(m) \/ JoinGroup(m) \/ ResignGroup(m)

NextGroup == TickGroup \/ (\E s \in Slots : ExpireGroup(s)) \/ \E m \in Members : StepGroup(m)

SpecGroup == InitGroup /\ [][NextGroup]_vars

-----------------------------------------------------------------------------

\* A member that leads, and whose clock says that its lease has more than the
\* skew left, has the document of its slot; so no two such members share one,
\* and there are at most MaxLeaders of them.
LeaderHoldsSlot ==
  \A m \in Members : el[m].owned /\ clockGroup(m) + MaxSkew < known[m] => record[el[m].slot].token = m

=============================================================================

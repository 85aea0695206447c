-------------------------- MODULE DynamoLeaderProofs --------------------------
(***************************************************************************)
(* What leader/dynamodb promises, proved for any electors, resigners,       *)
(* lease, skew and delay.  The inductive invariant says of each elector how *)
(* its fields, its loop, its Campaign and its calls of Resign fit together  *)
(* and what the item can be.  A step of an elector has one of eight         *)
(* outcomes (PcMoves .. Finishes), each of which keeps it, and what it does *)
(* to the item (RecordStep) disturbs no other elector (OthersKeep).         *)
(***************************************************************************)
EXTENDS DynamoLeader, TLAPS

\* What the constants must be: no elector has the owner of a missing item.
DynamoAssumption ==
  /\ NoOwner \notin Electors
  /\ Lease \in Nat /\ MaxSkew \in Nat /\ MaxDelay \in Nat /\ MaxNow \in Nat /\ MaxGenerations \in Nat

\* The steps of a Campaign that is not over.
Trying == {"put", "takeover", "retry", "fail", "sleep"}
Loops == {"none", "waiting", "renewing", "probing"}
Fields == [owned : BOOLEAN, cleanup : BOOLEAN, resigning : Nat, resolved : BOOLEAN,
           generation : 0..MaxGenerations, handle : BOOLEAN, cancelled : BOOLEAN]
Calls == [at : {"idle", "join", "delete", "probe"}, generation : 0..MaxGenerations]

ServerTypes ==
  /\ now \in 0..MaxNow /\ skew \in [Electors -> 0..MaxSkew]
  /\ record \in [owner : Electors \cup {NoOwner}, lease : Nat]
FieldTypes == el \in [Electors -> Fields]
LoopTypes == loop \in [Electors -> Loops]
StepTypes == pc \in [Electors -> Trying \cup {"idle", "started"}]
KnownTypes == known \in [Electors -> Nat]
CallTypes ==
  /\ call = [e \in Electors |-> call[e]]
  /\ \A e \in Electors : call[e] \in [Resigners[e] -> Calls]
Types == ServerTypes /\ FieldTypes /\ LoopTypes /\ StepTypes /\ KnownTypes /\ CallTypes

\* The calls of Resign that have not ended.
UnderWay(e) == {r \in Resigners[e] : call[e][r] # Idle}

\* A campaign that has not succeeded runs alone: no leader, no cleanup, no loop.
Campaigning(e) == pc[e] \in Trying => ~el[e].owned /\ ~el[e].cleanup /\ loop[e] = "none"
\* While a Resign is under way the elector does not lead and refuses campaigns.
Resigning(e) == el[e].resigning > 0 => ~el[e].owned /\ el[e].cleanup
\* A loop runs for a leader, or for one whose cleanup is pending.
Looping(e) == loop[e] # "none" => el[e].owned \/ el[e].cleanup
\* A Resign belongs to the current generation, and deletes after the loop has ended.
Resigns(e) ==
  \A r \in Resigners[e] :
    /\ call[e][r] # Idle => call[e][r].generation = el[e].generation
    /\ call[e][r].at = "idle" => call[e][r] = Idle
    /\ call[e][r].at \in {"delete", "probe"} => loop[e] = "none"
\* Once one of the calls of Resign has resolved the cleanup, no live item is left and none can appear.
Resolved(e) == el[e].resolved => el[e].resigning > 0 /\ loop[e] = "none" /\ ~confirmed(e)
\* The counter counts the calls of Resign that are under way.
Counted(e) == IsFiniteSet(UnderWay(e)) /\ el[e].resigning = Cardinality(UnderWay(e))
\* LeaderHoldsItem, with the lease of the item, which a takeover compares with a clock at most MaxSkew ahead.
Holds(e) == el[e].owned /\ clock(e) + MaxSkew < known[e] => record.owner = e /\ record.lease >= known[e]
\* NothingForgotten, with the steps of a campaign at which a live item may be the elector's: before a probe only.
Remembers(e) == confirmed(e) => el[e].owned \/ el[e].cleanup \/ pc[e] \in {"fail", "retry"}

Own(e) ==
  /\ Campaigning(e) /\ Resigning(e) /\ Looping(e) /\ Resigns(e)
  /\ Resolved(e) /\ Counted(e) /\ Holds(e) /\ Remembers(e)

IInv == Types /\ \A e \in Electors : Own(e)

-----------------------------------------------------------------------------

\* Nothing but the item changes for the electors other than e.
Others(e) ==
  \A x \in Electors \ {e} :
    el'[x] = el[x] /\ loop'[x] = loop[x] /\ pc'[x] = pc[x] /\ known'[x] = known[x] /\ call'[x] = call[x]

\* A step of e leaves the item alone, deletes its own, or writes its own into a free place.
RecordStep(e) ==
  \/ record' = record
  \/ record' = NoItem /\ record.owner = e
  \/ \E t \in Readings(e) : record' = Leased(e, t) /\ (record = NoItem \/ record.lease <= t \/ record.owner = e)

\* A clock reading is not ahead of the process clock, nor that of true time by more than the skew.
LEMMA ReadingsAre ==
  ASSUME DynamoAssumption, ServerTypes, KnownTypes, NEW e \in Electors, NEW t \in Readings(e)
  PROVE  /\ t \in Nat /\ t <= clock(e) /\ t + Lease >= known[e]
         /\ clock(e) \in Nat /\ clock(e) <= now + MaxSkew /\ now <= clock(e)
  <1>1. now \in Nat /\ skew[e] \in Nat /\ skew[e] <= MaxSkew /\ MaxDelay \in Nat /\ Lease \in Nat /\ MaxSkew \in Nat
    BY DEF DynamoAssumption, ServerTypes
  <1>2. clock(e) = now + skew[e]
    BY Zenon DEF clock
  <1>3. t \in (clock(e) - MaxDelay)..clock(e) /\ t >= skew[e] /\ t + Lease >= known[e]
    BY Zenon DEF Readings
  <1> QED BY <1>1, <1>2, <1>3

\* The fields of e are s[e], with these values, and those of the others stay.
Shape(e, s, o, c, n, d) ==
  /\ s \in [Electors -> Fields] /\ \A x \in Electors \ {e} : s[x] = el[x]
  /\ s[e].owned = o /\ s[e].cleanup = c /\ s[e].resigning = n /\ s[e].resolved = d

\* The fields of e after a step that leaves them alone.
LEMMA SameFields ==
  ASSUME Types, NEW e \in Electors, el' = el
  PROVE  Shape(e, el', el[e].owned, el[e].cleanup, el[e].resigning, el[e].resolved)
  BY Zenon DEF Types, FieldTypes, Shape

\* ... after markCleanupPending.
LEMMA MarkFields ==
  ASSUME Types, NEW e \in Electors, NEW s, s = markCleanupPending(e)
  PROVE  Shape(e, s, FALSE, TRUE, el[e].resigning, el[e].resolved) /\ s[e].generation = el[e].generation
  <1> DEFINE c == el[e].cancelled \/ el[e].handle
             v == [el[e] EXCEPT !.owned = FALSE, !.cleanup = TRUE, !.cancelled = c]
  <1>1. el \in [Electors -> Fields] /\ c \in BOOLEAN
    BY Zenon DEF Types, FieldTypes
  <1>2. s = [el EXCEPT ![e].owned = FALSE, ![e].cleanup = TRUE, ![e].cancelled = c]
    BY <1>1, Zenon DEF markCleanupPending, Fields
  <1> HIDE DEF c
  <1>3. s = [el EXCEPT ![e] = v]
    BY <1>2, Zenon
  <1>4. v \in Fields
    BY <1>1, Zenon DEF Fields
  <1>5. /\ v.owned = FALSE /\ v.cleanup = TRUE /\ v.resigning = el[e].resigning /\ v.resolved = el[e].resolved
        /\ v.generation = el[e].generation
    BY <1>1, Zenon DEF Fields
  <1> HIDE DEF v
  <1> QED BY <1>1, <1>3, <1>4, <1>5, Zenon DEF Shape

\* ... after startRenewal.
LEMMA StartFields ==
  ASSUME DynamoAssumption, Types, NEW e \in Electors, startRenewal(e)
  PROVE  Shape(e, el', TRUE, FALSE, el[e].resigning, el[e].resolved)
  <1> DEFINE g == el[e].generation + 1
             v == [el[e] EXCEPT !.generation = g, !.owned = TRUE, !.cleanup = FALSE, !.handle = TRUE, !.cancelled = FALSE]
  <1>1. el \in [Electors -> Fields]
    BY Zenon DEF Types, FieldTypes
  <1>2. g \in 0..MaxGenerations
    BY <1>1 DEF startRenewal, Fields, DynamoAssumption
  <1>3. el' = [el EXCEPT ![e].generation = g, ![e].owned = TRUE, ![e].cleanup = FALSE,
                         ![e].handle = TRUE, ![e].cancelled = FALSE]
    BY <1>1, Zenon DEF startRenewal, Fields
  <1> HIDE DEF g
  <1>4. el' = [el EXCEPT ![e] = v]
    BY <1>3, Zenon
  <1>5. v \in Fields
    BY <1>1, <1>2, Zenon DEF Fields
  <1>6. v.owned = TRUE /\ v.cleanup = FALSE /\ v.resigning = el[e].resigning /\ v.resolved = el[e].resolved
    BY <1>1, Zenon DEF Fields
  <1> HIDE DEF v
  <1> QED BY <1>1, <1>4, <1>5, <1>6, Zenon DEF Shape

\* ... after clearOwnership.
LEMMA ResignFields ==
  ASSUME Types, NEW e \in Electors, NEW r \in Resigners[e], clearOwnership(e, r)
  PROVE  Shape(e, el', FALSE, TRUE, el[e].resigning + 1, el[e].resolved) /\ el'[e].generation = el[e].generation
  <1> DEFINE c == el[e].cancelled \/ el[e].handle
             n == el[e].resigning + 1
             v == [el[e] EXCEPT !.owned = FALSE, !.cleanup = TRUE, !.resigning = n, !.cancelled = c]
  <1>1. el \in [Electors -> Fields] /\ c \in BOOLEAN /\ n \in Nat
    BY DEF Types, FieldTypes, Fields
  <1>2. el' = [el EXCEPT ![e].owned = FALSE, ![e].cleanup = TRUE, ![e].resigning = n, ![e].cancelled = c]
    BY <1>1, Zenon DEF clearOwnership, Fields
  <1>n. n = el[e].resigning + 1
    BY Zenon
  <1> HIDE DEF c, n
  <1>3. el' = [el EXCEPT ![e] = v]
    BY <1>2, Zenon
  <1>4. v \in Fields
    BY <1>1, Zenon DEF Fields
  <1>5. /\ v.owned = FALSE /\ v.cleanup = TRUE /\ v.resigning = n /\ v.resolved = el[e].resolved
        /\ v.generation = el[e].generation
    BY <1>1, Zenon DEF Fields
  <1> HIDE DEF v
  <1> QED BY <1>1, <1>n, <1>3, <1>4, <1>5, Zenon DEF Shape

\* ... after clearOwnershipAfterLoss.
LEMMA LossFields ==
  ASSUME Types, NEW e \in Electors, NEW cleanup \in BOOLEAN, clearOwnershipAfterLoss(e, cleanup)
  PROVE  /\ Shape(e, el', FALSE, cleanup \/ el[e].resigning > 0, el[e].resigning, el[e].resolved)
         /\ el'[e].generation = el[e].generation
  <1> DEFINE c == cleanup \/ el[e].resigning > 0
             h == el[e].handle /\ el[e].resigning > 0
             v == [el[e] EXCEPT !.owned = FALSE, !.cleanup = c, !.handle = h]
  <1>1. el \in [Electors -> Fields] /\ c \in BOOLEAN /\ h \in BOOLEAN
    BY Zenon DEF Types, FieldTypes
  <1>2. el' = [el EXCEPT ![e].owned = FALSE, ![e].cleanup = c, ![e].handle = h]
    BY <1>1, Zenon DEF clearOwnershipAfterLoss, Fields
  <1>c. c = (cleanup \/ el[e].resigning > 0)
    BY Zenon
  <1> HIDE DEF c, h
  <1>3. el' = [el EXCEPT ![e] = v]
    BY <1>2, Zenon
  <1>4. v \in Fields
    BY <1>1, Zenon DEF Fields
  <1>5. /\ v.owned = FALSE /\ v.cleanup = c /\ v.resigning = el[e].resigning /\ v.resolved = el[e].resolved
        /\ v.generation = el[e].generation
    BY <1>1, Zenon DEF Fields
  <1> HIDE DEF v
  <1> QED BY <1>1, <1>c, <1>3, <1>4, <1>5, Zenon DEF Shape

\* finishResign's resolution of all the calls so far, and whether the last of them ends the cleanup.
All(e, resolved) == el[e].resolved \/ resolved
Over(e, resolved) == el[e].resigning = 1 /\ All(e, resolved)

\* ... after a finishResign that is not stale.
LEMMA FinishFields ==
  ASSUME Types, NEW e \in Electors, NEW r \in Resigners[e], NEW resolved \in BOOLEAN, NEW s,
         Shape(e, s, FALSE, TRUE, el[e].resigning, el[e].resolved), s[e].generation = el[e].generation,
         el[e].resigning > 0, call[e][r].generation = el[e].generation,
         finishResign(e, r, resolved, s)
  PROVE  /\ Shape(e, el', FALSE, ~Over(e, resolved), el[e].resigning - 1, All(e, resolved) /\ ~Over(e, resolved))
         /\ el'[e].generation = el[e].generation
         /\ call' = [call EXCEPT ![e][r] = Idle]
  <1> DEFINE all == All(e, resolved)
             over == Over(e, resolved)
             m == s[e].resigning - 1
             d == all /\ ~over
             k == s[e].cleanup /\ ~over
             h == s[e].handle /\ ~over
             v == [s[e] EXCEPT !.resigning = m, !.resolved = d, !.cleanup = k, !.handle = h]
  <1>1. s \in [Electors -> Fields] /\ el[e] \in Fields
    BY Zenon DEF Types, FieldTypes, Shape
  <1>2. el[e].resigning \in Nat /\ s[e].resigning = el[e].resigning /\ s[e].cleanup = TRUE /\ s[e].owned = FALSE
    BY <1>1, Zenon DEF Fields, Shape
  <1>3. m \in Nat /\ d \in BOOLEAN /\ k \in BOOLEAN /\ h \in BOOLEAN /\ m = el[e].resigning - 1 /\ k = ~over
    BY <1>2
  <1>4. el' = [s EXCEPT ![e].resigning = m, ![e].resolved = d, ![e].cleanup = k, ![e].handle = h]
    <2>1. ~(el[e].generation # call[e][r].generation \/ el[e].resigning = 0)
      BY <1>2
    <2>2. el' = [s EXCEPT ![e].resigning = @ - 1, ![e].resolved = all /\ ~over, ![e].cleanup = @ /\ ~over, ![e].handle = @
          /\ ~over]
      BY <2>1, Zenon DEF finishResign, All, Over
    <2> QED BY <2>2, <1>1, Zenon DEF Fields
  <1>5. call' = [call EXCEPT ![e][r] = Idle]
    BY Zenon DEF finishResign
  <1>d. d = (All(e, resolved) /\ ~Over(e, resolved)) /\ k = ~Over(e, resolved)
    BY <1>3, Zenon
  <1> HIDE DEF all, over, m, d, k, h
  <1>6. el' = [s EXCEPT ![e] = v]
    BY <1>4, Zenon
  <1>7. v \in Fields
    BY <1>1, <1>3, Zenon DEF Fields
  <1>8. /\ v.owned = s[e].owned /\ v.cleanup = k /\ v.resigning = m /\ v.resolved = d
        /\ v.generation = s[e].generation
    BY <1>1, Zenon DEF Fields
  <1> HIDE DEF v
  <1>9. /\ el' \in [Electors -> Fields] /\ (\A x \in Electors \ {e} : el'[x] = s[x]) /\ el'[e] = v
    BY <1>1, <1>6, <1>7, Zenon
  <1> QED BY <1>2, <1>d, <1>3, <1>5, <1>8, <1>9, Zenon DEF Shape

\* An assignment to one call of Resign.
LEMMA CallChange ==
  ASSUME CallTypes, NEW e \in Electors, NEW r \in Resigners[e], NEW v \in Calls,
         call' = [call EXCEPT ![e] = [call[e] EXCEPT ![r] = v]]
  PROVE  /\ CallTypes'
         /\ call'[e][r] = v
         /\ \A s \in Resigners[e] \ {r} : call'[e][s] = call[e][s]
         /\ \A x \in Electors \ {e} : call'[x] = call[x]
  BY Zenon DEF CallTypes

\* The types of the calls depend on the calls only.
LEMMA CallKept ==
  ASSUME CallTypes, call' = call
  PROVE  CallTypes'
  BY Zenon DEF CallTypes

\* The loop, the step of Campaign and the lease e was told of become l, p and k.
Moved(e, l, p, k) ==
  loop' = [loop EXCEPT ![e] = l] /\ pc' = [pc EXCEPT ![e] = p] /\ known' = [known EXCEPT ![e] = k]

\* The effect of such a step.
LEMMA MovedTypes ==
  ASSUME Types, NEW e \in Electors, NEW l \in Loops, NEW p \in Trying \cup {"idle", "started"}, NEW k \in Nat,
         Moved(e, l, p, k)
  PROVE  /\ LoopTypes' /\ StepTypes' /\ KnownTypes'
         /\ loop'[e] = l /\ pc'[e] = p /\ known'[e] = k
         /\ \A x \in Electors \ {e} : loop'[x] = loop[x] /\ pc'[x] = pc[x] /\ known'[x] = known[x]
  BY Zenon DEF Types, LoopTypes, StepTypes, KnownTypes, Moved

\* The item stays an item.
LEMMA RecordTypes ==
  ASSUME DynamoAssumption, Types, NEW e \in Electors, RecordStep(e), UNCHANGED <<now, skew>>
  PROVE  ServerTypes'
  <1>1. CASE record' = record
    BY <1>1, Zenon DEF Types, ServerTypes
  <1>2. CASE record' = NoItem
    BY <1>2, Zenon DEF Types, ServerTypes, NoItem
  <1>3. ASSUME NEW t \in Readings(e), record' = Leased(e, t) PROVE ServerTypes'
    <2>1. t \in Nat /\ Lease \in Nat
      BY ReadingsAre, Zenon DEF Types, DynamoAssumption
    <2> QED BY <2>1, <1>3 DEF Types, ServerTypes, Leased
  <1> QED BY <1>1, <1>2, <1>3, Zenon DEF RecordStep

\* Another elector's step on the item disturbs none of the facts about x.
LEMMA OthersKeep ==
  ASSUME DynamoAssumption, Types, NEW e \in Electors, NEW x \in Electors \ {e}, Own(x),
         Others(e), RecordStep(e), UNCHANGED <<now, skew>>
  PROVE  Own(x)'
  <1>1. /\ el'[x] = el[x] /\ loop'[x] = loop[x] /\ pc'[x] = pc[x] /\ known'[x] = known[x] /\ call'[x] = call[x]
        /\ clock(x)' = clock(x)
    BY Zenon DEF Others, clock
  <1>2. Campaigning(x)' /\ Resigning(x)' /\ Looping(x)' /\ Resigns(x)' /\ Counted(x)'
    BY <1>1, Zenon DEF Own, Campaigning, Resigning, Looping, Resigns, Counted, UnderWay, Idle
  <1>3. record'.owner = x => record' = record
    BY DEF RecordStep, Leased, NoItem, DynamoAssumption
  <1>4. confirmed(x)' => confirmed(x)
    BY <1>1, <1>3, Zenon DEF confirmed
  <1>5. Resolved(x)' /\ Remembers(x)'
    BY <1>1, <1>4, Zenon DEF Own, Resolved, Remembers
  <1>6. Holds(x)'
    <2> SUFFICES ASSUME el[x].owned, clock(x) + MaxSkew < known[x]
                 PROVE  record'.owner = x /\ record'.lease >= known[x]
      BY <1>1, Zenon DEF Holds
    <2>1. record.owner = x /\ record.lease >= known[x]
      BY Zenon DEF Own, Holds
    <2>2. /\ now \in Nat /\ skew[x] \in Nat /\ MaxSkew \in Nat /\ known[x] \in Nat /\ record.lease \in Nat
          /\ clock(x) = now + skew[x]
      BY DEF Types, ServerTypes, KnownTypes, DynamoAssumption, clock
    <2>3. record' = record
      <3>1. ASSUME NEW t \in Readings(e) PROVE ~(record = NoItem \/ record.lease <= t \/ record.owner = e)
        <4>1. t \in Nat /\ t <= clock(e) /\ clock(e) \in Nat /\ clock(e) <= now + MaxSkew
          BY ReadingsAre, Zenon DEF Types
        <4> QED BY <4>1, <2>1, <2>2 DEF NoItem, DynamoAssumption
      <3> QED BY <3>1, <2>1, Zenon DEF RecordStep
    <2> QED BY <2>1, <2>3, Zenon
  <1> QED BY <1>2, <1>5, <1>6, Zenon DEF Own

-----------------------------------------------------------------------------

\* What a step of e must do to keep the invariant.
Good(e) == Types' /\ Others(e) /\ RecordStep(e) /\ UNCHANGED <<now, skew>> /\ Own(e)'

\* The types after a step, and that it is a step of e.
LEMMA GoodTypes ==
  ASSUME DynamoAssumption, Types, NEW e \in Electors, RecordStep(e), UNCHANGED <<now, skew>>,
         FieldTypes', \A x \in Electors \ {e} : el'[x] = el[x],
         NEW l \in Loops, NEW p \in Trying \cup {"idle", "started"}, NEW k \in Nat, Moved(e, l, p, k),
         CallTypes', \A x \in Electors \ {e} : call'[x] = call[x]
  PROVE  Types' /\ Others(e) /\ loop'[e] = l /\ pc'[e] = p /\ known'[e] = k
  <1>1. ServerTypes'
    BY RecordTypes, Zenon
  <1>3. /\ LoopTypes' /\ StepTypes' /\ KnownTypes'
        /\ loop'[e] = l /\ pc'[e] = p /\ known'[e] = k
        /\ \A x \in Electors \ {e} : loop'[x] = loop[x] /\ pc'[x] = pc[x] /\ known'[x] = known[x]
    BY MovedTypes, Zenon
  <1>4. Types'
    BY <1>1, <1>3, Zenon DEF Types
  <1>5. Others(e)
    BY <1>3, Zenon DEF Others
  <1> QED BY <1>3, <1>4, <1>5, Zenon

\* The facts about cardinalities the counter rests on, which the module
\* FiniteSetTheorems proves (CountFactsHold of DynamoLeaderProofs).
EmptyCount == IsFiniteSet({}) /\ Cardinality({}) = 0
NatCount == \A S : IsFiniteSet(S) => Cardinality(S) \in Nat /\ (Cardinality(S) = 0 => S = {})
AddCount ==
  \A S, x : IsFiniteSet(S) /\ x \notin S =>
    IsFiniteSet(S \cup {x}) /\ Cardinality(S \cup {x}) = Cardinality(S) + 1
RemoveCount ==
  \A S, x : IsFiniteSet(S) /\ x \in S =>
    IsFiniteSet(S \ {x}) /\ Cardinality(S \ {x}) = Cardinality(S) - 1
CountFacts == EmptyCount /\ NatCount /\ AddCount /\ RemoveCount

\* The counter stays right if the calls and the counter stay.
LEMMA CountKept ==
  ASSUME NEW e \in Electors, Counted(e), call'[e] = call[e], el'[e].resigning = el[e].resigning
  PROVE  Counted(e)'
  BY Zenon DEF Counted, UnderWay, Idle

\* A call of Resign that is under way is counted.
LEMMA Busy ==
  ASSUME CountFacts, Types, NEW e \in Electors, Counted(e), NEW r \in Resigners[e], call[e][r] # Idle
  PROVE  el[e].resigning > 0
  <1>1. r \in UnderWay(e) /\ IsFiniteSet(UnderWay(e)) /\ el[e].resigning = Cardinality(UnderWay(e))
    BY Zenon DEF UnderWay, Counted
  <1>2. Cardinality(UnderWay(e)) \in Nat /\ (Cardinality(UnderWay(e)) = 0 => UnderWay(e) = {})
    BY <1>1, Zenon DEF CountFacts, NatCount
  <1> QED BY <1>1, <1>2

\* A campaign under way meets no Resign and no loop.
LEMMA NoResign ==
  ASSUME CountFacts, Types, NEW e \in Electors, Own(e), ~el[e].owned, ~el[e].cleanup
  PROVE  /\ el[e].resigning = 0 /\ ~el[e].resolved /\ loop[e] = "none"
         /\ \A r \in Resigners[e] : call[e][r] = Idle
  <1>1. el[e].resigning \in Nat
    BY Zenon DEF Types, FieldTypes, Fields
  <1>2. el[e].resigning = 0
    BY <1>1 DEF Own, Resigning
  <1>3. ~el[e].resolved /\ loop[e] = "none"
    BY <1>2 DEF Own, Resolved, Looping
  <1>4. ASSUME NEW r \in Resigners[e], call[e][r] # Idle PROVE FALSE
    BY <1>2, <1>4, Busy DEF Own
  <1> QED BY <1>2, <1>3, <1>4, Zenon

\* Campaign moves on: the item may be written only on the way to a probe.
LEMMA PcMoves ==
  ASSUME DynamoAssumption, CountFacts, Types, NEW e \in Electors, Own(e),
         NEW p \in Trying \cup {"idle", "started"}, pc' = [pc EXCEPT ![e] = p],
         UNCHANGED <<now, skew, el, loop, call, known>>, RecordStep(e),
         p \in Trying => ~el[e].owned /\ ~el[e].cleanup,
         record' = record \/ pc[e] \in Trying,
         confirmed(e)' => el[e].owned \/ el[e].cleanup \/ p \in {"fail", "retry"}
  PROVE  Good(e)
  <1>1. Shape(e, el', el[e].owned, el[e].cleanup, el[e].resigning, el[e].resolved)
    BY SameFields, Zenon
  <1>2. loop[e] \in Loops /\ known[e] \in Nat /\ Moved(e, loop[e], p, known[e])
    BY Zenon DEF Types, LoopTypes, KnownTypes, Moved
  <1>3. CallTypes' /\ call' = call /\ \A x \in Electors \ {e} : call'[x] = call[x]
    BY CallKept, Zenon DEF Types
  <1>s. FieldTypes' /\ \A x \in Electors \ {e} : el'[x] = el[x]
    BY <1>1, Zenon DEF Shape, FieldTypes
  <1>4. Types' /\ Others(e) /\ el' = el /\ loop' = loop /\ known' = known /\ pc'[e] = p
    BY <1>s, <1>2, <1>3, GoodTypes, Zenon
  <1>5. Campaigning(e)' /\ Resigning(e)' /\ Looping(e)'
    BY <1>4, NoResign, ZenonT(40) DEF Own, Campaigning, Resigning, Looping
  <1>6. Resigns(e)' /\ Counted(e)'
    BY <1>3, <1>4, CountKept, Zenon DEF Own, Resigns, Idle
  <1>7. Resolved(e)' /\ Holds(e)'
    <2>1. CASE record' = record
      BY <1>4, <2>1, Zenon DEF Own, Resolved, Holds, confirmed, clock
    <2>2. CASE pc[e] \in Trying
      <3>1. ~el[e].owned /\ ~el[e].resolved
        BY <2>2, NoResign, Zenon DEF Own, Campaigning
      <3> QED BY <3>1, <1>4, Zenon DEF Resolved, Holds
    <2> QED BY <2>1, <2>2, Zenon
  <1>8. Remembers(e)'
    BY <1>4, Zenon DEF Remembers
  <1> QED BY <1>4, <1>5, <1>6, <1>7, <1>8, Zenon DEF Good, Own

\* Campaign becomes the leader.
LEMMA Starts ==
  ASSUME DynamoAssumption, CountFacts, Types, NEW e \in Electors, Own(e), pc[e] \in Trying, startRenewal(e),
         UNCHANGED <<now, skew, call>>, RecordStep(e), record'.owner = e,
         known' = [known EXCEPT ![e] = record'.lease]
  PROVE  Good(e)
  <1>1. Shape(e, el', TRUE, FALSE, el[e].resigning, el[e].resolved)
    BY StartFields, Zenon
  <1>2. record'.lease \in Nat
    BY RecordTypes, Zenon DEF ServerTypes
  <1>3. /\ Moved(e, "waiting", "started", record'.lease)
        /\ "waiting" \in Loops /\ "started" \in Trying \cup {"idle", "started"}
    BY Zenon DEF startRenewal, Moved, At, Loops
  <1>4. CallTypes' /\ call' = call /\ \A x \in Electors \ {e} : call'[x] = call[x]
    BY CallKept, Zenon DEF Types
  <1>s. FieldTypes' /\ \A x \in Electors \ {e} : el'[x] = el[x]
    BY <1>1, Zenon DEF Shape, FieldTypes
  <1>v. el'[e].owned = TRUE /\ el'[e].cleanup = FALSE /\ el'[e].resigning = el[e].resigning
        /\ el'[e].resolved = el[e].resolved
    BY <1>1, Zenon DEF Shape
  <1>t. Types' /\ Others(e) /\ loop'[e] = "waiting" /\ pc'[e] = "started" /\ known'[e] = record'.lease
    BY <1>s, <1>2, <1>3, <1>4, GoodTypes
  <1>5. /\ Types' /\ Others(e)
        /\ el'[e].owned = TRUE /\ el'[e].cleanup = FALSE
        /\ el'[e].resigning = el[e].resigning /\ el'[e].resolved = el[e].resolved
        /\ loop'[e] = "waiting" /\ pc'[e] = "started" /\ known'[e] = record'.lease
    BY <1>v, <1>t, Zenon
  <1>6. el[e].resigning = 0 /\ ~el[e].resolved /\ \A r \in Resigners[e] : call[e][r] = Idle
    BY NoResign, Zenon DEF Own, Campaigning
  <1>7. Campaigning(e)' /\ Resigning(e)' /\ Looping(e)' /\ Resolved(e)' /\ Remembers(e)'
    BY <1>5, <1>6 DEF Campaigning, Resigning, Looping, Resolved, Remembers, Trying
  <1>8. Resigns(e)' /\ Counted(e)'
    BY <1>4, <1>5, <1>6, CountKept DEF Own, Resigns, Idle
  <1>9. Holds(e)'
    <2>1. record'.lease >= known'[e]
      BY <1>2, <1>5
    <2> QED BY <2>1, Zenon DEF Holds
  <1> QED BY <1>5, <1>7, <1>8, <1>9, Zenon DEF Good, Own

\* Campaign ends with an ambiguous outcome: markCleanupPending.
LEMMA Marks ==
  ASSUME DynamoAssumption, CountFacts, Types, NEW e \in Electors, Own(e), el' = markCleanupPending(e),
         pc' = [pc EXCEPT ![e] = "idle"], NEW k \in Nat, known' = [known EXCEPT ![e] = k],
         UNCHANGED <<now, skew, loop, call>>, RecordStep(e), record' = record \/ pc[e] \in Trying
  PROVE  Good(e)
  <1>1. Shape(e, el', FALSE, TRUE, el[e].resigning, el[e].resolved) /\ el'[e].generation = el[e].generation
    BY MarkFields, Zenon
  <1>2. loop[e] \in Loops /\ "idle" \in Trying \cup {"idle", "started"} /\ Moved(e, loop[e], "idle", k)
    BY Zenon DEF Types, LoopTypes, Moved
  <1>3. CallTypes' /\ call' = call /\ \A x \in Electors \ {e} : call'[x] = call[x]
    BY CallKept, Zenon DEF Types
  <1>s. FieldTypes' /\ \A x \in Electors \ {e} : el'[x] = el[x]
    BY <1>1, Zenon DEF Shape, FieldTypes
  <1>v. el'[e].owned = FALSE /\ el'[e].cleanup = TRUE /\ el'[e].resigning = el[e].resigning
        /\ el'[e].resolved = el[e].resolved
    BY <1>1, ZenonT(40) DEF Shape
  <1>t. Types' /\ Others(e) /\ loop'[e] = loop[e] /\ pc'[e] = "idle" /\ known'[e] = k
    BY <1>s, <1>2, <1>3, GoodTypes, ZenonT(40)
  <1>4. /\ Types' /\ Others(e)
        /\ el'[e].owned = FALSE /\ el'[e].cleanup = TRUE
        /\ el'[e].resigning = el[e].resigning /\ el'[e].resolved = el[e].resolved
        /\ loop'[e] = loop[e] /\ pc'[e] = "idle" /\ known'[e] = k
    BY <1>v, <1>t, Zenon
  <1>5. Campaigning(e)' /\ Resigning(e)' /\ Looping(e)' /\ Remembers(e)' /\ Holds(e)'
    BY <1>4, Zenon DEF Campaigning, Resigning, Looping, Remembers, Holds, Trying
  <1>6. Resigns(e)' /\ Counted(e)'
    BY <1>1, <1>3, <1>4, CountKept, Zenon DEF Own, Resigns, Idle
  <1>7. Resolved(e)'
    <2>1. CASE record' = record
      BY <1>4, <2>1, Zenon DEF Own, Resolved, confirmed, clock
    <2>2. CASE pc[e] \in Trying
      BY <1>4, <2>2, NoResign, Zenon DEF Own, Campaigning, Resolved
    <2> QED BY <2>1, <2>2, Zenon
  <1> QED BY <1>4, <1>5, <1>6, <1>7, Zenon DEF Good, Own

\* The renewal loop moves on, and may renew the item of e.
LEMMA LoopMoves ==
  ASSUME DynamoAssumption, CountFacts, Types, NEW e \in Electors, Own(e), loop[e] # "none",
         NEW l \in Loops, loop' = [loop EXCEPT ![e] = l], NEW k \in Nat, known' = [known EXCEPT ![e] = k],
         UNCHANGED <<now, skew, el, pc, call>>, RecordStep(e),
         el[e].owned /\ clock(e) + MaxSkew < k => record'.owner = e /\ record'.lease >= k
  PROVE  Good(e)
  <1>1. Shape(e, el', el[e].owned, el[e].cleanup, el[e].resigning, el[e].resolved)
    BY SameFields, Zenon
  <1>2. pc[e] \in Trying \cup {"idle", "started"} /\ Moved(e, l, pc[e], k)
    BY Zenon DEF Types, StepTypes, Moved
  <1>3. CallTypes' /\ call' = call /\ \A x \in Electors \ {e} : call'[x] = call[x]
    BY CallKept, Zenon DEF Types
  <1>s. FieldTypes' /\ \A x \in Electors \ {e} : el'[x] = el[x]
    BY <1>1, Zenon DEF Shape, FieldTypes
  <1>4. Types' /\ Others(e) /\ el' = el /\ loop'[e] = l /\ pc' = pc /\ known'[e] = k
    BY <1>s, <1>2, <1>3, GoodTypes, Zenon
  <1>5. /\ pc[e] \notin Trying /\ (el[e].owned \/ el[e].cleanup) /\ ~el[e].resolved
        /\ \A r \in Resigners[e] : call[e][r].at \notin {"delete", "probe"}
    BY Zenon DEF Own, Campaigning, Looping, Resolved, Resigns
  <1>6. Campaigning(e)' /\ Resigning(e)' /\ Looping(e)' /\ Resolved(e)' /\ Remembers(e)'
    BY <1>4, <1>5, ZenonT(40) DEF Own, Campaigning, Resigning, Looping, Resolved, Remembers
  <1>7. Resigns(e)' /\ Counted(e)'
    BY <1>3, <1>4, <1>5, CountKept, ZenonT(40) DEF Own, Resigns, Idle
  <1>8. Holds(e)'
    BY <1>4, Zenon DEF Holds, clock
  <1> QED BY <1>4, <1>6, <1>7, <1>8, Zenon DEF Good, Own

\* The renewal loop gives up the leadership.
LEMMA Loses ==
  ASSUME DynamoAssumption, CountFacts, Types, NEW e \in Electors, Own(e), loop[e] # "none",
         NEW cleanup \in BOOLEAN, clearOwnershipAfterLoss(e, cleanup), cleanup \/ ~confirmed(e),
         UNCHANGED <<now, skew, record, pc, call>>
  PROVE  Good(e)
  <1>1. /\ Shape(e, el', FALSE, cleanup \/ el[e].resigning > 0, el[e].resigning, el[e].resolved)
        /\ el'[e].generation = el[e].generation
    BY LossFields, Zenon
  <1>2. "none" \in Loops /\ pc[e] \in Trying \cup {"idle", "started"} /\ Moved(e, "none", pc[e], 0)
    BY Zenon DEF Types, StepTypes, Moved, clearOwnershipAfterLoss, Loops
  <1>3. CallTypes' /\ call' = call /\ \A x \in Electors \ {e} : call'[x] = call[x]
    BY CallKept, Zenon DEF Types
  <1>r. RecordStep(e)
    BY Zenon DEF RecordStep
  <1>s. FieldTypes' /\ \A x \in Electors \ {e} : el'[x] = el[x]
    BY <1>1, Zenon DEF Shape, FieldTypes
  <1>v. el'[e].owned = FALSE /\ el'[e].cleanup = (cleanup \/ el[e].resigning > 0) /\ el'[e].resigning = el[e].resigning
        /\ el'[e].resolved = el[e].resolved
    BY <1>1, Zenon DEF Shape
  <1>t. Types' /\ Others(e) /\ loop'[e] = "none" /\ pc'[e] = pc[e] /\ known'[e] = 0
    BY <1>s, <1>2, <1>3, <1>r, GoodTypes
  <1>4. /\ Types' /\ Others(e)
        /\ el'[e].owned = FALSE /\ el'[e].cleanup = (cleanup \/ el[e].resigning > 0)
        /\ el'[e].resigning = el[e].resigning /\ el'[e].resolved = el[e].resolved
        /\ loop'[e] = "none" /\ pc'[e] = pc[e] /\ known'[e] = 0
    BY <1>v, <1>t, Zenon
  <1>5. pc[e] \notin Trying /\ ~el[e].resolved
    BY Zenon DEF Own, Campaigning, Resolved
  <1>6. Campaigning(e)' /\ Resigning(e)' /\ Looping(e)' /\ Resolved(e)' /\ Holds(e)'
    BY <1>4, <1>5, ZenonT(40) DEF Own, Campaigning, Resigning, Looping, Resolved, Holds
  <1>7. Resigns(e)' /\ Counted(e)'
    BY <1>1, <1>3, <1>4, CountKept, Zenon DEF Own, Resigns, Idle
  <1>8. Remembers(e)'
    BY <1>4, Zenon DEF Remembers, confirmed, clock
  <1> QED BY <1>4, <1>6, <1>7, <1>8, <1>r, Zenon DEF Good, Own

\* A Resign begins.
LEMMA Clears ==
  ASSUME DynamoAssumption, CountFacts, Types, NEW e \in Electors, Own(e), NEW r \in Resigners[e], clearOwnership(e, r)
  PROVE  Good(e)
  <1> DEFINE v == [at |-> "join", generation |-> el[e].generation]
  <1>1. Shape(e, el', FALSE, TRUE, el[e].resigning + 1, el[e].resolved) /\ el'[e].generation = el[e].generation
    BY ResignFields, Zenon
  <1>s. FieldTypes' /\ \A x \in Electors \ {e} : el'[x] = el[x]
    BY <1>1, Zenon DEF Shape, FieldTypes
  <1>v. /\ el'[e].owned = FALSE /\ el'[e].cleanup = TRUE
        /\ el'[e].resigning = el[e].resigning + 1 /\ el'[e].resolved = el[e].resolved
    BY <1>1, Zenon DEF Shape
  <1>2. /\ loop[e] \in Loops /\ pc[e] \in Trying \cup {"idle", "started"}
        /\ UNCHANGED <<now, skew, record, loop, pc>> /\ Moved(e, loop[e], pc[e], 0)
    BY Zenon DEF Types, LoopTypes, StepTypes, Moved, clearOwnership
  <1>r. RecordStep(e)
    BY <1>2, Zenon DEF RecordStep
  <1>3. /\ v \in Calls /\ v # Idle /\ v.at = "join" /\ v.generation = el[e].generation
        /\ call[e][r] = Idle /\ (el[e].owned \/ el[e].cleanup)
    BY Zenon DEF Types, FieldTypes, Fields, Calls, Idle, clearOwnership
  <1>c. call' = [call EXCEPT ![e] = [call[e] EXCEPT ![r] = v]]
    BY Zenon DEF clearOwnership
  <1> HIDE DEF v
  <1>4. /\ CallTypes' /\ call'[e][r] = v
        /\ \A s \in Resigners[e] \ {r} : call'[e][s] = call[e][s]
        /\ \A x \in Electors \ {e} : call'[x] = call[x]
    BY <1>3, <1>c, CallChange, ZenonT(40) DEF Types
  <1>5. Types' /\ Others(e) /\ loop'[e] = loop[e] /\ pc'[e] = pc[e] /\ known'[e] = 0
    BY <1>s, <1>2, <1>r, <1>4, GoodTypes, Zenon
  <1>n. el[e].resigning \in Nat
    BY Zenon DEF Types, FieldTypes, Fields
  <1>6. Campaigning(e)' /\ Resigning(e)' /\ Looping(e)' /\ Remembers(e)' /\ Holds(e)'
    BY <1>v, <1>3, <1>5, Zenon DEF Own, Campaigning, Resigning, Looping, Remembers, Holds
  <1>7. Resolved(e)'
    <2>1. el'[e].resigning > 0
      BY <1>v, <1>n
    <2>2. confirmed(e)' <=> confirmed(e)
      BY <1>2, Zenon DEF confirmed, clock
    <2>3. el[e].resolved => loop[e] = "none" /\ ~confirmed(e)
      BY ZenonT(40) DEF Own, Resolved
    <2> QED BY <1>v, <1>5, <2>1, <2>2, <2>3, Zenon DEF Resolved
  <1>8. Resigns(e)'
    <2>1. v.generation = el'[e].generation /\ v.at \notin {"idle", "delete", "probe"}
      BY <1>1, <1>3, Zenon
    <2>2. \A s \in Resigners[e] : call'[e][s] = v \/ call'[e][s] = call[e][s]
      BY <1>4, Zenon
    <2>3. Resigns(e) /\ el'[e].generation = el[e].generation /\ loop'[e] = loop[e]
      BY <1>1, <1>5, Zenon DEF Own
    <2> QED BY <2>1, <2>2, <2>3, ZenonT(40) DEF Resigns
  <1>9. Counted(e)'
    <2>1. UnderWay(e)' = UnderWay(e) \cup {r} /\ r \notin UnderWay(e)
      BY <1>3, <1>4, Zenon DEF UnderWay, Idle
    <2>2. IsFiniteSet(UnderWay(e)) /\ el[e].resigning = Cardinality(UnderWay(e))
      BY Zenon DEF Own, Counted
    <2>3. IsFiniteSet(UnderWay(e)') /\ Cardinality(UnderWay(e)') = Cardinality(UnderWay(e)) + 1
      BY <2>1, <2>2, Zenon DEF CountFacts, AddCount
    <2> QED BY <2>2, <2>3, <1>v, Zenon DEF Counted
  <1> QED BY <1>2, <1>r, <1>5, <1>6, <1>7, <1>8, <1>9, ZenonT(40) DEF Good, Own

\* The item is left alone, or deleted if it is e's.
LEMMA DeleteStep ==
  ASSUME DynamoAssumption, CountFacts, NEW e \in Electors, record' \in {record, Without(e)}, UNCHANGED <<now, skew>>
  PROVE  RecordStep(e) /\ (confirmed(e)' => confirmed(e)) /\ (record' = Without(e) => ~confirmed(e)')
  BY DEF RecordStep, Without, confirmed, clock, NoItem, DynamoAssumption

\* A Resign passes the loop, or goes on to its probe.
LEMMA CallMoves ==
  ASSUME DynamoAssumption, CountFacts, Types, NEW e \in Electors, Own(e), NEW r \in Resigners[e],
         NEW a \in {"delete", "probe"}, call' = [call EXCEPT ![e][r].at = a],
         call[e][r].at # "idle", loop[e] = "none",
         UNCHANGED <<now, skew, el, loop, pc, known>>, record' \in {record, Without(e)}
  PROVE  Good(e)
  <1> DEFINE v == [call[e][r] EXCEPT !.at = a]
  <1>1. call[e] \in [Resigners[e] -> Calls] /\ call[e][r] \in Calls /\ call[e][r] # Idle
    BY DEF Types, CallTypes, Idle
  <1>2. v \in Calls /\ v # Idle /\ v.at = a /\ v.generation = call[e][r].generation
    BY <1>1, Zenon DEF Calls, Idle
  <1>c. call' = [call EXCEPT ![e] = [call[e] EXCEPT ![r] = v]]
    BY Zenon
  <1> HIDE DEF v
  <1>3. /\ CallTypes' /\ call'[e][r] = v
        /\ \A s \in Resigners[e] \ {r} : call'[e][s] = call[e][s]
        /\ \A x \in Electors \ {e} : call'[x] = call[x]
    <2>1. CallTypes /\ e \in Electors /\ r \in Resigners[e] /\ v \in Calls
      BY <1>2, Zenon DEF Types
    <2> QED BY ONLY <2>1, <1>c, CallChange, ZenonT(40)
  <1>4. /\ loop[e] \in Loops /\ pc[e] \in Trying \cup {"idle", "started"} /\ known[e] \in Nat
        /\ Moved(e, loop[e], pc[e], known[e])
    BY Zenon DEF Types, LoopTypes, StepTypes, KnownTypes, Moved
  <1>s. FieldTypes' /\ \A x \in Electors \ {e} : el'[x] = el[x]
    BY Zenon DEF Types, FieldTypes
  <1>r. RecordStep(e) /\ (confirmed(e)' => confirmed(e))
    BY DeleteStep, Zenon
  <1>5. Types' /\ Others(e)
    BY <1>s, <1>3, <1>4, <1>r, GoodTypes, Zenon
  <1>6. el[e].resigning > 0 /\ ~el[e].owned /\ el[e].cleanup
    BY <1>1, Busy, Zenon DEF Own, Resigning
  <1>7. Campaigning(e)' /\ Resigning(e)' /\ Looping(e)' /\ Remembers(e)' /\ Holds(e)' /\ Resolved(e)'
    BY <1>6, <1>r, Zenon DEF Own, Campaigning, Resigning, Looping, Remembers, Holds, Resolved
  <1>8. Resigns(e)'
    BY <1>1, <1>2, <1>3 DEF Own, Resigns, Idle
  <1>9. Counted(e)'
    <2>1. UnderWay(e)' = UnderWay(e)
      BY <1>1, <1>2, <1>3, Zenon DEF UnderWay, Idle
    <2> QED BY <2>1, Zenon DEF Own, Counted
  <1> QED BY <1>5, <1>r, <1>7, <1>8, <1>9, Zenon DEF Good, Own

\* A Resign ends.  It has resolved the cleanup only if the item was seen or made to be another's.
LEMMA Finishes ==
  ASSUME DynamoAssumption, CountFacts, Types, NEW e \in Electors, Own(e), NEW r \in Resigners[e],
         NEW resolved \in BOOLEAN, NEW s, s = el \/ s = markCleanupPending(e),
         finishResign(e, r, resolved, s), call[e][r].at # "idle",
         UNCHANGED <<now, skew, loop, pc, known>>, record' \in {record, Without(e)},
         resolved => ~confirmed(e)' /\ loop[e] = "none"
  PROVE  Good(e)
  <1> DEFINE all == All(e, resolved)
             over == Over(e, resolved)
  <1>1. call[e] \in [Resigners[e] -> Calls] /\ call[e][r] # Idle /\ el[e] \in Fields /\ Idle \in Calls
    BY SMTT(30) DEF Types, CallTypes, FieldTypes, Idle, Calls, DynamoAssumption
  <1>2. /\ el[e].resigning \in Nat /\ el[e].resigning > 0 /\ ~el[e].owned /\ el[e].cleanup
        /\ call[e][r].generation = el[e].generation
    BY <1>1, Busy, Zenon DEF Own, Resigning, Fields, Resigns
  <1>3. Shape(e, s, FALSE, TRUE, el[e].resigning, el[e].resolved) /\ s[e].generation = el[e].generation
    <2>1. CASE s = el
      <3>1. el[e].owned = FALSE /\ el[e].cleanup = TRUE
        BY <1>1, <1>2, Zenon DEF Fields
      <3> QED BY <2>1, <3>1, Zenon DEF Types, FieldTypes, Shape
    <2>2. CASE s = markCleanupPending(e)
      BY <2>2, MarkFields, Zenon
    <2> QED BY <2>1, <2>2, Zenon
  <1>4. /\ Shape(e, el', FALSE, ~over, el[e].resigning - 1, all /\ ~over)
        /\ el'[e].generation = el[e].generation
        /\ call' = [call EXCEPT ![e][r] = Idle]
    BY <1>2, <1>3, FinishFields, Zenon
  <1>s. FieldTypes' /\ \A x \in Electors \ {e} : el'[x] = el[x]
    BY <1>4, Zenon DEF Shape, FieldTypes
  <1>v. /\ el'[e].owned = FALSE /\ el'[e].cleanup = ~over
        /\ el'[e].resigning = el[e].resigning - 1 /\ el'[e].resolved = (all /\ ~over)
    BY <1>4, Zenon DEF Shape
  <1>c. call' = [call EXCEPT ![e] = [call[e] EXCEPT ![r] = Idle]]
    BY <1>4, Zenon
  <1>5. /\ CallTypes' /\ call'[e][r] = Idle
        /\ \A t \in Resigners[e] \ {r} : call'[e][t] = call[e][t]
        /\ \A x \in Electors \ {e} : call'[x] = call[x]
    <2>1. CallTypes /\ e \in Electors /\ r \in Resigners[e] /\ Idle \in Calls
      BY <1>1, Zenon DEF Types
    <2> QED BY ONLY <2>1, <1>c, CallChange, ZenonT(40)
  <1>6. /\ loop[e] \in Loops /\ pc[e] \in Trying \cup {"idle", "started"} /\ known[e] \in Nat
        /\ Moved(e, loop[e], pc[e], known[e])
    BY Zenon DEF Types, LoopTypes, StepTypes, KnownTypes, Moved
  <1>r. RecordStep(e) /\ (confirmed(e)' => confirmed(e))
    BY DeleteStep, Zenon
  <1>7. Types' /\ Others(e)
    BY <1>s, <1>5, <1>6, <1>r, GoodTypes, ZenonT(40)
  <1>a. all => loop[e] = "none" /\ ~confirmed(e)'
    <2>1. el[e].resolved => loop[e] = "none" /\ ~confirmed(e)
      BY Zenon DEF Own, Resolved
    <2>2. all <=> resolved \/ el[e].resolved
      BY Zenon DEF All
    <2> HIDE DEF all
    <2> QED BY <1>r, <2>1, <2>2, Zenon
  <1>o. /\ over => all /\ el'[e].resigning = 0
        /\ ~over /\ all => el'[e].resigning > 0
    <2>1. over <=> el[e].resigning = 1 /\ all
      BY Zenon DEF Over
    <2>2. el[e].resigning \in Nat /\ el[e].resigning > 0 /\ el'[e].resigning = el[e].resigning - 1
      BY <1>2, <1>v, Zenon
    <2> HIDE DEF all, over
    <2> QED BY ONLY <2>1, <2>2, SMTT(30)
  <1> HIDE DEF all, over
  <1>8. Campaigning(e)' /\ Holds(e)'
    <2>1. pc[e] \notin Trying
      BY <1>2, ZenonT(40) DEF Own, Campaigning
    <2> QED BY <1>v, <2>1, ZenonT(40) DEF Campaigning, Holds
  <1>12. Resigning(e)' /\ Looping(e)' /\ Remembers(e)'
    <2>1. CASE over
      <3>1. el'[e].resigning = 0 /\ loop'[e] = "none" /\ ~confirmed(e)'
        BY <2>1, <1>a, <1>o, Zenon
      <3> QED BY <3>1 DEF Resigning, Looping, Remembers
    <2>2. CASE ~over
      <3>1. ~el'[e].owned /\ el'[e].cleanup
        BY <2>2, <1>v, Zenon
      <3> QED BY <3>1, Zenon DEF Resigning, Looping, Remembers
    <2> QED BY <2>1, <2>2, Zenon
  <1>9. Resolved(e)'
    BY <1>v, <1>a, <1>o, Zenon DEF Resolved
  <1>10. Resigns(e)'
    BY <1>4, <1>5, SMTT(30) DEF Own, Resigns, Idle
  <1>11. Counted(e)'
    <2>1. UnderWay(e)' = UnderWay(e) \ {r} /\ r \in UnderWay(e)
      BY <1>1, <1>5, Zenon DEF UnderWay, Idle
    <2>2. IsFiniteSet(UnderWay(e)) /\ el[e].resigning = Cardinality(UnderWay(e))
      BY Zenon DEF Own, Counted
    <2>3. IsFiniteSet(UnderWay(e)') /\ Cardinality(UnderWay(e)') = Cardinality(UnderWay(e)) - 1
      BY <2>1, <2>2 DEF CountFacts, RemoveCount
    <2> QED BY <2>2, <2>3, <1>v, ZenonT(40) DEF Counted
  <1> QED BY <1>7, <1>r, <1>8, <1>9, <1>10, <1>11, <1>12, ZenonT(40) DEF Good, Own


\* Facts about cardinalities.
INSTANCE FiniteSetTheorems

\* The facts about cardinalities hold.
LEMMA CountFactsHold ==
  CountFacts
  <1>1. EmptyCount
    <2>1. IsFiniteSet({}) /\ Cardinality({}) = 0
      BY FS_EmptySet, Zenon
    <2> QED BY <2>1, Zenon DEF EmptyCount
  <1>2. NatCount
    <2>1. \A S : IsFiniteSet(S) => Cardinality(S) \in Nat /\ (Cardinality(S) = 0 => S = {})
      BY FS_EmptySet, FS_CardinalityType, Zenon
    <2> QED BY <2>1, Zenon DEF NatCount
  <1>3. AddCount
    <2>1. \A S, x : IsFiniteSet(S) /\ x \notin S =>
            IsFiniteSet(S \cup {x}) /\ Cardinality(S \cup {x}) = Cardinality(S) + 1
      BY FS_AddElement, Zenon
    <2> QED BY <2>1, Zenon DEF AddCount
  <1>4. RemoveCount
    <2>1. \A S, x : IsFiniteSet(S) /\ x \in S =>
            IsFiniteSet(S \ {x}) /\ Cardinality(S \ {x}) = Cardinality(S) - 1
      BY FS_RemoveElement, Zenon
    <2> QED BY <2>1, Zenon DEF RemoveCount
  <1> QED BY <1>1, <1>2, <1>3, <1>4, Zenon DEF CountFacts

\* The steps of Campaign.
Steps == Trying \cup {"idle", "started"}

\* The lease e was told of, as the assignment of its old value.
LEMMA StaysKnown ==
  ASSUME Types, NEW e \in Electors
  PROVE  known = [known EXCEPT ![e] = known[e]] /\ known[e] \in Nat
  BY Zenon DEF Types, KnownTypes

\* PutItem and the UpdateItem of takeover.
LEMMA AttemptGood ==
  ASSUME DynamoAssumption, CountFacts, Types, NEW e \in Electors, Own(e), pc[e] \in {"put", "takeover"},
         acquireAttempt(e) \/ takeover(e)
  PROVE  Good(e)
  <1> DEFINE Outcome(t, refused, may) ==
               \/ may /\ record' = Leased(e, t) /\ known' = [known EXCEPT ![e] = t + Lease] /\ startRenewal(e)
               \/ At(e, refused) /\ UNCHANGED <<record, el, loop, known>>
               \/ /\ record' = record \/ (may /\ record' = Leased(e, t))
                  /\ \/ At(e, "fail") /\ UNCHANGED el
                     \/ At(e, "retry") /\ UNCHANGED el
                     \/ At(e, "idle") /\ el' = markCleanupPending(e)
                  /\ UNCHANGED <<loop, known>>
  <1>1. PICK t \in Readings(e), refused \in {"takeover", "sleep"} :
          Outcome(t, refused, record = NoItem \/ record.lease <= t)
    <2>1. ASSUME acquireAttempt(e) PROVE \E t \in Readings(e) : Outcome(t, "takeover", record = NoItem \/ record.lease <= t)
      <3>1. PICK t \in Readings(e) :
              \/ MayPut(e, t) /\ record' = Leased(e, t) /\ known' = [known EXCEPT ![e] = t + Lease] /\ startRenewal(e)
              \/ ~MayPut(e, t) /\ At(e, "takeover") /\ UNCHANGED <<record, el, loop, known>>
              \/ /\ record' \in {record} \cup {i \in {Leased(e, t)} : MayPut(e, t)}
                 /\ \/ At(e, "fail") /\ UNCHANGED el
                    \/ At(e, "retry") /\ UNCHANGED el
                    \/ At(e, "idle") /\ el' = markCleanupPending(e)
                 /\ UNCHANGED <<loop, known>>
        BY <2>1, Zenon DEF acquireAttempt, Attempt
      <3>2. MayPut(e, t) => record = NoItem \/ record.lease <= t
        BY Zenon DEF MayPut
      <3>3. ASSUME record' \in {record} \cup {i \in {Leased(e, t)} : MayPut(e, t)}
            PROVE  record' = record \/ (MayPut(e, t) /\ record' = Leased(e, t))
        BY <3>3, Zenon
      <3>4. Outcome(t, "takeover", record = NoItem \/ record.lease <= t)
        BY <3>1, <3>2, <3>3, Zenon
      <3> QED BY <3>4, Zenon
    <2>2. ASSUME takeover(e) PROVE \E t \in Readings(e) : Outcome(t, "sleep", record = NoItem \/ record.lease <= t)
      <3>1. PICK t \in Readings(e) :
              \/ MayTake(e, t) /\ record' = Leased(e, t) /\ known' = [known EXCEPT ![e] = t + Lease] /\ startRenewal(e)
              \/ ~MayTake(e, t) /\ At(e, "sleep") /\ UNCHANGED <<record, el, loop, known>>
              \/ /\ record' \in {record} \cup {i \in {Leased(e, t)} : MayTake(e, t)}
                 /\ \/ At(e, "fail") /\ UNCHANGED el
                    \/ At(e, "retry") /\ UNCHANGED el
                    \/ At(e, "idle") /\ el' = markCleanupPending(e)
                 /\ UNCHANGED <<loop, known>>
        BY <2>2, Zenon DEF takeover, Attempt
      <3>2. MayTake(e, t) => record = NoItem \/ record.lease <= t
        BY Zenon DEF MayTake
      <3>3. ASSUME record' \in {record} \cup {i \in {Leased(e, t)} : MayTake(e, t)}
            PROVE  record' = record \/ (MayTake(e, t) /\ record' = Leased(e, t))
        BY <3>3, Zenon
      <3>4. Outcome(t, "sleep", record = NoItem \/ record.lease <= t)
        BY <3>1, <3>2, <3>3, Zenon
      <3> QED BY <3>4, Zenon
    <2> QED BY <2>1, <2>2, Zenon
  <1>2. UNCHANGED <<now, skew, call>> /\ pc[e] \in Trying
    BY Zenon DEF acquireAttempt, takeover, Attempt, Trying
  <1>3. ~el[e].owned /\ ~el[e].cleanup /\ ~confirmed(e)
    BY <1>2, Zenon DEF Own, Campaigning, Remembers
  <1>4. CASE (record = NoItem \/ record.lease <= t) /\ record' = Leased(e, t) /\ known' = [known EXCEPT ![e] = t + Lease]
        /\ startRenewal(e)
    <2>1. RecordStep(e) /\ record'.owner = e /\ record'.lease = t + Lease
      BY <1>1, <1>4, Zenon DEF RecordStep, Leased
    <2> QED BY <1>2, <1>4, <2>1, Starts, Zenon
  <1>5. CASE At(e, refused) /\ UNCHANGED <<record, el, loop, known>>
    <2>1. RecordStep(e) /\ ~confirmed(e)' /\ refused \in Steps
      BY <1>2, <1>3, <1>5, Zenon DEF RecordStep, confirmed, clock, Steps, Trying
    <2> QED BY <1>2, <1>3, <1>5, <2>1, PcMoves, ZenonT(40) DEF At, Steps
  <1>6. CASE /\ record' = record \/ ((record = NoItem \/ record.lease <= t) /\ record' = Leased(e, t))
             /\ \/ At(e, "fail") /\ UNCHANGED el
                \/ At(e, "retry") /\ UNCHANGED el
                \/ At(e, "idle") /\ el' = markCleanupPending(e)
             /\ UNCHANGED <<loop, known>>
    <2>1. RecordStep(e)
      BY <1>1, <1>6, Zenon DEF RecordStep
    <2>2. ASSUME NEW p \in {"fail", "retry"}, At(e, p), UNCHANGED el PROVE Good(e)
      <3>1. p \in Steps
        BY <2>2, Zenon DEF Steps, Trying
      <3> QED BY <1>2, <1>3, <1>6, <2>1, <2>2, <3>1, PcMoves, Zenon DEF At, Steps
    <2>3. CASE At(e, "idle") /\ el' = markCleanupPending(e)
      <3>1. known' = [known EXCEPT ![e] = known[e]] /\ known[e] \in Nat
        BY <1>6, StaysKnown, Zenon
      <3> QED BY <1>2, <1>6, <2>1, <2>3, <3>1, Marks, Zenon DEF At
    <2> QED BY <1>6, <2>2, <2>3, Zenon
  <1> QED BY <1>1, <1>4, <1>5, <1>6, Zenon

\* The other steps of Campaign.
LEMMA CampaignGood ==
  ASSUME DynamoAssumption, CountFacts, Types, NEW e \in Electors, Own(e),
         beginCampaign(e) \/ reconcile(e) \/ sleepContext(e) \/ Started(e)
  PROVE  Good(e)
  <1>0. UNCHANGED <<now, skew, record, call>> /\ RecordStep(e) /\ (confirmed(e)' <=> confirmed(e))
    BY Zenon DEF beginCampaign, reconcile, sleepContext, Started, RecordStep, confirmed, clock
  <1>k. known = [known EXCEPT ![e] = known[e]] /\ known[e] \in Nat
    BY StaysKnown, Zenon
  <1>1. CASE beginCampaign(e)
    <2>1. /\ "put" \in Trying \cup {"idle", "started"} /\ pc' = [pc EXCEPT ![e] = "put"]
          /\ UNCHANGED <<el, loop, known>> /\ ~el[e].owned /\ ~el[e].cleanup /\ pc[e] = "idle"
      BY <1>1, Zenon DEF beginCampaign, At, Trying
    <2>2. ~confirmed(e)'
      BY <1>0, <2>1, Zenon DEF Own, Remembers
    <2> QED BY <1>0, <2>1, <2>2, PcMoves, Zenon
  <1>2. CASE reconcile(e)
    <2>1. pc[e] \in {"fail", "retry"} /\ pc[e] \in Trying
      BY <1>2, Zenon DEF reconcile, Trying
    <2>2. ~el[e].owned /\ ~el[e].cleanup
      BY <2>1, Zenon DEF Own, Campaigning
    <2>3. CASE confirmed(e) /\ startRenewal(e) /\ known' = [known EXCEPT ![e] = record.lease]
      BY <1>0, <2>1, <2>3, Starts, Zenon DEF confirmed
    <2>4. ASSUME ~confirmed(e), NEW p \in {"sleep", "idle"}, At(e, p), UNCHANGED <<el, loop, known>> PROVE Good(e)
      <3>1. p \in Trying \cup {"idle", "started"}
        BY <2>4, Zenon DEF Trying
      <3> QED BY <1>0, <2>1, <2>2, <2>4, <3>1, PcMoves, Zenon DEF At
    <2>5. CASE el' = markCleanupPending(e) /\ At(e, "idle") /\ UNCHANGED <<loop, known>>
      BY <1>0, <1>k, <2>5, Marks, Zenon DEF At
    <2> QED BY <1>2, <2>3, <2>4, <2>5, Zenon DEF reconcile
  <1>3. CASE sleepContext(e)
    <2>1. pc[e] = "sleep" /\ pc[e] \in Trying /\ UNCHANGED <<el, loop, known>>
      BY <1>3, Zenon DEF sleepContext, Trying
    <2>2. ~el[e].owned /\ ~el[e].cleanup /\ ~confirmed(e)
      BY <2>1, Zenon DEF Own, Campaigning, Remembers
    <2>3. PICK p \in {"put", "idle"} : At(e, p)
      BY <1>3, Zenon DEF sleepContext
    <2>4. p \in Trying \cup {"idle", "started"}
      BY <2>3, Zenon DEF Trying
    <2> QED BY <1>0, <2>1, <2>2, <2>3, <2>4, PcMoves, Zenon DEF At
  <1>4. CASE Started(e)
    <2>1. pc[e] = "started" /\ pc' = [pc EXCEPT ![e] = "idle"] /\ UNCHANGED loop
      BY <1>4, Zenon DEF Started, At
    <2>2. CASE UNCHANGED <<el, known>>
      <3>1. confirmed(e)' => el[e].owned \/ el[e].cleanup
        BY <1>0, <2>1, Zenon DEF Own, Remembers
      <3>2. "idle" \in Trying \cup {"idle", "started"} /\ "idle" \notin Trying
        BY Zenon DEF Trying
      <3> QED BY <1>0, <2>1, <2>2, <3>1, <3>2, PcMoves, Zenon
    <2>3. CASE el' = markCleanupPending(e) /\ known' = [known EXCEPT ![e] = 0]
      BY <1>0, <2>1, <2>3, Marks, Zenon
    <2> QED BY <1>4, <2>2, <2>3, Zenon DEF Started
  <1> QED BY <1>1, <1>2, <1>3, <1>4, Zenon

\* The steps of the renewal loop.
LEMMA RenewGood ==
  ASSUME DynamoAssumption, CountFacts, Types, NEW e \in Electors, Own(e), renewLoop(e) \/ renew(e) \/ renewProbe(e)
  PROVE  Good(e)
  <1>k. known = [known EXCEPT ![e] = known[e]] /\ known[e] \in Nat
    BY StaysKnown, Zenon
  <1>h. el[e].owned /\ clock(e) + MaxSkew < known[e] => record.owner = e /\ record.lease >= known[e]
    BY Zenon DEF Own, Holds
  <1>n. record.lease \in Nat /\ clock(e) \in Nat
    BY DEF Types, ServerTypes, clock, DynamoAssumption
  <1>l. {"none", "waiting", "renewing", "probing"} \subseteq Loops
    BY Zenon DEF Loops
  <1>1. CASE renewLoop(e)
    <2>1. PICK l \in {"none", "renewing"} : loop' = [loop EXCEPT ![e] = l]
      BY <1>1, Zenon DEF renewLoop
    <2>2. loop[e] # "none" /\ UNCHANGED <<now, skew, record, el, pc, call, known>> /\ RecordStep(e)
      BY <1>1, Zenon DEF renewLoop, RecordStep
    <2> QED BY <2>1, <2>2, <1>k, <1>h, <1>l, LoopMoves, Zenon
  <1>2. CASE renew(e)
    <2>0. loop[e] # "none" /\ UNCHANGED <<now, skew, pc, call>>
      BY <1>2, Zenon DEF renew
    <2>1. PICK t \in Readings(e) :
            IF el[e].cancelled
            THEN /\ record' \in {record} \cup {i \in {Leased(e, t)} : MayRenew(e, t)}
                 /\ loop' = [loop EXCEPT ![e] = "none"] /\ UNCHANGED <<el, known>>
            ELSE \/ /\ MayRenew(e, t) /\ record' = Leased(e, t)
                    /\ known' = [known EXCEPT ![e] = IF el[e].owned THEN t + Lease ELSE 0]
                    /\ loop' = [loop EXCEPT ![e] = "waiting"] /\ UNCHANGED el
                 \/ ~MayRenew(e, t) /\ clearOwnershipAfterLoss(e, FALSE) /\ UNCHANGED record
                 \/ /\ record' \in {record} \cup {i \in {Leased(e, t)} : MayRenew(e, t)}
                    /\ loop' = [loop EXCEPT ![e] = "probing"] /\ UNCHANGED <<el, known>>
      BY <1>2, Zenon DEF renew
    <2>2. t \in Nat /\ t <= clock(e) /\ t + Lease >= known[e] /\ t + Lease \in Nat
      BY ReadingsAre DEF Types, DynamoAssumption
    <2>3. ASSUME record' \in {record} \cup {i \in {Leased(e, t)} : MayRenew(e, t)}
          PROVE  /\ RecordStep(e)
                 /\ el[e].owned /\ clock(e) + MaxSkew < known[e] => record'.owner = e /\ record'.lease >= known[e]
      <3>1. record' = record \/ (MayRenew(e, t) /\ record' = Leased(e, t))
        BY <2>3, Zenon
      <3> QED BY <3>1, <2>2, <1>h DEF RecordStep, MayRenew, Leased
    <2>4. ASSUME record' \in {record} \cup {i \in {Leased(e, t)} : MayRenew(e, t)},
                 NEW l \in {"none", "probing"}, loop' = [loop EXCEPT ![e] = l], UNCHANGED <<el, known>>
          PROVE  Good(e)
      <3>1. /\ RecordStep(e)
            /\ el[e].owned /\ clock(e) + MaxSkew < known[e] => record'.owner = e /\ record'.lease >= known[e]
        BY <2>3, <2>4, Zenon
      <3> QED BY <2>0, <2>4, <3>1, <1>k, <1>l, LoopMoves, ZenonT(40)
    <2>5. CASE /\ MayRenew(e, t) /\ record' = Leased(e, t)
               /\ known' = [known EXCEPT ![e] = IF el[e].owned THEN t + Lease ELSE 0]
               /\ loop' = [loop EXCEPT ![e] = "waiting"] /\ UNCHANGED el
      <3> DEFINE k == IF el[e].owned THEN t + Lease ELSE 0
      <3>1. k \in Nat /\ (el[e].owned /\ clock(e) + MaxSkew < k => record'.owner = e /\ record'.lease >= k)
        BY <2>2, <2>5 DEF Leased
      <3>2. RecordStep(e) /\ "waiting" \in Loops
        BY <2>5, <1>l, Zenon DEF RecordStep, MayRenew
      <3>3. known' = [known EXCEPT ![e] = k]
        BY <2>5, Zenon
      <3> HIDE DEF k
      <3> QED BY <2>0, <2>5, <3>1, <3>2, <3>3, LoopMoves, Zenon
    <2>6. CASE ~MayRenew(e, t) /\ clearOwnershipAfterLoss(e, FALSE) /\ UNCHANGED record
      <3>1. ~confirmed(e)
        BY <2>2, <2>6, <1>n DEF confirmed, MayRenew
      <3> QED BY <2>0, <2>6, <3>1, Loses, Zenon
    <2> QED BY <2>1, <2>4, <2>5, <2>6, Zenon
  <1>3. CASE renewProbe(e)
    <2>0. loop[e] # "none" /\ UNCHANGED <<now, skew, record, pc, call>> /\ RecordStep(e)
      BY <1>3, Zenon DEF renewProbe, RecordStep
    <2>1. CASE /\ confirmed(e) /\ loop' = [loop EXCEPT ![e] = "waiting"]
               /\ known' = [known EXCEPT ![e] = IF el[e].owned THEN record.lease ELSE 0] /\ UNCHANGED el
      <3> DEFINE k == IF el[e].owned THEN record.lease ELSE 0
      <3>1. k \in Nat /\ (el[e].owned /\ clock(e) + MaxSkew < k => record'.owner = e /\ record'.lease >= k)
        BY <1>n, <2>0, <2>1 DEF confirmed
      <3>2. known' = [known EXCEPT ![e] = k] /\ "waiting" \in Loops
        BY <2>1, <1>l, Zenon
      <3> HIDE DEF k
      <3> QED BY <2>0, <2>1, <3>1, <3>2, LoopMoves, Zenon
    <2>2. CASE ~confirmed(e) /\ clearOwnershipAfterLoss(e, FALSE)
      BY <2>0, <2>2, Loses, Zenon
    <2>3. CASE clearOwnershipAfterLoss(e, TRUE)
      BY <2>0, <2>3, Loses, Zenon
    <2> QED BY <1>3, <2>1, <2>2, <2>3, Zenon DEF renewProbe
  <1> QED BY <1>1, <1>2, <1>3, Zenon

\* The steps of Resign.
LEMMA ResignGood ==
  ASSUME DynamoAssumption, CountFacts, Types, NEW e \in Electors, Own(e), NEW r \in Resigners[e],
         clearOwnership(e, r) \/ Join(e, r) \/ Resign(e, r) \/ ResignProbe(e, r)
  PROVE  Good(e)
  <1>1. CASE clearOwnership(e, r)
    BY <1>1, Clears, Zenon
  <1>2. CASE Join(e, r)
    <2>1. call[e][r].at # "idle" /\ UNCHANGED <<now, skew, record, loop, pc, known>> /\ record' \in {record, Without(e)}
      BY <1>2, Zenon DEF Join
    <2>2. CASE loop[e] = "none" /\ call' = [call EXCEPT ![e][r].at = "delete"] /\ UNCHANGED el
      BY <2>1, <2>2, CallMoves, Zenon
    <2>3. CASE finishResign(e, r, FALSE, el)
      BY <2>1, <2>3, Finishes, Zenon
    <2> QED BY <1>2, <2>2, <2>3, Zenon DEF Join
  <1>3. CASE Resign(e, r)
    <2>1. /\ call[e][r].at = "delete" /\ call[e][r].at # "idle" /\ UNCHANGED <<now, skew, loop, pc, known>>
          /\ record' \in {record, Without(e)}
      BY <1>3, Zenon DEF Resign
    <2>2. loop[e] = "none"
      BY <2>1, SMTT(30) DEF Own, Resigns
    <2>3. CASE record' = Without(e) /\ finishResign(e, r, TRUE, el)
      <3>1. ~confirmed(e)'
        BY <2>1, <2>3, DeleteStep, Zenon
      <3> QED BY <2>1, <2>2, <2>3, <3>1, Finishes, ZenonT(40)
    <2>4. CASE finishResign(e, r, FALSE, el)
      BY <2>1, <2>4, Finishes, Zenon
    <2>5. CASE call' = [call EXCEPT ![e][r].at = "probe"] /\ UNCHANGED el
      BY <2>1, <2>2, <2>5, CallMoves, Zenon
    <2> QED BY <1>3, <2>3, <2>4, <2>5, Zenon DEF Resign
  <1>4. CASE ResignProbe(e, r)
    <2>1. /\ call[e][r].at = "probe" /\ call[e][r].at # "idle" /\ UNCHANGED <<now, skew, record, loop, pc, known>>
          /\ record' \in {record, Without(e)}
      BY <1>4, Zenon DEF ResignProbe
    <2>2. loop[e] = "none" /\ (confirmed(e)' => confirmed(e))
      BY <2>1, DeleteStep, Zenon DEF Own, Resigns
    <2>3. CASE ~confirmed(e) /\ finishResign(e, r, TRUE, el)
      BY <2>1, <2>2, <2>3, Finishes, Zenon
    <2>4. CASE finishResign(e, r, FALSE, markCleanupPending(e))
      BY <2>1, <2>4, Finishes, Zenon
    <2> QED BY <1>4, <2>3, <2>4, Zenon DEF ResignProbe
  <1> QED BY <1>1, <1>2, <1>3, <1>4, Zenon

\* Every step of an elector keeps the invariant.
LEMMA StepIInv ==
  ASSUME DynamoAssumption, CountFacts, IInv, NEW e \in Electors, Step(e)
  PROVE  IInv'
  <1>1. Types /\ Own(e)
    BY Zenon DEF IInv
  <1>2. Good(e)
    <2>1. CASE beginCampaign(e) \/ reconcile(e) \/ sleepContext(e) \/ Started(e)
      BY <1>1, <2>1, CampaignGood, Zenon
    <2>2. CASE acquireAttempt(e) \/ takeover(e)
      <3>1. pc[e] \in {"put", "takeover"}
        BY <2>2, Zenon DEF acquireAttempt, takeover, Attempt
      <3> QED BY <1>1, <2>2, <3>1, AttemptGood, Zenon
    <2>3. CASE renewLoop(e) \/ renew(e) \/ renewProbe(e)
      BY <1>1, <2>3, RenewGood, Zenon
    <2>4. ASSUME NEW r \in Resigners[e], clearOwnership(e, r) \/ Join(e, r) \/ Resign(e, r) \/ ResignProbe(e, r)
          PROVE  Good(e)
      BY <1>1, <2>4, ResignGood, Zenon
    <2> QED BY <2>1, <2>2, <2>3, <2>4, Zenon DEF Step
  <1>3. ASSUME NEW x \in Electors \ {e} PROVE Own(x)'
    BY <1>1, <1>2, OthersKeep, Zenon DEF Good, IInv
  <1> QED BY <1>2, <1>3, Zenon DEF Good, IInv

\* Time passes, or the table's TTL removes an expired item.
LEMMA TimeIInv ==
  ASSUME DynamoAssumption, CountFacts, IInv, Tick \/ Expire
  PROVE  IInv'
  <1>1. Types /\ UNCHANGED <<skew, el, loop, pc, call, known>>
    BY Zenon DEF IInv, Tick, Expire
  <1>2. Types'
    <2>1. now' \in 0..MaxNow /\ record' \in [owner : Electors \cup {NoOwner}, lease : Nat]
      BY <1>1 DEF Tick, Expire, Types, ServerTypes, NoItem, DynamoAssumption
    <2>2. ServerTypes' /\ FieldTypes' /\ LoopTypes' /\ StepTypes' /\ KnownTypes'
      BY <1>1, <2>1, Zenon DEF Types, ServerTypes, FieldTypes, LoopTypes, StepTypes, KnownTypes
    <2>3. CallTypes'
      BY <1>1, CallKept, Zenon DEF Types
    <2> QED BY <2>2, <2>3, Zenon DEF Types
  <1>3. ASSUME NEW x \in Electors PROVE Own(x)'
    <2>1. Own(x)
      BY Zenon DEF IInv
    <2>2. Campaigning(x)' /\ Resigning(x)' /\ Looping(x)' /\ Resigns(x)' /\ Counted(x)'
      BY <1>1, <2>1, Zenon DEF Own, Campaigning, Resigning, Looping, Resigns, Counted, UnderWay, Idle
    <2>3. /\ now \in Nat /\ now' \in Nat /\ skew[x] \in Nat /\ record.lease \in Nat /\ known[x] \in Nat /\ MaxSkew \in Nat
          /\ now <= now' /\ clock(x) = now + skew[x] /\ clock(x)' = now' + skew[x]
      BY <1>1 DEF Tick, Expire, Types, ServerTypes, KnownTypes, DynamoAssumption, clock
    <2>4. record' = record \/ (record' = NoItem /\ record.lease <= now)
      BY Zenon DEF Tick, Expire
    <2>5. confirmed(x)' => confirmed(x)
      BY <2>3, <2>4, SMTT(30) DEF confirmed, NoItem, DynamoAssumption
    <2>6. Resolved(x)' /\ Remembers(x)'
      BY <1>1, <2>1, <2>5, Zenon DEF Own, Resolved, Remembers
    <2>7. Holds(x)'
      <3> SUFFICES ASSUME el[x].owned, clock(x)' + MaxSkew < known[x]
                   PROVE  record'.owner = x /\ record'.lease >= known[x]
        BY <1>1, Zenon DEF Holds
      <3>1. clock(x) + MaxSkew < known[x]
        BY <2>3
      <3>2. record.owner = x /\ record.lease >= known[x]
        BY <2>1, <3>1, Zenon DEF Own, Holds
      <3>3. ~(record.lease <= now)
        BY <2>3, <3>1, <3>2
      <3> QED BY <2>4, <3>2, <3>3, Zenon
    <2> QED BY <2>2, <2>6, <2>7, Zenon DEF Own
  <1> QED BY <1>2, <1>3, Zenon DEF IInv

\* The invariant holds initially.
LEMMA InitIInv ==
  ASSUME DynamoAssumption, CountFacts, Init
  PROVE  IInv
  <1>1. ServerTypes
    BY DEF Init, ServerTypes, NoItem, DynamoAssumption
  <1>2. FieldTypes /\ LoopTypes /\ StepTypes /\ KnownTypes
    BY SMTT(30) DEF Init, FieldTypes, LoopTypes, StepTypes, KnownTypes, Fields, Loops, DynamoAssumption
  <1>3. CallTypes
    BY DEF Init, CallTypes, Calls, Idle, DynamoAssumption
  <1>4. ASSUME NEW e \in Electors PROVE Own(e)
    <2>1. /\ ~el[e].owned /\ ~el[e].cleanup /\ el[e].resigning = 0 /\ ~el[e].resolved
          /\ loop[e] = "none" /\ pc[e] = "idle" /\ record = NoItem
      BY Zenon DEF Init
    <2>2. \A r \in Resigners[e] : call[e][r] = Idle
      BY Zenon DEF Init
    <2>3. Campaigning(e) /\ Resigning(e) /\ Looping(e) /\ Resolved(e) /\ Holds(e)
      BY <2>1 DEF Campaigning, Resigning, Looping, Resolved, Holds
    <2>4. Remembers(e)
      BY <2>1, Zenon DEF Remembers, confirmed, NoItem, DynamoAssumption
    <2>5. Resigns(e)
      BY <2>2 DEF Resigns, Idle
    <2>6. Counted(e)
      <3>1. UnderWay(e) = {}
        BY <2>2, Zenon DEF UnderWay
      <3> QED BY <3>1, <2>1, Zenon DEF Counted, CountFacts, EmptyCount
    <2> QED BY <2>3, <2>4, <2>5, <2>6, Zenon DEF Own
  <1> QED BY <1>1, <1>2, <1>3, <1>4, Zenon DEF IInv, Types

\* Every step keeps the invariant.
LEMMA NextIInv ==
  ASSUME DynamoAssumption, CountFacts, IInv, [Next]_vars
  PROVE  IInv'
  <1>1. ASSUME NEW e \in Electors, Step(e) PROVE IInv'
    BY <1>1, StepIInv, Zenon
  <1>2. CASE Tick \/ Expire
    BY <1>2, TimeIInv, Zenon
  <1>3. ASSUME UNCHANGED vars PROVE IInv'
    <2>1. UNCHANGED <<now, skew, record, el, loop, pc, call, known>>
      BY <1>3, Zenon DEF vars
    <2>2. Types'
      BY <2>1, CallKept, Zenon DEF IInv, Types, ServerTypes, FieldTypes, LoopTypes, StepTypes, KnownTypes
    <2>3. ASSUME NEW e \in Electors PROVE Own(e)'
      <3>1. Own(e)
        BY Zenon DEF IInv
      <3>2. Campaigning(e)' /\ Resigning(e)' /\ Looping(e)' /\ Resigns(e)' /\ Counted(e)'
        BY <2>1, <3>1, Zenon DEF Own, Campaigning, Resigning, Looping, Resigns, Counted, UnderWay, Idle
      <3>3. Resolved(e)' /\ Holds(e)' /\ Remembers(e)'
        BY <2>1, <3>1, Zenon DEF Own, Resolved, Holds, Remembers, confirmed, clock
      <3> QED BY <3>2, <3>3, Zenon DEF Own
    <2> QED BY <2>2, <2>3, Zenon DEF IInv
  <1> QED BY <1>1, <1>2, <1>3, Zenon DEF Next

\* The assumptions of DynamoLeader on its constants.
LEMMA ConstantsHold == DynamoAssumption
  BY OwnersAssumption, TimesAssumption, Zenon DEF DynamoAssumption

\* The inductive invariant holds in every reachable state of the electors.
LEMMA Invariance == Spec => []IInv
  <1>1. Init => IInv
    BY InitIInv, CountFactsHold, ConstantsHold, Zenon
  <1>2. IInv /\ [Next]_vars => IInv'
    BY NextIInv, CountFactsHold, ConstantsHold, Zenon
  <1> QED BY <1>1, <1>2, PTL DEF Spec

-----------------------------------------------------------------------------

\* For any electors, resigners, lease, skew and delay of the commands: an
\* elector that leads, and whose clock says that its lease has more than the
\* skew left, has the item, whatever answers are lost and whoever else calls
\* it (Campaign, Resign and renewLoop).
THEOREM LeaderSafe == Spec => []LeaderHoldsItem
  <1>1. IInv => LeaderHoldsItem
    BY Zenon DEF IInv, Own, Holds, LeaderHoldsItem
  <1> QED BY <1>1, Invariance, PTL

\* A live item of an elector is never forgotten: it leads, campaigns, or
\* refuses campaigns until a Resign has cleaned up (markCleanupPending,
\* clearOwnershipAfterLoss, finishResign).
THEOREM ItemRemembered == Spec => []NothingForgotten
  <1>1. IInv => NothingForgotten
    BY Zenon DEF IInv, Own, Remembers, NothingForgotten
  <1> QED BY <1>1, Invariance, PTL

\* The counter resigning of an elector is the number of its calls of Resign
\* that are under way, across generations (clearOwnership, finishResign).
THEOREM CounterExact == Spec => []ResigningCounted
  <1>1. IInv => ResigningCounted
    BY Zenon DEF IInv, Own, Counted, UnderWay, ResigningCounted
  <1> QED BY <1>1, Invariance, PTL

\* While a Resign is under way, its elector does not lead, no campaign of it
\* runs, and its generation is the one the Resign cleared.
ResignAlone ==
  \A e \in Electors : \A r \in Resigners[e] :
    call[e][r] # Idle => ~el[e].owned /\ pc[e] \notin Trying /\ call[e][r].generation = el[e].generation

\* No generation starts before the calls of Resign that cleared the last one
\* have ended (beginCampaign, clearOwnershipAfterLoss): the check of the
\* generation in finishResign never finds a stale one.
THEOREM ResignsDoNotOverlap == Spec => []ResignAlone
  <1>1. ASSUME IInv, NEW e \in Electors, NEW r \in Resigners[e], call[e][r] # Idle
        PROVE  ~el[e].owned /\ pc[e] \notin Trying /\ call[e][r].generation = el[e].generation
    <2>1. Types /\ Own(e)
      BY <1>1, Zenon DEF IInv
    <2>2. Counted(e)
      BY <2>1, Zenon DEF Own
    <2>3. el[e].resigning > 0
      BY <1>1, <2>1, <2>2, Busy, CountFactsHold, Zenon
    <2> QED BY <1>1, <2>1, <2>3, Zenon DEF Own, Resigning, Campaigning, Resigns
  <1>2. IInv => ResignAlone
    BY <1>1, Zenon DEF ResignAlone
  <1> QED BY <1>2, Invariance, PTL

\* Every variable of the electors keeps its type.
THEOREM TypeCorrect == Spec => []TypeOK
  <1>1. IInv => TypeOK
    BY Zenon DEF IInv, Types, ServerTypes, FieldTypes, LoopTypes, StepTypes, KnownTypes, CallTypes,
           Fields, Loops, Trying, Calls, TypeOK
  <1> QED BY <1>1, Invariance, PTL

=============================================================================

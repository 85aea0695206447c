-------------------------- MODULE RedisSlotProofs --------------------------
(***************************************************************************)
(* What the two sorted sets of leases in Redis promise, proved for any      *)
(* clients, permits and TTL: GroupElector of leader/redis never has more    *)
(* than MaxLeaders leaders and renews exactly what it owns, and             *)
(* redis/semaphore keeps to its permits.  Then the consumer group of        *)
(* redis/stream: no entry it passed is lost.                                *)
(***************************************************************************)
EXTENDS RedisGroupLeader, FiniteSetTheorems, TLAPS

(***************************************************************************)
(* The group elector.  SlotsBounded is inductive by itself.  That a leader  *)
(* has its slot needs that an elector which lets go of the slot has first   *)
(* stopped to lead (Holds); that the slot of an owner is renewed by one     *)
(* loop needs that the loops are numbered and that a cancelled one is       *)
(* waited for (Numbered, OneLoop).                                          *)
(***************************************************************************)

\* What the constants of the group must be.
GroupAssumption ==
  IsFiniteSet(Electors) /\ MaxLeaders \in Nat /\ Lease \in Nat /\ MaxNow \in Nat /\ MaxLoops \in [Electors -> Nat]

Running == {"waiting", "renewing", "failed"}

\* A slot that an elector was told of is in the set at least as long, until the elector gives it up.
Holds(e) ==
  /\ granted[e] <= now + Lease
  /\ owned[e] => pc[e] \in {"idle", "ending"}
  /\ (owned[e] \/ pc[e] = "won") /\ now < granted[e] => slots[e] >= granted[e]

\* The acquisitions of an elector are numbered, and a campaign can have one more.
Numbered(e) ==
  /\ pc[e] \in {"acquire", "poll", "won"} => started[e] < MaxLoops[e]
  /\ \A l \in Loops : l > started[e] => l \notin cancelled[e] /\ loop[e][l] = "none"
  /\ handle[e] <= started[e]

\* An elector has at most one loop, the one of the slot it owns or the one its Resign waits for.
OneLoop(e) ==
  /\ \A l \in Loops : loop[e][l] \in Running =>
       (owned[e] /\ handle[e] = l) \/ (pc[e] = "join" /\ joined[e] = l /\ l \in cancelled[e])
  /\ owned[e] => handle[e] \in Loops /\ handle[e] \notin cancelled[e] /\ loop[e][handle[e]] \in Running

HoldInv == \A e \in Electors : Holds(e)
LoopInv == \A e \in Electors : Numbered(e) /\ (e \notin gaveUp => OneLoop(e))

\* What a step of elector e may do to the slots.
ScriptStep(e) ==
  \/ slots' = slots
  \/ slots' = Pruned
  \/ (Room \/ e \in Active) /\ slots' = Extended(e)
  \/ pc[e] = "release" /\ slots' = [slots EXCEPT ![e] = 0]

\* A step of elector e, of its caller or of one of its loops.
StepOf(e) == Call(e) \/ \E l \in Loops : renewLoop(e, l)

\* Each of them is one of those.
LEMMA Scripts ==
  ASSUME NEW e \in Electors, StepOf(e)
  PROVE  now' = now /\ ScriptStep(e)
  <1>1. ASSUME Call(e) PROVE now' = now /\ ScriptStep(e)
    BY <1>1, Zenon DEF Call, Campaign, acquire, acquireUnknown, Poll, Won, clearCampaigning, Resign, Join, JoinTimeout,
        release, ScriptStep
  <1>2. ASSUME NEW l \in Loops, renewLoop(e, l) PROVE now' = now /\ ScriptStep(e)
    BY <1>2, Zenon DEF renewLoop, LoopStop, RenewTick, renew, renewUnknown, renewFailed, ScriptStep
  <1> QED BY <1>1, <1>2, Zenon DEF StepOf

\* The electors that have a slot are those whose score is ahead of the clock.
LEMMA ActiveAre ==
  ASSUME GroupAssumption, TypeOK
  PROVE  Active = {f \in Electors : slots[f] > now}
  <1>1. slots \in [Electors -> 0..(MaxNow + Lease)] /\ now \in 0..MaxNow
    BY Zenon DEF TypeOK
  <1> QED BY <1>1 DEF Active, Pruned, GroupAssumption

\* ... after a step as well.
LEMMA ActiveAreNext ==
  ASSUME GroupAssumption, TypeOK'
  PROVE  Active' = {f \in Electors : slots'[f] > now'}
  <1>1. slots' \in [Electors -> 0..(MaxNow + Lease)] /\ now' \in 0..MaxNow
    BY Zenon DEF TypeOK
  <1> QED BY <1>1 DEF Active, Pruned, GroupAssumption

\* A script changes no other live slot.
LEMMA SlotScript ==
  ASSUME GroupAssumption, TypeOK, NEW e \in Electors, ScriptStep(e)
  PROVE  /\ slots' \in [Electors -> 0..(MaxNow + Lease)]
         /\ \A f \in Electors : \/ slots'[f] = slots[f]
                                \/ slots'[f] = 0 /\ slots[f] <= now
                                \/ f = e /\ slots'[f] = now + Lease /\ (Room \/ e \in Active)
                                \/ f = e /\ slots'[f] = 0 /\ pc[e] = "release"
  <1>1. /\ slots \in [Electors -> 0..(MaxNow + Lease)] /\ now \in 0..MaxNow
    BY Zenon DEF TypeOK
  <1>2. now + Lease \in 0..(MaxNow + Lease) /\ 0 \in 0..(MaxNow + Lease)
    BY <1>1 DEF GroupAssumption
  <1>3. /\ Pruned \in [Electors -> 0..(MaxNow + Lease)]
        /\ \A f \in Electors : Pruned[f] = slots[f] \/ (Pruned[f] = 0 /\ slots[f] <= now)
    BY <1>1, <1>2 DEF Pruned, GroupAssumption
  <1>4. /\ Extended(e) \in [Electors -> 0..(MaxNow + Lease)]
        /\ \A f \in Electors : Extended(e)[f] = IF f = e THEN now + Lease ELSE Pruned[f]
    BY <1>2, <1>3, Zenon DEF Extended
  <1>5. /\ [slots EXCEPT ![e] = 0] \in [Electors -> 0..(MaxNow + Lease)]
        /\ \A f \in Electors : [slots EXCEPT ![e] = 0][f] = IF f = e THEN 0 ELSE slots[f]
    BY <1>1, <1>2, Zenon
  <1> QED BY <1>1, <1>3, <1>4, <1>5, Zenon DEF ScriptStep

\* Fewer slots stay within the bound.
LEMMA FewerSlots ==
  ASSUME GroupAssumption, SlotsBounded, NEW S, S \subseteq Active
  PROVE  Cardinality(S) <= MaxLeaders
  <1>1. IsFiniteSet(Electors) /\ Active \subseteq Electors
    BY Zenon DEF GroupAssumption, Active
  <1>2. IsFiniteSet(Active) /\ Cardinality(Active) \in Nat
    BY <1>1, FS_Subset, FS_CardinalityType, Zenon
  <1>3. Cardinality(S) \in Nat /\ Cardinality(S) <= Cardinality(Active)
    BY <1>2, FS_Subset, FS_CardinalityType, Zenon
  <1> QED BY <1>2, <1>3 DEF SlotsBounded, GroupAssumption

\* No script lets more than MaxLeaders electors have a slot.
LEMMA SlotScriptBounded ==
  ASSUME GroupAssumption, TypeOK, TypeOK', SlotsBounded, NEW e \in Electors, ScriptStep(e), now' = now
  PROVE  SlotsBounded'
  <1>1. /\ Active = {f \in Electors : slots[f] > now} /\ Active' = {f \in Electors : slots'[f] > now} /\ now \in 0..MaxNow
    BY ActiveAre, ActiveAreNext, Zenon DEF TypeOK
  <1>2. \A f \in Electors : \/ slots'[f] = slots[f] \/ slots'[f] = 0
                            \/ f = e /\ slots'[f] = now + Lease /\ (Room \/ e \in Active)
    BY SlotScript, Zenon
  <1>3. ~(0 > now)
    BY <1>1 DEF GroupAssumption
  <1>4. CASE Room
    <2>1. Active' \subseteq Active \cup {e}
      BY <1>1, <1>2, <1>3, Zenon
    <2>2. IsFiniteSet(Electors) /\ Active \subseteq Electors
      BY Zenon DEF GroupAssumption, Active
    <2>3. IsFiniteSet(Active) /\ Cardinality(Active) \in Nat
      BY <2>2, FS_Subset, FS_CardinalityType, Zenon
    <2>4. IsFiniteSet(Active \cup {e}) /\ Cardinality(Active \cup {e}) <= Cardinality(Active) + 1
          /\ Cardinality(Active \cup {e}) \in Nat
      <3>1. IsFiniteSet(Active \cup {e})
            /\ (Cardinality(Active \cup {e}) = Cardinality(Active) \/ Cardinality(Active \cup {e}) = Cardinality(Active) + 1)
        BY <2>3, FS_AddElement, Zenon
      <3> QED BY <2>3, <3>1
    <2>5. Cardinality(Active') \in Nat /\ Cardinality(Active') <= Cardinality(Active \cup {e})
      BY <2>1, <2>4, FS_Subset, FS_CardinalityType, Zenon
    <2>6. Cardinality(Active) < MaxLeaders
      BY <1>4, Zenon DEF Room
    <2> QED BY <2>3, <2>4, <2>5, <2>6 DEF SlotsBounded, GroupAssumption
  <1>5. CASE ~Room
    <2>1. Active' \subseteq Active
      BY <1>1, <1>2, <1>3, <1>5, Zenon
    <2>2. Cardinality(Active') <= MaxLeaders
      BY <2>1, FewerSlots, Zenon
    <2> QED BY <2>2, Zenon DEF SlotsBounded
  <1> QED BY <1>4, <1>5, Zenon

LoopStates == {"none", "waiting", "renewing", "failed", "done"}
Labels == {"idle", "acquire", "poll", "won", "ending", "join", "release"}

\* A campaign that can have one more acquisition has a number for it.
LEMMA NextLoop ==
  ASSUME GroupAssumption, TypeOK, NEW e \in Electors, Numbered(e), pc[e] = "won"
  PROVE  started[e] + 1 \in Loops /\ started[e] \in Nat /\ started[e] + 1 > started[e]
  <1>1. started[e] \in Loops \cup {0} /\ started[e] < MaxLoops[e]
    BY Zenon DEF TypeOK, Numbered
  <1>2. MaxLoops[e] \in Nat /\ \A f \in Electors : MaxLoops[f] \in Nat
    BY Zenon DEF GroupAssumption
  <1>3. started[e] \in Nat
    BY <1>1, <1>2 DEF Loops
  <1>4. started[e] + 1 \in 1..MaxLoops[e]
    BY <1>1, <1>2, <1>3
  <1> QED BY <1>3, <1>4 DEF Loops

\* What a step of elector e does to the other variables.
LEMMA Updates ==
  ASSUME GroupAssumption, TypeOK, NEW e \in Electors, StepOf(e), Numbered(e)
  PROVE  /\ \E x \in BOOLEAN : owned' = [owned EXCEPT ![e] = x]
         /\ \E x \in BOOLEAN : active' = [active EXCEPT ![e] = x]
         /\ \E x \in Loops \cup {0} : handle' = [handle EXCEPT ![e] = x]
         /\ \E x \in Loops \cup {0} : started' = [started EXCEPT ![e] = x]
         /\ loop' = loop \/ \E l \in Loops, x \in LoopStates : loop' = [loop EXCEPT ![e][l] = x]
         /\ cancelled' = cancelled \/ \E x \in SUBSET Loops : cancelled' = [cancelled EXCEPT ![e] = @ \cup x]
         /\ \E x \in Labels : pc' = [pc EXCEPT ![e] = x]
         /\ \E x \in Loops \cup {0} : joined' = [joined EXCEPT ![e] = x]
         /\ granted' = granted \/ granted' = [granted EXCEPT ![e] = now + Lease]
         /\ gaveUp' = gaveUp \/ (gaveUp' = gaveUp \cup {e})
  <1>1. /\ owned \in [Electors -> BOOLEAN] /\ active \in [Electors -> BOOLEAN]
        /\ handle \in [Electors -> Loops \cup {0}] /\ started \in [Electors -> Loops \cup {0}]
        /\ pc \in [Electors -> Labels] /\ joined \in [Electors -> Loops \cup {0}]
    BY Zenon DEF TypeOK, Labels
  <1>2. /\ owned = [owned EXCEPT ![e] = owned[e]] /\ active = [active EXCEPT ![e] = active[e]]
        /\ handle = [handle EXCEPT ![e] = handle[e]] /\ started = [started EXCEPT ![e] = started[e]]
        /\ pc = [pc EXCEPT ![e] = pc[e]] /\ joined = [joined EXCEPT ![e] = joined[e]]
    BY <1>1, Zenon
  <1>3. /\ owned[e] \in BOOLEAN /\ active[e] \in BOOLEAN /\ handle[e] \in Loops \cup {0} /\ started[e] \in Loops \cup {0}
        /\ pc[e] \in Labels /\ joined[e] \in Loops \cup {0} /\ (active[e] /\ owned[e]) \in BOOLEAN
    BY <1>1, Zenon
  <1> DEFINE Own == \E x \in BOOLEAN : owned' = [owned EXCEPT ![e] = x]
             Act == \E x \in BOOLEAN : active' = [active EXCEPT ![e] = x]
             Han == \E x \in Loops \cup {0} : handle' = [handle EXCEPT ![e] = x]
             Sta == \E x \in Loops \cup {0} : started' = [started EXCEPT ![e] = x]
             Loo == loop' = loop \/ \E l \in Loops, x \in LoopStates : loop' = [loop EXCEPT ![e][l] = x]
             Can == cancelled' = cancelled \/ \E x \in SUBSET Loops : cancelled' = [cancelled EXCEPT ![e] = @ \cup x]
             Lab == \E x \in Labels : pc' = [pc EXCEPT ![e] = x]
             Joi == \E x \in Loops \cup {0} : joined' = [joined EXCEPT ![e] = x]
             Gra == granted' = granted \/ granted' = [granted EXCEPT ![e] = now + Lease]
             Gav == gaveUp' = gaveUp \/ (gaveUp' = gaveUp \cup {e})
  <1>4. ASSUME Call(e) PROVE Own /\ Act /\ Han /\ Sta /\ Loo /\ Can /\ Lab /\ Joi /\ Gra /\ Gav
    <2>1. CASE Won(e)
      <3>1. started[e] + 1 \in Loops
        BY <2>1, NextLoop, Zenon DEF Won
      <3> QED BY <1>2, <1>3, <2>1, <3>1, Zenon DEF Won, Goto, Labels, LoopStates
    <2>2. CASE acquire(e) \/ acquireUnknown(e) \/ Poll(e) \/ Join(e)
      BY <1>2, <1>3, <2>2, Zenon DEF acquire, acquireUnknown, Poll, Join, Goto, Labels, Confirm, elector
    <2>3. CASE release(e) \/ JoinTimeout(e)
      BY <1>2, <1>3, <2>3, Zenon DEF release, JoinTimeout, Goto, Labels, elector
    <2>4. CASE Campaign(e) \/ clearCampaigning(e)
      BY <1>2, <1>3, <2>4, Zenon DEF Campaign, clearCampaigning, Goto, Labels
    <2>5. CASE Resign(e)
      <3>1. {handle[e]} \cap Loops \in SUBSET Loops
        BY Zenon
      <3> QED BY <1>2, <1>3, <2>5, <3>1, Zenon DEF Resign, Goto, Labels
    <2> QED BY <1>4, <2>1, <2>2, <2>3, <2>4, <2>5, Zenon DEF Call
  <1>5. ASSUME NEW l \in Loops, renewLoop(e, l) PROVE Own /\ Act /\ Han /\ Sta /\ Loo /\ Can /\ Lab /\ Joi /\ Gra /\ Gav
    <2>1. CASE LoopStop(e, l) \/ RenewTick(e, l)
      BY <1>2, <1>3, <2>1, Zenon DEF LoopStop, RenewTick, SetLoop, LoopStates, elector
    <2>2. CASE renew(e, l) \/ renewUnknown(e, l)
      BY <1>2, <1>3, <2>2, Zenon DEF renew, renewUnknown, SetLoop, LoopStates, elector, Confirm
    <2>3. CASE renewFailed(e, l)
      BY <1>2, <1>3, <2>3, Zenon DEF renewFailed, SetLoop, LoopStates
    <2> QED BY <1>5, <2>1, <2>2, <2>3, Zenon DEF renewLoop
  <1> HIDE DEF Own, Act, Han, Sta, Loo, Can, Lab, Joi, Gra, Gav
  <1>6. Own /\ Act /\ Han /\ Sta /\ Loo /\ Can /\ Lab /\ Joi /\ Gra /\ Gav
    BY <1>4, <1>5, Zenon DEF StepOf
  <1> QED BY <1>6, Zenon DEF Own, Act, Han, Sta, Loo, Can, Lab, Joi, Gra, Gav

\* ... so that every variable keeps its type.
LEMMA StepTypes ==
  ASSUME GroupAssumption, TypeOK, NEW e \in Electors, StepOf(e), Numbered(e)
  PROVE  TypeOK'
  <1>1. slots' \in [Electors -> 0..(MaxNow + Lease)] /\ now' = now
    BY Scripts, SlotScript, Zenon
  <1>2. owned' \in [Electors -> BOOLEAN] /\ active' \in [Electors -> BOOLEAN]
    BY Updates, Zenon DEF TypeOK
  <1> DEFINE Numbers == Loops \cup {0}
  <1>3. /\ handle' \in [Electors -> Numbers] /\ started' \in [Electors -> Numbers] /\ joined' \in [Electors -> Numbers]
    <2>1. /\ handle \in [Electors -> Numbers] /\ started \in [Electors -> Numbers] /\ joined \in [Electors -> Numbers]
      BY Zenon DEF TypeOK
    <2>2. /\ \E x \in Numbers : handle' = [handle EXCEPT ![e] = x]
          /\ \E x \in Numbers : started' = [started EXCEPT ![e] = x]
          /\ \E x \in Numbers : joined' = [joined EXCEPT ![e] = x]
      BY Updates, Zenon
    <2> HIDE DEF Numbers
    <2>3. handle' \in [Electors -> Numbers]
      BY <2>1, <2>2, Zenon
    <2>4. started' \in [Electors -> Numbers]
      BY <2>1, <2>2, Zenon
    <2>5. joined' \in [Electors -> Numbers]
      BY <2>1, <2>2, Zenon
    <2> QED BY <2>3, <2>4, <2>5, Zenon
  <1>4. pc' \in [Electors -> Labels] /\ gaveUp' \subseteq Electors
    <2>1. pc \in [Electors -> Labels] /\ gaveUp \subseteq Electors
      BY Zenon DEF TypeOK, Labels
    <2>2. (\E x \in Labels : pc' = [pc EXCEPT ![e] = x]) /\ (gaveUp' = gaveUp \/ gaveUp' = gaveUp \cup {e})
      BY Updates, Zenon
    <2> QED BY <2>1, <2>2, Zenon
  <1>5. loop' \in [Electors -> [Loops -> LoopStates]]
    <2>1. loop \in [Electors -> [Loops -> LoopStates]]
      BY Zenon DEF TypeOK, LoopStates
    <2>2. ASSUME NEW l \in Loops, NEW x \in LoopStates, loop' = [loop EXCEPT ![e][l] = x]
          PROVE  loop' \in [Electors -> [Loops -> LoopStates]]
      BY <2>1, <2>2, Zenon
    <2>3. loop' = loop \/ \E l \in Loops, x \in LoopStates : loop' = [loop EXCEPT ![e][l] = x]
      BY Updates, Zenon
    <2> QED BY <2>1, <2>2, <2>3, Zenon
  <1>6. cancelled' \in [Electors -> SUBSET Loops]
    <2>1. cancelled \in [Electors -> SUBSET Loops]
      BY Zenon DEF TypeOK
    <2>2. ASSUME NEW x \in SUBSET Loops, cancelled' = [cancelled EXCEPT ![e] = @ \cup x]
          PROVE  cancelled' \in [Electors -> SUBSET Loops]
      BY <2>1, <2>2, Zenon
    <2> QED BY <2>1, <2>2, Updates, Zenon
  <1>7. granted' \in [Electors -> 0..(MaxNow + Lease)]
    <2>1. granted \in [Electors -> 0..(MaxNow + Lease)] /\ now \in 0..MaxNow
      BY Zenon DEF TypeOK
    <2>2. now + Lease \in 0..(MaxNow + Lease)
      BY <2>1 DEF GroupAssumption
    <2> QED BY <2>1, <2>2, Updates, Zenon
  <1> QED BY <1>1, <1>2, <1>3, <1>4, <1>5, <1>6, <1>7, Zenon DEF TypeOK, Labels, LoopStates

\* A step of one elector leaves the variables of the others alone.
LEMMA OthersKeep ==
  ASSUME GroupAssumption, TypeOK, NEW e \in Electors, StepOf(e), Numbered(e), NEW f \in Electors, f # e
  PROVE  /\ owned'[f] = owned[f] /\ handle'[f] = handle[f] /\ started'[f] = started[f] /\ loop'[f] = loop[f]
         /\ cancelled'[f] = cancelled[f] /\ pc'[f] = pc[f] /\ joined'[f] = joined[f] /\ granted'[f] = granted[f]
         /\ f \in gaveUp' <=> f \in gaveUp
  <1>1. /\ \E x \in BOOLEAN : owned' = [owned EXCEPT ![e] = x]
        /\ \E x \in Loops \cup {0} : handle' = [handle EXCEPT ![e] = x]
        /\ \E x \in Loops \cup {0} : started' = [started EXCEPT ![e] = x]
        /\ loop' = loop \/ \E l \in Loops, x \in LoopStates : loop' = [loop EXCEPT ![e][l] = x]
        /\ cancelled' = cancelled \/ \E x \in SUBSET Loops : cancelled' = [cancelled EXCEPT ![e] = @ \cup x]
        /\ \E x \in Labels : pc' = [pc EXCEPT ![e] = x]
        /\ \E x \in Loops \cup {0} : joined' = [joined EXCEPT ![e] = x]
        /\ granted' = granted \/ granted' = [granted EXCEPT ![e] = now + Lease]
        /\ gaveUp' = gaveUp \/ (gaveUp' = gaveUp \cup {e})
    BY Updates, Zenon
  <1>2. /\ DOMAIN owned = Electors /\ DOMAIN handle = Electors /\ DOMAIN started = Electors /\ DOMAIN loop = Electors
        /\ DOMAIN cancelled = Electors /\ DOMAIN pc = Electors /\ DOMAIN joined = Electors /\ DOMAIN granted = Electors
    BY Zenon DEF TypeOK
  <1>3. owned'[f] = owned[f] /\ handle'[f] = handle[f]
    BY <1>1, <1>2, Zenon
  <1>4. started'[f] = started[f] /\ loop'[f] = loop[f]
    BY <1>1, <1>2, Zenon
  <1>5. cancelled'[f] = cancelled[f] /\ pc'[f] = pc[f]
    BY <1>1, <1>2, Zenon
  <1>6. joined'[f] = joined[f] /\ granted'[f] = granted[f]
    BY <1>1, <1>2, Zenon
  <1>7. f \in gaveUp' <=> f \in gaveUp
    BY <1>1, Zenon
  <1> QED BY <1>3, <1>4, <1>5, <1>6, <1>7, Zenon

\* What a step of elector e does to what it was told of, and to the slot itself.
LEMMA SlotEffect ==
  ASSUME GroupAssumption, TypeOK, NEW e \in Electors, StepOf(e), Holds(e), Numbered(e)
  PROVE  /\ owned'[e] => pc'[e] \in {"idle", "ending"}
         /\ granted'[e] = granted[e] \/ granted'[e] = now + Lease
         /\ owned'[e] \/ pc'[e] = "won" =>
              \/ granted'[e] = now + Lease /\ slots'[e] = now + Lease
              \/ granted'[e] = granted[e] /\ (owned[e] \/ pc[e] = "won") /\ pc[e] # "release"
  <1>1. /\ owned \in [Electors -> BOOLEAN] /\ pc \in [Electors -> Labels] /\ slots \in [Electors -> 0..(MaxNow + Lease)]
        /\ granted \in [Electors -> 0..(MaxNow + Lease)] /\ Pruned \in [Electors -> {Pruned[f] : f \in Electors}]
    BY Zenon DEF TypeOK, Labels, Pruned
  <1>2. owned[e] => pc[e] \in {"idle", "ending"}
    BY Zenon DEF Holds
  <1>3. Extended(e)[e] = now + Lease
    BY <1>1, Zenon DEF Extended
  <1> DEFINE Goal == /\ owned'[e] => pc'[e] \in {"idle", "ending"}
                     /\ granted'[e] = granted[e] \/ granted'[e] = now + Lease
                     /\ owned'[e] \/ pc'[e] = "won" =>
                          \/ granted'[e] = now + Lease /\ slots'[e] = now + Lease
                          \/ granted'[e] = granted[e] /\ (owned[e] \/ pc[e] = "won") /\ pc[e] # "release"
  <1>4. CASE Campaign(e) \/ Poll(e) \/ acquireUnknown(e)
    <2>1. granted' = granted /\ owned' = owned /\ pc[e] \in {"idle", "poll", "acquire"} /\ (pc[e] = "idle" => ~owned[e])
          /\ pc'[e] \in {"acquire", "ending"}
      BY <1>1, <1>4, Zenon DEF Campaign, Poll, acquireUnknown, Goto, elector
    <2> QED BY <1>2, <2>1, Zenon
  <1>5. CASE acquire(e)
    <2>1. /\ owned' = owned /\ pc[e] = "acquire"
          /\ \/ granted'[e] = now + Lease /\ slots'[e] = now + Lease /\ pc'[e] = "won"
             \/ granted' = granted /\ pc'[e] = "poll"
      BY <1>1, <1>3, <1>5, Zenon DEF acquire, Goto, Confirm, elector
    <2> QED BY <1>2, <2>1, Zenon
  <1>6. CASE Won(e)
    <2>1. granted' = granted /\ pc[e] = "won" /\ pc'[e] = "ending"
      BY <1>1, <1>6, Zenon DEF Won, Goto
    <2> QED BY <2>1, Zenon
  <1>7. CASE clearCampaigning(e)
    <2>1. granted' = granted /\ owned' = owned /\ pc[e] = "ending" /\ pc'[e] = "idle"
      BY <1>1, <1>7, Zenon DEF clearCampaigning, Goto
    <2> QED BY <2>1, Zenon
  <1>8. CASE Resign(e)
    <2>1. granted' = granted /\ owned'[e] = FALSE /\ pc'[e] = "join"
      BY <1>1, <1>8, Zenon DEF Resign, Goto
    <2> QED BY <2>1, Zenon
  <1>9. CASE Join(e) \/ JoinTimeout(e) \/ release(e)
    <2>1. granted' = granted /\ owned' = owned /\ pc[e] \in {"join", "release"} /\ pc'[e] \in {"release", "idle"}
      BY <1>1, <1>9, Zenon DEF Join, JoinTimeout, release, Goto, elector
    <2> QED BY <1>2, <2>1, Zenon
  <1>10. ASSUME NEW l \in Loops, renewLoop(e, l) PROVE Goal
    <2>1. CASE LoopStop(e, l) \/ RenewTick(e, l) \/ renewUnknown(e, l)
      <3>1. granted' = granted /\ owned' = owned /\ pc' = pc
        BY <2>1, Zenon DEF LoopStop, RenewTick, renewUnknown, elector
      <3> QED BY <1>2, <3>1, Zenon
    <2>2. CASE renew(e, l)
      <3>1. /\ owned' = owned /\ pc' = pc
            /\ (granted'[e] = now + Lease /\ slots'[e] = now + Lease) \/ granted' = granted
        BY <1>1, <1>3, <2>2, Zenon DEF renew, Confirm, elector
      <3> QED BY <1>2, <3>1, Zenon
    <2>3. CASE renewFailed(e, l)
      <3>1. granted' = granted /\ owned'[e] = FALSE /\ pc' = pc
        BY <1>1, <2>3, Zenon DEF renewFailed
      <3> QED BY <3>1, Zenon
    <2> QED BY <1>10, <2>1, <2>2, <2>3, Zenon DEF renewLoop
  <1> HIDE DEF Goal
  <1>11. Goal
    BY <1>4, <1>5, <1>6, <1>7, <1>8, <1>9, <1>10, Zenon DEF StepOf, Call, Goal
  <1> QED BY <1>11, Zenon DEF Goal

\* A slot keeps to what its elector was told.
LEMMA StepHolds ==
  ASSUME GroupAssumption, TypeOK, NEW e \in Electors, StepOf(e), HoldInv, Numbered(e)
  PROVE  HoldInv'
  <1> SUFFICES ASSUME NEW f \in Electors PROVE Holds(f)'
    BY Zenon DEF HoldInv
  <1>1. Holds(f) /\ Holds(e) /\ now' = now /\ ScriptStep(e)
    BY Scripts, Zenon DEF HoldInv
  <1>2. TypeOK'
    BY StepTypes, Zenon
  <1>3. /\ slots[f] \in Nat /\ granted[f] \in Nat /\ slots'[f] \in Nat /\ granted'[f] \in Nat /\ now \in Nat
           /\ Lease \in Nat
    BY <1>2 DEF TypeOK, GroupAssumption
  <1>4. \/ slots'[f] = slots[f]
        \/ slots'[f] = 0 /\ slots[f] <= now
        \/ f = e /\ slots'[f] = now + Lease
        \/ f = e /\ slots'[f] = 0 /\ pc[e] = "release"
    <2>1. \A g \in Electors : \/ slots'[g] = slots[g]
                              \/ slots'[g] = 0 /\ slots[g] <= now
                              \/ g = e /\ slots'[g] = now + Lease /\ (Room \/ e \in Active)
                              \/ g = e /\ slots'[g] = 0 /\ pc[e] = "release"
      BY <1>1, SlotScript, Zenon
    <2> QED BY <2>1, Zenon
  <1>5. CASE f # e
    <2>1. owned'[f] = owned[f] /\ pc'[f] = pc[f] /\ granted'[f] = granted[f]
      BY <1>5, OthersKeep, Zenon
    <2> QED BY <1>1, <1>3, <1>4, <1>5, <2>1 DEF Holds
  <1>6. CASE f = e
    <2>1. /\ owned'[e] => pc'[e] \in {"idle", "ending"}
          /\ granted'[e] = granted[e] \/ granted'[e] = now + Lease
          /\ owned'[e] \/ pc'[e] = "won" =>
               \/ granted'[e] = now + Lease /\ slots'[e] = now + Lease
               \/ granted'[e] = granted[e] /\ (owned[e] \/ pc[e] = "won") /\ pc[e] # "release"
      BY <1>1, SlotEffect, Zenon
    <2>2. granted'[e] <= now + Lease
      BY <1>1, <1>3, <1>6, <2>1 DEF Holds
    <2>3. ASSUME owned'[e] \/ pc'[e] = "won", now < granted'[e] PROVE slots'[e] >= granted'[e]
      <3>1. CASE granted'[e] = now + Lease /\ slots'[e] = now + Lease
        BY <1>3, <3>1
      <3>2. CASE granted'[e] = granted[e] /\ (owned[e] \/ pc[e] = "won") /\ pc[e] # "release"
        <4>1. slots[e] >= granted[e] /\ granted[e] <= now + Lease
          BY <1>1, <2>3, <3>2, Zenon DEF Holds
        <4>2. slots'[e] = slots[e] \/ (slots'[e] = 0 /\ slots[e] <= now) \/ slots'[e] = now + Lease
          BY <1>4, <1>6, <3>2, Zenon
        <4> QED BY <1>3, <1>6, <2>3, <3>2, <4>1, <4>2
      <3> QED BY <2>1, <2>3, <3>1, <3>2, Zenon
    <2> QED BY <1>1, <1>6, <2>1, <2>2, <2>3, Zenon DEF Holds
  <1> QED BY <1>5, <1>6, Zenon

\* The numbers of the acquisitions are natural.
LEMMA LoopNumbers ==
  ASSUME GroupAssumption
  PROVE  0 \notin Loops /\ \A l \in Loops : l \in Nat /\ l > 0
  <1>1. \A f \in Electors : MaxLoops[f] \in Nat
    BY Zenon DEF GroupAssumption
  <1> QED BY <1>1 DEF Loops

\* A step of a call that leaves the loops of the elector alone.
LEMMA CallLoops ==
  ASSUME GroupAssumption, TypeOK, NEW e \in Electors, Holds(e), Numbered(e), e \notin gaveUp => OneLoop(e),
         Campaign(e) \/ acquire(e) \/ acquireUnknown(e) \/ Poll(e) \/ clearCampaigning(e)
         \/ Join(e) \/ JoinTimeout(e) \/ release(e)
  PROVE  Numbered(e)' /\ (e \notin gaveUp' => OneLoop(e)')
  <1>1. UNCHANGED <<owned, handle, started, loop, cancelled>> /\ pc \in [Electors -> Labels]
    <2>1. UNCHANGED <<owned, handle, started, loop, cancelled>>
      BY Zenon DEF Campaign, acquire, acquireUnknown, Poll, clearCampaigning, Join, JoinTimeout, release, elector
    <2> QED BY <2>1, Zenon DEF TypeOK, Labels
  <1>2. Numbered(e)'
    <2>1. pc'[e] \in {"acquire", "poll", "won"} => started[e] < MaxLoops[e]
      <3>1. CASE Campaign(e)
        BY <3>1, Zenon DEF Campaign
      <3>2. CASE acquire(e) \/ acquireUnknown(e) \/ Poll(e)
        BY <3>2, Zenon DEF acquire, acquireUnknown, Poll, Numbered
      <3>3. CASE clearCampaigning(e) \/ Join(e) \/ JoinTimeout(e) \/ release(e)
        <4>1. pc'[e] \in {"idle", "release"}
          BY <1>1, <3>3, Zenon DEF clearCampaigning, Join, JoinTimeout, release, Goto
        <4> QED BY <4>1, Zenon
      <3> QED BY <3>1, <3>2, <3>3, Zenon
    <2> QED BY <1>1, <2>1, Zenon DEF Numbered
  <1>3. ASSUME e \notin gaveUp' PROVE OneLoop(e)'
    <2>1. CASE Campaign(e) \/ acquire(e) \/ acquireUnknown(e) \/ Poll(e) \/ clearCampaigning(e)
      <3>1. pc[e] # "join" /\ gaveUp' = gaveUp
        BY <2>1, Zenon DEF Campaign, acquire, acquireUnknown, Poll, clearCampaigning
      <3> QED BY <1>1, <1>3, <3>1, Zenon DEF OneLoop
    <2>2. CASE Join(e) \/ release(e)
      <3>1. gaveUp' = gaveUp /\ pc[e] \in {"join", "release"} /\ (pc[e] = "join" /\ joined[e] # 0
            => loop[e][joined[e]] = "done")
        BY <2>2, Zenon DEF Join, release
      <3>2. ~owned[e]
        BY <3>1, Zenon DEF Holds
      <3>3. \A l \in Loops : loop[e][l] \notin Running
        <4> SUFFICES ASSUME NEW l \in Loops, loop[e][l] \in Running PROVE FALSE
          BY Zenon
        <4>1. pc[e] = "join" /\ joined[e] = l
          BY <1>3, <3>1, <3>2, Zenon DEF OneLoop
        <4>2. l # 0
          BY LoopNumbers, Zenon
        <4> QED BY <3>1, <4>1, <4>2, Zenon DEF Running
      <3> QED BY <1>1, <3>2, <3>3, Zenon DEF OneLoop
    <2>3. CASE JoinTimeout(e)
      BY <1>3, <2>3, Zenon DEF JoinTimeout
    <2> QED BY <2>1, <2>2, <2>3, Zenon
  <1> QED BY <1>2, <1>3, Zenon

\* The winner's section starts the next loop.
LEMMA WonLoops ==
  ASSUME GroupAssumption, TypeOK, NEW e \in Electors, Holds(e), Numbered(e), e \notin gaveUp => OneLoop(e), Won(e)
  PROVE  Numbered(e)' /\ (e \notin gaveUp' => OneLoop(e)')
  <1> DEFINE l == started[e] + 1
  <1>1. l \in Loops /\ started[e] \in Nat /\ l > started[e]
    BY NextLoop, Zenon DEF Won
  <1>2. /\ pc[e] = "won" /\ ~owned[e] /\ gaveUp' = gaveUp /\ cancelled' = cancelled
    BY Zenon DEF Won, Holds
  <1>3. loop'[e][l] = "waiting" /\ \A k \in Loops : k # l => loop'[e][k] = loop[e][k]
    <2>1. loop \in [Electors -> [Loops -> LoopStates]] /\ loop' = [loop EXCEPT ![e][l] = "waiting"]
      BY Zenon DEF Won, TypeOK, LoopStates
    <2> QED BY <1>1, <2>1, Zenon
  <1>4. owned'[e] /\ handle'[e] = l /\ started'[e] = l /\ pc'[e] = "ending"
    <2>1. /\ DOMAIN owned = Electors /\ DOMAIN handle = Electors /\ DOMAIN started = Electors /\ DOMAIN pc = Electors
      BY Zenon DEF TypeOK
    <2> QED BY <2>1, Zenon DEF Won, Goto
  <1>5. l <= l /\ \A k \in Loops : k > l => k > started[e] /\ k # l
    BY <1>1, LoopNumbers
  <1>6. l \notin cancelled[e]
    BY <1>1, Zenon DEF Numbered
  <1> HIDE DEF l
  <1>7. Numbered(e)'
    BY <1>2, <1>3, <1>4, <1>5, Zenon DEF Numbered
  <1>8. ASSUME e \notin gaveUp' PROVE OneLoop(e)'
    <2>1. \A k \in Loops : loop[e][k] \notin Running
      BY <1>2, <1>8, Zenon DEF OneLoop
    <2>2. "waiting" \in Running
      BY Zenon DEF Running
    <2> QED BY <1>1, <1>2, <1>3, <1>4, <1>6, <2>1, <2>2, Zenon DEF OneLoop
  <1> QED BY <1>7, <1>8, Zenon

\* The first section of Resign cancels the loop.
LEMMA ResignLoops ==
  ASSUME GroupAssumption, TypeOK, NEW e \in Electors, Numbered(e), e \notin gaveUp => OneLoop(e), Resign(e)
  PROVE  Numbered(e)' /\ (e \notin gaveUp' => OneLoop(e)')
  <1>1. owned[e] /\ gaveUp' = gaveUp /\ loop' = loop /\ started' = started /\ pc[e] = "idle"
    BY Zenon DEF Resign
  <1>2. /\ ~owned'[e] /\ handle'[e] = 0 /\ pc'[e] = "join" /\ joined'[e] = handle[e]
        /\ cancelled'[e] = cancelled[e] \cup ({handle[e]} \cap Loops)
    <2>1. /\ DOMAIN owned = Electors /\ DOMAIN handle = Electors /\ DOMAIN joined = Electors /\ DOMAIN pc = Electors
          /\ DOMAIN cancelled = Electors
      BY Zenon DEF TypeOK
    <2>2. ~owned'[e] /\ handle'[e] = 0 /\ pc'[e] = "join" /\ joined'[e] = handle[e]
      BY <2>1, Zenon DEF Resign, Goto
    <2>3. cancelled'[e] = cancelled[e] \cup ({handle[e]} \cap Loops)
      BY <2>1, Zenon DEF Resign
    <2> QED BY <2>2, <2>3, Zenon
  <1>3. started[e] \in Nat /\ handle[e] \in Nat
    <2>1. started[e] \in Loops \cup {0} /\ handle[e] \in Loops \cup {0}
      BY Zenon DEF TypeOK
    <2> QED BY <2>1, LoopNumbers
  <1>4. Numbered(e)'
    <2>1. \A k \in Loops : k > started[e] => k # handle[e]
      BY <1>3, LoopNumbers DEF Numbered
    <2>2. 0 <= started[e]
      BY <1>3
    <2>3. \A k \in Loops : k > started[e] => k \notin cancelled'[e] /\ loop'[e][k] = "none"
      BY <1>1, <1>2, <2>1, Zenon DEF Numbered
    <2>4. pc'[e] \notin {"acquire", "poll", "won"}
      BY <1>2, Zenon
    <2> QED BY <1>1, <1>2, <2>2, <2>3, <2>4, Zenon DEF Numbered
  <1>5. ASSUME e \notin gaveUp' PROVE OneLoop(e)'
    <2>1. \A l \in Loops : loop[e][l] \in Running => handle[e] = l
      BY <1>1, <1>5, Zenon DEF OneLoop
    <2> QED BY <1>1, <1>2, <2>1, Zenon DEF OneLoop
  <1> QED BY <1>4, <1>5, Zenon

\* A step of a loop.
LEMMA RenewLoops ==
  ASSUME GroupAssumption, TypeOK, NEW e \in Electors, Holds(e), Numbered(e), e \notin gaveUp => OneLoop(e),
         NEW l \in Loops, renewLoop(e, l)
  PROVE  Numbered(e)' /\ (e \notin gaveUp' => OneLoop(e)')
  <1>1. UNCHANGED <<started, cancelled, pc, joined, gaveUp>> /\ loop[e][l] \in Running
    BY Zenon DEF renewLoop, LoopStop, RenewTick, renew, renewUnknown, renewFailed, Running
  <1>2. PICK x \in {"waiting", "renewing", "failed", "done"} : loop' = [loop EXCEPT ![e][l] = x]
    BY Zenon DEF renewLoop, LoopStop, RenewTick, renew, renewUnknown, renewFailed, SetLoop
  <1>3. loop'[e][l] = x /\ \A k \in Loops : k # l => loop'[e][k] = loop[e][k]
    <2>1. loop \in [Electors -> [Loops -> LoopStates]]
      BY Zenon DEF TypeOK, LoopStates
    <2> QED BY <1>2, <2>1, Zenon
  <1>4. \/ UNCHANGED <<owned, handle>> /\ (x = "done" => l \in cancelled[e])
        \/ x = "done" /\ ~owned'[e] /\ handle'[e] = 0
    <2>1. CASE renewFailed(e, l)
      <3>1. DOMAIN owned = Electors /\ DOMAIN handle = Electors
        BY Zenon DEF TypeOK
      <3>2. ~owned'[e] /\ handle'[e] = 0 /\ loop' = [loop EXCEPT ![e][l] = "done"]
        BY <2>1, <3>1, Zenon DEF renewFailed, SetLoop
      <3>3. loop'[e][l] = "done"
        <4>1. loop \in [Electors -> [Loops -> LoopStates]]
          BY Zenon DEF TypeOK, LoopStates
        <4> QED BY <3>2, <4>1, Zenon
      <3> QED BY <1>3, <3>2, <3>3, Zenon
    <2>2. CASE LoopStop(e, l)
      BY <2>2, Zenon DEF LoopStop, elector
    <2>3. CASE RenewTick(e, l) \/ renew(e, l) \/ renewUnknown(e, l)
      <3>1. UNCHANGED <<owned, handle>> /\ \E y \in {"waiting", "renewing", "failed"} : loop' = [loop EXCEPT ![e][l] = y]
        BY <2>3, Zenon DEF RenewTick, renew, renewUnknown, SetLoop, elector
      <3>2. loop'[e][l] \in {"waiting", "renewing", "failed"}
        <4>1. loop \in [Electors -> [Loops -> LoopStates]]
          BY Zenon DEF TypeOK, LoopStates
        <4> QED BY <3>1, <4>1, Zenon
      <3> QED BY <1>3, <3>1, <3>2, Zenon
    <2> QED BY <2>1, <2>2, <2>3, Zenon DEF renewLoop
  <1>5. Numbered(e)'
    <2>1. "none" \notin Running
      BY Zenon DEF Running
    <2>2. ~(l > started[e])
      BY <1>1, <2>1, Zenon DEF Numbered
    <2>3. \A k \in Loops : k > started[e] => loop'[e][k] = "none"
      BY <1>3, <2>2, Zenon DEF Numbered
    <2>4. 0 <= started[e]
      <3>1. started[e] \in Loops \cup {0}
        BY Zenon DEF TypeOK
      <3> QED BY <3>1, LoopNumbers
    <2>5. handle'[e] <= started[e]
      BY <1>4, <2>4, Zenon DEF Numbered
    <2> QED BY <1>1, <2>3, <2>5, Zenon DEF Numbered
  <1>6. ASSUME e \notin gaveUp' PROVE OneLoop(e)'
    <2>1. OneLoop(e) /\ (owned[e] => pc[e] # "join")
      BY <1>1, <1>6, Zenon DEF Holds
    <2>2. "done" \notin Running /\ (x # "done" => x \in Running)
      BY Zenon DEF Running
    <2>3. \A k \in Loops : loop[e][k] \in Running => k = l
      BY <1>1, <2>1, Zenon DEF OneLoop
    <2>4. CASE UNCHANGED <<owned, handle>> /\ (x = "done" => l \in cancelled[e])
      <3>1. ASSUME owned[e] PROVE loop'[e][handle[e]] \in Running
        <4>1. handle[e] = l /\ l \notin cancelled[e]
          BY <2>1, <2>3, <3>1, Zenon DEF OneLoop
        <4> QED BY <1>3, <2>2, <2>4, <4>1, Zenon
      <3>2. \A k \in Loops : loop'[e][k] \in Running => loop[e][k] \in Running
        BY <1>1, <1>3, Zenon
      <3> QED BY <1>1, <2>1, <2>4, <3>1, <3>2, Zenon DEF OneLoop
    <2>5. CASE x = "done" /\ ~owned'[e] /\ handle'[e] = 0
      <3>1. \A k \in Loops : loop'[e][k] \notin Running
        BY <1>3, <2>2, <2>3, <2>5, Zenon
      <3> QED BY <2>5, <3>1, Zenon DEF OneLoop
    <2> QED BY <1>4, <2>4, <2>5, Zenon
  <1> QED BY <1>5, <1>6, Zenon

GroupInv == TypeOK /\ HoldInv /\ LoopInv /\ SlotsBounded

\* The invariant holds initially.
LEMMA InitGroup ==
  ASSUME GroupAssumption, Init
  PROVE  GroupInv
  <1>1. TypeOK
    <2>1. 0 \in 0..MaxNow /\ 0 \in 0..(MaxNow + Lease)
      BY DEF GroupAssumption
    <2> QED BY <2>1, Zenon DEF Init, TypeOK
  <1>2. HoldInv
    <2>1. \A e \in Electors : granted[e] = 0 /\ ~owned[e] /\ pc[e] = "idle"
      BY Zenon DEF Init
    <2>2. 0 <= now + Lease
      BY DEF Init, GroupAssumption
    <2>3. "idle" # "won"
      BY Zenon
    <2> QED BY <2>1, <2>2, <2>3, Zenon DEF HoldInv, Holds
  <1>3. LoopInv
    <2>1. \A e \in Electors : /\ ~owned[e] /\ pc[e] = "idle" /\ handle[e] = 0 /\ started[e] = 0 /\ cancelled[e] = {}
                              /\ \A l \in Loops : loop[e][l] = "none"
      BY Zenon DEF Init
    <2>2. 0 <= 0 /\ "none" \notin Running /\ "idle" \notin {"acquire", "poll", "won"}
      BY DEF Running
    <2>3. \A e \in Electors : Numbered(e)
      BY <2>1, <2>2, Zenon DEF Numbered
    <2>4. \A e \in Electors : OneLoop(e)
      BY <2>1, <2>2, Zenon DEF OneLoop
    <2> QED BY <2>3, <2>4, Zenon DEF LoopInv
  <1>4. SlotsBounded
    <2>1. Active = {}
      BY Zenon DEF Init, Active, Pruned
    <2> QED BY <2>1, FS_EmptySet DEF SlotsBounded, GroupAssumption
  <1> QED BY <1>1, <1>2, <1>3, <1>4, Zenon DEF GroupInv

\* Every step keeps the invariant.
LEMMA NextGroup ==
  ASSUME GroupAssumption, GroupInv, [Next]_vars
  PROVE  GroupInv'
  <1>1. ASSUME NEW e \in Electors, StepOf(e) PROVE GroupInv'
    <2>1. TypeOK /\ HoldInv /\ Holds(e) /\ Numbered(e) /\ (e \notin gaveUp => OneLoop(e)) /\ SlotsBounded
      BY Zenon DEF GroupInv, HoldInv, LoopInv
    <2>2. TypeOK'
      BY <1>1, <2>1, StepTypes, Zenon
    <2>3. HoldInv'
      BY <1>1, <2>1, StepHolds, Zenon
    <2>4. SlotsBounded'
      BY <1>1, <2>1, <2>2, Scripts, SlotScriptBounded, Zenon
    <2>5. Numbered(e)' /\ (e \notin gaveUp' => OneLoop(e)')
      <3>1. ASSUME Call(e) PROVE Numbered(e)' /\ (e \notin gaveUp' => OneLoop(e)')
        BY <2>1, <3>1, CallLoops, WonLoops, ResignLoops, Zenon DEF Call
      <3>2. ASSUME NEW l \in Loops, renewLoop(e, l) PROVE Numbered(e)' /\ (e \notin gaveUp' => OneLoop(e)')
        BY <2>1, <3>2, RenewLoops, Zenon
      <3> QED BY <1>1, <3>1, <3>2, Zenon DEF StepOf
    <2>6. ASSUME NEW f \in Electors, f # e PROVE Numbered(f)' /\ (f \notin gaveUp' => OneLoop(f)')
      <3>1. /\ owned'[f] = owned[f] /\ handle'[f] = handle[f] /\ started'[f] = started[f] /\ loop'[f] = loop[f]
            /\ cancelled'[f] = cancelled[f] /\ pc'[f] = pc[f] /\ joined'[f] = joined[f]
            /\ f \in gaveUp' <=> f \in gaveUp
        BY <1>1, <2>1, <2>6, OthersKeep, Zenon
      <3>2. Numbered(f) /\ (f \notin gaveUp => OneLoop(f))
        BY Zenon DEF GroupInv, LoopInv
      <3>3. Numbered(f)'
        BY <3>1, <3>2, Zenon DEF Numbered
      <3>4. f \notin gaveUp' => OneLoop(f)'
        BY <3>1, <3>2, Zenon DEF OneLoop
      <3> QED BY <3>3, <3>4, Zenon
    <2>7. LoopInv'
      BY <2>5, <2>6, Zenon DEF LoopInv
    <2> QED BY <2>2, <2>3, <2>4, <2>7, Zenon DEF GroupInv
  <1>2. CASE Tick
    <2>1. /\ now \in 0..MaxNow /\ now' = now + 1 /\ now < MaxNow
          /\ UNCHANGED <<slots, owned, active, handle, started, loop, cancelled, pc, joined, granted, gaveUp>>
      BY <1>2, Zenon DEF Tick, GroupInv, TypeOK, elector
    <2>2. now' \in 0..MaxNow
      BY <2>1 DEF GroupAssumption
    <2>3. TypeOK'
      BY <2>1, <2>2, Zenon DEF GroupInv, TypeOK
    <2>4. HoldInv'
      <3> SUFFICES ASSUME NEW f \in Electors PROVE Holds(f)'
        BY Zenon DEF HoldInv
      <3>1. Holds(f) /\ granted[f] \in Nat /\ Lease \in Nat /\ now \in Nat
        BY <2>1 DEF GroupInv, HoldInv, TypeOK, GroupAssumption
      <3>2. (now + 1 < granted[f] => now < granted[f]) /\ (granted[f] <= now + Lease => granted[f] <= now + 1 + Lease)
        BY <3>1
      <3> QED BY <2>1, <3>1, <3>2, Zenon DEF Holds
    <2>5. LoopInv'
      BY <2>1, Zenon DEF GroupInv, LoopInv, Numbered, OneLoop
    <2>6. SlotsBounded'
      <3>1. Active = {f \in Electors : slots[f] > now} /\ Active' = {f \in Electors : slots[f] > now + 1}
        BY <2>1, <2>3, ActiveAre, ActiveAreNext, Zenon DEF GroupInv
      <3>2. \A f \in Electors : slots[f] \in Nat
        BY DEF GroupInv, TypeOK, GroupAssumption
      <3>3. Active' \subseteq Active
        BY <2>1, <3>1, <3>2
      <3> QED BY <3>3, FewerSlots, Zenon DEF GroupInv, SlotsBounded
    <2> QED BY <2>3, <2>4, <2>5, <2>6, Zenon DEF GroupInv
  <1>3. CASE UNCHANGED vars
    <2>1. UNCHANGED <<now, slots, owned, active, handle, started, loop, cancelled, pc, joined, granted, gaveUp>>
      BY <1>3, Zenon DEF vars, elector
    <2>2. TypeOK' /\ HoldInv' /\ LoopInv'
      BY <2>1, Zenon DEF GroupInv, TypeOK, HoldInv, Holds, LoopInv, Numbered, OneLoop
    <2>3. SlotsBounded'
      BY <2>1, Zenon DEF GroupInv, SlotsBounded, Active, Pruned
    <2> QED BY <2>2, <2>3, Zenon DEF GroupInv
  <1> QED BY <1>1, <1>2, <1>3, Zenon DEF Next, StepOf

\* The invariant holds always.
LEMMA GroupInductive ==
  ASSUME GroupAssumption
  PROVE  Spec => []GroupInv
  <1>1. Init => GroupInv
    BY InitGroup, Zenon
  <1>2. GroupInv /\ [Next]_vars => GroupInv'
    BY NextGroup, Zenon
  <1> QED BY <1>1, <1>2, PTL DEF Spec

\* For any finite set of electors, any MaxLeaders and any lease: however
\* acquisitions, renewals, expiries and releases interleave and whichever of
\* them fails after it was applied, at most MaxLeaders slots are unexpired,
\* and an elector that believes it leads has one until the expiry it was told
\* of (groupAcquireScript, groupRenewScript, groupReleaseScript).
THEOREM GroupSafe ==
  ASSUME GroupAssumption
  PROVE  Spec => [](SlotsBounded /\ LeaderHoldsSlot)
  <1>1. GroupInv => SlotsBounded /\ LeaderHoldsSlot
    BY Zenon DEF GroupInv, LeaderHoldsSlot, HoldInv, Holds
  <1> QED BY <1>1, GroupInductive, PTL

\* So no more than MaxLeaders electors lead at a time: IsLeader of an elector
\* whose last known slot has not run out.
Leading == {e \in Electors : owned[e] /\ now < granted[e]}
THEOREM LeadersBounded ==
  ASSUME GroupAssumption
  PROVE  Spec => [](Cardinality(Leading) <= MaxLeaders)
  <1>1. ASSUME GroupInv PROVE Cardinality(Leading) <= MaxLeaders
    <2>1. Active = {e \in Electors : slots[e] > now}
      BY <1>1, ActiveAre, Zenon DEF GroupInv
    <2>2. ASSUME NEW e \in Leading PROVE e \in Active
      <3>1. e \in Electors /\ now < granted[e] /\ slots[e] >= granted[e]
        BY <1>1, Zenon DEF Leading, GroupInv, HoldInv, Holds
      <3>2. now \in Nat /\ granted[e] \in Nat /\ slots[e] \in Nat
        BY <1>1, <3>1 DEF GroupInv, TypeOK, GroupAssumption
      <3> QED BY <2>1, <3>1, <3>2
    <2> QED BY <1>1, <2>2, FewerSlots, Zenon DEF GroupInv
  <1> QED BY <1>1, GroupInductive, PTL

\* For any number of acquisitions: an elector none of whose Resign calls gave
\* up waiting is renewed exactly while it owns a slot, by the loop of that
\* acquisition (Campaign, renewLoop, Resign).  The calls that gave up are why
\* RenewedIffOwned fails without this condition.
THEOREM RenewedWhileOwned ==
  ASSUME GroupAssumption
  PROVE  Spec => []RenewedIffJoined
  <1>1. ASSUME GroupInv PROVE RenewedIffJoined
    <2> SUFFICES ASSUME NEW e \in Electors \ gaveUp PROVE Renewed(e)
      BY Zenon DEF RenewedIffJoined
    <2>1. OneLoop(e)
      BY <1>1, Zenon DEF GroupInv, LoopInv
    <2> QED BY <2>1, Zenon DEF OneLoop, Renewed, Running
  <1> QED BY <1>1, GroupInductive, PTL

\* Every variable of the group keeps its type.
THEOREM GroupTypeCorrect ==
  ASSUME GroupAssumption
  PROVE  Spec => []TypeOK
  <1>1. GroupInv => TypeOK
    BY Zenon DEF GroupInv
  <1> QED BY <1>1, GroupInductive, PTL

-----------------------------------------------------------------------------

CONSTANTS Clients, MaxPermits, MaxTTL, MaxTokens

VARIABLES opts, clock, leases, attempts, call, acquired

\* redis/semaphore
Sem == INSTANCE RedisSemaphore

(***************************************************************************)
(* The proof of PermitsBounded of the semaphore.  It is inductive once the  *)
(* scores are tied to the times of the attempts (Backed), which needs no    *)
(* uniqueness of the tokens: a Release takes the score and the lease of one *)
(* token together.                                                          *)
(***************************************************************************)

\* What the constants must be.
SemaphoreAssumption == MaxPermits \in Nat /\ MaxTTL \in Nat /\ MaxNow \in Nat \ {0} /\ MaxTokens \in Nat

\* A lease whose TTL has not passed since the attempt has a score that ends no sooner: acquireScript scores with the
\* clock of the server, which the call has preceded.
Backed ==
  \A t \in Sem!Tokens :
    acquired[t] # Sem!Never => acquired[t] <= clock /\ (clock < acquired[t] + opts.ttl
        => leases[t] >= acquired[t] + opts.ttl)

\* An attempt is made with the number of its token, before it reaches the server.
Attempts ==
  \A c \in Clients : call[c].at <= clock /\ (call[c].pc # "idle" => call[c].token \in Sem!Tokens)

SemInv == Sem!TypeOK /\ Attempts /\ Backed /\ Cardinality(Sem!Members) <= opts.permits

\* The instance counts like this module.
LEMMA SameCardinality ==
  ASSUME NEW S
  PROVE  Sem!Cardinality(S) = Cardinality(S)
  BY Zenon DEF Sem!Cardinality, Cardinality

\* The members are the tokens whose score is ahead of the clock.
LEMMA MembersAre ==
  ASSUME Sem!TypeOK
  PROVE  Sem!Members = {t \in Sem!Tokens : leases[t] > clock}
  BY DEF Sem!TypeOK, Sem!Members, Sem!Pruned, Sem!Tokens

\* ... after a step as well.
LEMMA MembersAreNext ==
  ASSUME Sem!TypeOK'
  PROVE  Sem!Members' = {t \in Sem!Tokens : leases'[t] > clock'}
  BY DEF Sem!TypeOK, Sem!Members, Sem!Pruned, Sem!Tokens

\* There are finitely many.
LEMMA FiniteMembers ==
  ASSUME SemaphoreAssumption, NEW S \in SUBSET Sem!Tokens
  PROVE  IsFiniteSet(S) /\ Cardinality(S) \in Nat
  <1>1. IsFiniteSet(Sem!Tokens)
    BY FS_Interval DEF Sem!Tokens, SemaphoreAssumption
  <1>2. IsFiniteSet(S)
    BY <1>1, FS_Subset, Zenon
  <1> QED BY <1>2, FS_CardinalityType, Zenon

\* Fewer members need fewer permits.
LEMMA FewerMembers ==
  ASSUME SemaphoreAssumption, Sem!TypeOK, Cardinality(Sem!Members) <= opts.permits, NEW S, S \subseteq Sem!Members
  PROVE  Cardinality(S) <= opts.permits
  <1>1. Sem!Members \in SUBSET Sem!Tokens /\ S \in SUBSET Sem!Tokens
    BY Zenon DEF Sem!Members
  <1>2. IsFiniteSet(Sem!Members) /\ Cardinality(Sem!Members) \in Nat /\ Cardinality(S) \in Nat
    BY <1>1, FiniteMembers, Zenon
  <1>3. Cardinality(S) <= Cardinality(Sem!Members)
    BY <1>2, FS_Subset, Zenon
  <1> QED BY <1>2, <1>3 DEF Sem!TypeOK

\* acquireScript drops the expired members, and adds at most the one there is room for.
LEMMA ScriptEffect ==
  ASSUME SemaphoreAssumption, Sem!TypeOK, NEW t \in Sem!Tokens, Sem!acquireScript(t), clock' = clock, opts' = opts
  PROVE  /\ leases' \in [Sem!Tokens -> 0..(MaxNow + MaxTTL)]
         /\ Sem!Room => leases'[t] = clock + opts.ttl
         /\ \A u \in Sem!Tokens : leases'[u] = leases[u] \/ (leases'[u] = 0 /\ leases[u] <= clock)
                              \/ (Sem!Room /\ u = t /\ leases'[u] = clock + opts.ttl)
  <1>1. /\ leases \in [Sem!Tokens -> 0..(MaxNow + MaxTTL)] /\ clock \in Nat /\ clock + opts.ttl \in 0..(MaxNow + MaxTTL)
    BY DEF Sem!TypeOK, SemaphoreAssumption
  <1>2. Sem!Pruned \in [Sem!Tokens -> 0..(MaxNow + MaxTTL)]
        /\ \A u \in Sem!Tokens : Sem!Pruned[u] = leases[u] \/ (Sem!Pruned[u] = 0 /\ leases[u] <= clock)
    BY <1>1 DEF Sem!Pruned, SemaphoreAssumption
  <1>3. CASE Sem!Room
    <2>1. leases' = [Sem!Pruned EXCEPT ![t] = clock + opts.ttl]
      BY <1>3, Zenon DEF Sem!acquireScript
    <2> QED BY <1>1, <1>2, <1>3, <2>1, Zenon
  <1>4. CASE ~Sem!Room
    BY <1>2, <1>4, Zenon DEF Sem!acquireScript
  <1> QED BY <1>3, <1>4, Zenon

\* ... so that the members stay within the permits.
LEMMA ScriptBounded ==
  ASSUME SemaphoreAssumption, Sem!TypeOK, Sem!TypeOK', Cardinality(Sem!Members) <= opts.permits,
         NEW t \in Sem!Tokens, Sem!acquireScript(t), clock' = clock, opts' = opts
  PROVE  Cardinality(Sem!Members') <= opts.permits
  <1>1. /\ Sem!Members = {u \in Sem!Tokens : leases[u] > clock} /\ Sem!Members' = {u \in Sem!Tokens : leases'[u] > clock}
        /\ clock \in Nat /\ opts.permits \in Nat
    BY MembersAre, MembersAreNext DEF Sem!TypeOK
  <1>2. \A u \in Sem!Tokens : leases'[u] = leases[u] \/ (leases'[u] = 0 /\ leases[u] <= clock)
                          \/ (Sem!Room /\ u = t /\ leases'[u] = clock + opts.ttl)
    BY ScriptEffect, Zenon
  <1>3. CASE Sem!Room
    <2>1. Sem!Members' \subseteq Sem!Members \cup {t} /\ Sem!Members \cup {t} \in SUBSET Sem!Tokens
          /\ Sem!Members \in SUBSET Sem!Tokens
      BY <1>1, <1>2
    <2>2. /\ IsFiniteSet(Sem!Members) /\ Cardinality(Sem!Members) \in Nat /\ IsFiniteSet(Sem!Members \cup {t})
          /\ Cardinality(Sem!Members \cup {t}) \in Nat /\ Cardinality(Sem!Members') \in Nat
      BY <2>1, FiniteMembers, Zenon
    <2>3. Cardinality(Sem!Members') <= Cardinality(Sem!Members \cup {t})
      BY <2>1, <2>2, FS_Subset, Zenon
    <2>4. Cardinality(Sem!Members \cup {t}) <= Cardinality(Sem!Members) + 1
      BY <2>2, FS_AddElement
    <2>5. Cardinality(Sem!Members) < opts.permits
      BY <1>3, SameCardinality, Zenon DEF Sem!Room
    <2> QED BY <1>1, <2>2, <2>3, <2>4, <2>5
  <1>4. CASE ~Sem!Room
    <2>1. Sem!Members' \subseteq Sem!Members
      BY <1>1, <1>2, <1>4
    <2> QED BY <2>1, FewerMembers, Zenon
  <1> QED BY <1>3, <1>4, Zenon

\* The invariant holds initially.
LEMMA InitSem ==
  ASSUME SemaphoreAssumption, Sem!Init
  PROVE  SemInv
  <1>1. Sem!TypeOK
    BY DEF Sem!Init, Sem!TypeOK, Sem!Options, SemaphoreAssumption, Sem!Never
  <1>2. Attempts /\ Backed
    BY DEF Sem!Init, Attempts, Backed
  <1>3. Sem!Members = {}
    BY Zenon DEF Sem!Init, Sem!Members, Sem!Pruned
  <1>4. Cardinality(Sem!Members) = 0
    BY <1>3, FS_EmptySet, Zenon
  <1> QED BY <1>1, <1>2, <1>4 DEF SemInv, Sem!TypeOK

\* The records of the calls.
AttemptRecords == [pc : {"idle", "acquire", "held"}, token : 0..MaxTokens, at : 0..MaxNow]

\* The scripts of acquire, answered or lost.
LEMMA AcquireSem ==
  ASSUME SemaphoreAssumption, SemInv, NEW c \in Clients, Sem!Acquired(c) \/ Sem!AcquireLost(c)
  PROVE  SemInv'
  <1> DEFINE t == call[c].token
  <1>1. /\ Sem!TypeOK /\ call \in [Clients -> AttemptRecords] /\ call[c].pc = "acquire"
        /\ UNCHANGED <<opts, clock, attempts>> /\ t \in Sem!Tokens /\ call[c].at <= clock /\ call[c].at \in 0..MaxNow
        /\ clock \in Nat /\ opts.ttl \in Nat
    BY DEF SemInv, Sem!TypeOK, AttemptRecords, Attempts, Sem!Acquired, Sem!AcquireLost
  <1>2. Sem!acquireScript(t) \/ leases' = leases
    BY Zenon DEF Sem!Acquired, Sem!AcquireLost
  <1>3. PICK p \in {"idle", "held"} : call' = [call EXCEPT ![c].pc = p]
    BY Zenon DEF Sem!Acquired, Sem!AcquireLost
  <1>4. acquired' = acquired \/ (Sem!acquireScript(t) /\ Sem!Room /\ acquired' = [acquired EXCEPT ![t] = call[c].at])
    BY Zenon DEF Sem!Acquired, Sem!AcquireLost
  <1> HIDE DEF t
  <1>5. /\ leases' \in [Sem!Tokens -> 0..(MaxNow + MaxTTL)]
        /\ \A u \in Sem!Tokens : leases'[u] = leases[u] \/ (leases'[u] = 0 /\ leases[u] <= clock)
                             \/ (u = t /\ leases'[u] = clock + opts.ttl)
        /\ Sem!acquireScript(t) /\ Sem!Room => leases'[t] = clock + opts.ttl
    BY <1>1, <1>2, ScriptEffect, Zenon DEF Sem!TypeOK
  <1>6. call' \in [Clients -> AttemptRecords] /\ \A d \in Clients : call'[d].at = call[d].at
        /\ call'[d].token = call[d].token
        /\ (call'[d].pc # "idle" => call[d].pc # "idle")
    BY <1>1, <1>3, Zenon DEF AttemptRecords
  <1>7. acquired \in [Sem!Tokens -> Sem!Never..MaxNow] /\ acquired' \in [Sem!Tokens -> Sem!Never..MaxNow]
    BY <1>1, <1>4 DEF Sem!TypeOK, Sem!Never, SemaphoreAssumption
  <1>8. Sem!TypeOK'
    BY <1>1, <1>5, <1>6, <1>7, Zenon DEF Sem!TypeOK, AttemptRecords
  <1>9. Attempts'
    BY <1>1, <1>6, Zenon DEF SemInv, Attempts
  <1>10. Backed'
    <2> SUFFICES ASSUME NEW u \in Sem!Tokens, acquired'[u] # Sem!Never
                 PROVE  /\ acquired'[u] <= clock
                        /\ clock < acquired'[u] + opts.ttl => leases'[u] >= acquired'[u] + opts.ttl
      BY <1>1, Zenon DEF Backed
    <2>1. acquired[u] # Sem!Never => acquired[u] <= clock /\ (clock < acquired[u] + opts.ttl
          => leases[u] >= acquired[u] + opts.ttl)
      BY Zenon DEF SemInv, Backed
    <2>2. acquired'[u] \in Int /\ acquired[u] \in Int /\ leases[u] \in Nat /\ leases'[u] \in Nat
      BY <1>1, <1>5, <1>7 DEF Sem!TypeOK, Sem!Never
    <2>3. acquired'[u] = acquired[u] \/ (u = t /\ acquired'[u] = call[c].at /\ leases'[u] = clock + opts.ttl)
      BY <1>4, <1>5, <1>7, Zenon
    <2>4. call[c].at \in Int /\ call[c].at <= clock /\ clock \in Nat /\ opts.ttl \in Nat
      BY <1>1
    <2>5. leases'[u] = leases[u] \/ (leases'[u] = 0 /\ leases[u] <= clock) \/ leases'[u] = clock + opts.ttl
      BY <1>5, Zenon
    <2> QED BY <2>1, <2>2, <2>3, <2>4, <2>5
  <1>11. Cardinality(Sem!Members') <= opts.permits
    <2>1. CASE Sem!acquireScript(t)
      BY <1>1, <1>8, <2>1, ScriptBounded, Zenon DEF SemInv
    <2>2. CASE leases' = leases
      <3>1. Sem!Members' = Sem!Members
        BY <1>1, <1>8, <2>2, MembersAre, MembersAreNext, Zenon
      <3> QED BY <3>1, Zenon DEF SemInv
    <2> QED BY <1>2, <2>1, <2>2, Zenon
  <1> QED BY <1>1, <1>8, <1>9, <1>10, <1>11, Zenon DEF SemInv

\* Release, which may have been called before.
LEMMA ReleaseSem ==
  ASSUME SemaphoreAssumption, SemInv, NEW c \in Clients, Sem!Release(c)
  PROVE  SemInv'
  <1> DEFINE t == call[c].token
  <1>1. /\ Sem!TypeOK /\ call \in [Clients -> AttemptRecords] /\ UNCHANGED <<opts, clock, attempts>> /\ t \in Sem!Tokens
        /\ clock \in Nat
    BY DEF SemInv, Sem!TypeOK, AttemptRecords, Attempts, Sem!Release
  <1>2. (leases' = [leases EXCEPT ![t] = 0] \/ leases' = leases) /\ acquired' = [acquired EXCEPT ![t] = Sem!Never]
    BY Zenon DEF Sem!Release, Sem!releaseScript
  <1>3. call' = [call EXCEPT ![c].pc = "idle"] \/ call' = call
    BY Zenon DEF Sem!Release
  <1> HIDE DEF t
  <1>4. call' \in [Clients -> AttemptRecords] /\ \A d \in Clients : call'[d].at = call[d].at
        /\ call'[d].token = call[d].token
        /\ (call'[d].pc # "idle" => call[d].pc # "idle")
    BY <1>1, <1>3 DEF AttemptRecords
  <1>5. /\ leases \in [Sem!Tokens -> 0..(MaxNow + MaxTTL)] /\ leases' \in [Sem!Tokens -> 0..(MaxNow + MaxTTL)]
        /\ \A u \in Sem!Tokens : leases'[u] = leases[u] \/ (u = t /\ leases'[u] = 0)
    BY <1>1, <1>2 DEF Sem!TypeOK, SemaphoreAssumption
  <1>6. /\ acquired' \in [Sem!Tokens -> Sem!Never..MaxNow] /\ acquired'[t] = Sem!Never
        /\ \A u \in Sem!Tokens \ {t} : acquired'[u] = acquired[u]
    BY <1>1, <1>2 DEF Sem!TypeOK, Sem!Never, SemaphoreAssumption
  <1>7. Sem!TypeOK'
    BY <1>1, <1>4, <1>5, <1>6, Zenon DEF Sem!TypeOK, AttemptRecords
  <1>8. Attempts'
    BY <1>1, <1>4, Zenon DEF SemInv, Attempts
  <1>9. Backed'
    BY <1>1, <1>5, <1>6, Zenon DEF SemInv, Backed
  <1>10. Cardinality(Sem!Members') <= opts.permits
    <2>1. Sem!Members' \subseteq Sem!Members
      BY <1>1, <1>5, <1>7, MembersAre, MembersAreNext
    <2> QED BY <1>1, <2>1, FewerMembers, Zenon DEF SemInv
  <1> QED BY <1>1, <1>7, <1>8, <1>9, <1>10, Zenon DEF SemInv

\* Time passes, an attempt begins.
LEMMA OtherSem ==
  ASSUME SemaphoreAssumption, SemInv, Sem!Tick \/ \E c \in Clients : Sem!TryAcquire(c)
  PROVE  SemInv'
  <1>1. Sem!TypeOK /\ UNCHANGED <<opts, leases, acquired>> /\ clock \in 1..MaxNow /\ clock' \in 1..MaxNow /\ clock <= clock'
    BY DEF SemInv, Sem!TypeOK, Sem!Tick, Sem!TryAcquire, SemaphoreAssumption
  <1>2. ASSUME Sem!Tick PROVE Sem!TypeOK' /\ Attempts'
    <2>1. Sem!TypeOK' /\ call' = call
      BY <1>1, <1>2, Zenon DEF Sem!Tick, Sem!TypeOK
    <2>2. Attempts'
      BY <1>1, <2>1 DEF SemInv, Sem!TypeOK, Attempts
    <2> QED BY <2>1, <2>2, Zenon
  <1>3. ASSUME NEW c \in Clients, Sem!TryAcquire(c) PROVE Sem!TypeOK' /\ Attempts'
    <2>1. /\ call \in [Clients -> AttemptRecords] /\ attempts + 1 \in Sem!Tokens /\ attempts' = attempts + 1
             /\ clock' = clock
          /\ call' = [call EXCEPT ![c] = [pc |-> "acquire", token |-> attempts + 1, at |-> clock]]
      BY <1>1, <1>3 DEF Sem!TryAcquire, Sem!TypeOK, AttemptRecords, Sem!Tokens, SemaphoreAssumption
    <2>2. [pc |-> "acquire", token |-> attempts + 1, at |-> clock] \in AttemptRecords
      BY <1>1, <2>1 DEF AttemptRecords, Sem!Tokens
    <2>3. call' \in [Clients -> AttemptRecords]
      BY <2>1, <2>2, Zenon
    <2>4. Sem!TypeOK'
      BY <1>1, <2>1, <2>3, Zenon DEF Sem!TypeOK, AttemptRecords, Sem!Tokens
    <2>5. Attempts'
      BY <1>1, <2>1, Zenon DEF SemInv, Attempts
    <2> QED BY <2>4, <2>5, Zenon
  <1>4. Sem!TypeOK' /\ Attempts'
    BY <1>2, <1>3, Zenon
  <1>5. Backed'
    <2> SUFFICES ASSUME NEW u \in Sem!Tokens, acquired[u] # Sem!Never
                 PROVE  /\ acquired[u] <= clock'
                        /\ clock' < acquired[u] + opts.ttl => leases[u] >= acquired[u] + opts.ttl
      BY <1>1, Zenon DEF Backed
    <2>1. acquired[u] <= clock /\ (clock < acquired[u] + opts.ttl => leases[u] >= acquired[u] + opts.ttl)
      BY Zenon DEF SemInv, Backed
    <2>2. acquired[u] \in Int /\ opts.ttl \in Int /\ leases[u] \in Int
      BY <1>1 DEF Sem!TypeOK, Sem!Never
    <2> QED BY <1>1, <2>1, <2>2
  <1>6. Cardinality(Sem!Members') <= opts.permits
    <2>1. Sem!Members' \subseteq Sem!Members
      <3>1. leases \in [Sem!Tokens -> 0..(MaxNow + MaxTTL)]
        BY <1>1, Zenon DEF Sem!TypeOK
      <3> QED BY <1>1, <1>4, <3>1, MembersAre, MembersAreNext
    <2> QED BY <1>1, <2>1, FewerMembers, Zenon DEF SemInv
  <1> QED BY <1>1, <1>4, <1>5, <1>6, Zenon DEF SemInv

\* Every step keeps the invariant.
LEMMA NextSem ==
  ASSUME SemaphoreAssumption, SemInv, [Sem!Next]_(Sem!vars)
  PROVE  SemInv'
  <1>1. ASSUME UNCHANGED Sem!vars PROVE SemInv'
    BY <1>1, Zenon DEF Sem!vars, SemInv, Sem!TypeOK, Attempts, Backed, Sem!Members, Sem!Pruned
  <1> QED BY <1>1, AcquireSem, ReleaseSem, OtherSem, Zenon DEF Sem!Next

\* The invariant holds always.
LEMMA SemInductive ==
  ASSUME SemaphoreAssumption
  PROVE  Sem!Spec => []SemInv
  <1>1. Sem!Init => SemInv
    BY InitSem, Zenon
  <1>2. SemInv /\ [Sem!Next]_(Sem!vars) => SemInv'
    BY NextSem, Zenon
  <1> QED BY <1>1, <1>2, PTL DEF Sem!Spec

\* For any clients, permits and TTL: a lease its caller has is a permit while
\* its TTL lasts, whoever releases late or twice and whatever answers are
\* lost, and the permits never exceed opts.permits (acquireScript, releaseScript).
THEOREM PermitsSafe ==
  ASSUME SemaphoreAssumption
  PROVE  Sem!Spec => []Sem!PermitsBounded
  <1>1. ASSUME SemInv PROVE Sem!PermitsBounded
    <2>1. ASSUME NEW u \in Sem!Live PROVE u \in Sem!Members
      <3>1. u \in Sem!Tokens /\ acquired[u] # Sem!Never /\ clock < acquired[u] + opts.ttl
        BY Zenon DEF Sem!Live
      <3>2. leases[u] >= acquired[u] + opts.ttl /\ acquired[u] \in Int /\ opts.ttl \in Int /\ leases[u] \in Int
            /\ clock \in Int
        BY <1>1, <3>1 DEF SemInv, Backed, Sem!TypeOK, Sem!Never
      <3> QED BY <1>1, <3>1, <3>2, MembersAre DEF SemInv
    <2> QED BY <1>1, <2>1, SameCardinality, Zenon DEF SemInv, Sem!PermitsBounded
  <1> QED BY <1>1, SemInductive, PTL

\* Every variable of the semaphore keeps its type.
THEOREM SemTypeCorrect ==
  ASSUME SemaphoreAssumption
  PROVE  Sem!Spec => []Sem!TypeOK
  <1>1. SemInv => Sem!TypeOK
    BY Zenon DEF SemInv
  <1> QED BY <1>1, SemInductive, PTL

-----------------------------------------------------------------------------
(* The stream of redis/stream                                              *)

CONSTANTS Consumers, MaxEntries, MaxIdle, MaxFaults, None

VARIABLES last, entries, cursor, pending, working, acked, removed, faults

\* redis/stream
Stream == INSTANCE RedisStream

StreamAssumption == MaxEntries \in Nat /\ MaxIdle \in Nat /\ MaxFaults \in Nat /\ None \notin Int

\* What was appended is in the stream or was removed from it, and the group has not passed the last entry.
Appended ==
  /\ \A i \in Stream!Ids : (i <= last => i \in entries \cup removed) /\ (i \in entries => i <= last)
  /\ cursor # None => cursor <= last

StreamInv == Stream!TypeOK /\ Appended /\ Stream!NothingLost

LEMMA StreamInductive ==
  ASSUME StreamAssumption
  PROVE  Stream!Spec => []StreamInv
  <1> USE DEF StreamAssumption, Stream!Ids
  <1>1. Stream!Init => StreamInv
    BY DEF Stream!Init, StreamInv, Stream!TypeOK, Appended, Stream!NothingLost
  <1>2. StreamInv /\ [Stream!Next]_(Stream!vars) => StreamInv'
    <2> SUFFICES ASSUME StreamInv, [Stream!Next]_(Stream!vars) PROVE StreamInv'
      BY Zenon
    <2> USE DEF StreamInv
    <2>1. CASE Stream!Append
      <3>1. Stream!TypeOK'
        BY <2>1 DEF Stream!TypeOK, Stream!Append
      <3>2. Appended' /\ Stream!NothingLost'
        BY <2>1 DEF Stream!TypeOK, Stream!Append, Appended, Stream!NothingLost
      <3> QED BY <3>1, <3>2
    <2>2. CASE Stream!CreateGroup
      <3>0. cursor' \in Stream!Ids \cup {0} /\ 1..cursor' \subseteq Stream!Ids
        BY <2>2 DEF Stream!TypeOK, Stream!CreateGroup
      <3>1. Stream!TypeOK'
        BY <2>2, <3>0, Zenon DEF Stream!TypeOK, Stream!CreateGroup
      <3>2. Appended' /\ Stream!NothingLost'
        BY <2>2 DEF Stream!TypeOK, Stream!CreateGroup, Appended, Stream!NothingLost
      <3> QED BY <3>1, <3>2
    <2>3. CASE Stream!Idle
      <3>1. Stream!TypeOK'
        BY <2>3 DEF Stream!TypeOK, Stream!Idle
      <3>2. Appended' /\ Stream!NothingLost'
        BY <2>3 DEF Stream!TypeOK, Stream!Idle, Appended, Stream!NothingLost
      <3> QED BY <3>1, <3>2
    <2>4. ASSUME NEW ids \in SUBSET entries, Stream!Remove(ids) PROVE StreamInv'
      <3>1. Stream!TypeOK'
        BY <2>4 DEF Stream!TypeOK, Stream!Remove
      <3>2. Appended' /\ Stream!NothingLost'
        BY <2>4 DEF Stream!TypeOK, Stream!Remove, Appended, Stream!NothingLost
      <3> QED BY <3>1, <3>2
    <2>5. CASE Stream!TrimMaxLen
      <3>1. PICK n \in 1..MaxEntries : Stream!Remove(Stream!Beyond(n))
        BY <2>5, Zenon DEF Stream!TrimMaxLen
      <3>2. Stream!Beyond(n) \in SUBSET entries
        BY Zenon DEF Stream!Beyond
      <3> QED BY <3>1, <3>2, <2>4, Zenon
    <2>6. CASE Stream!TrimMinID
      <3>1. PICK m \in Stream!Ids : Stream!Remove({i \in entries : i < m})
        BY <2>6, Zenon DEF Stream!TrimMinID
      <3>2. {i \in entries : i < m} \in SUBSET entries
        BY Zenon
      <3> QED BY <3>1, <3>2, <2>4, Zenon
    <2>7. CASE Stream!Delete
      BY <2>7, <2>4, Zenon DEF Stream!Delete
    <2>8. ASSUME NEW c \in Consumers, Stream!ReadGroup(c) PROVE StreamInv'
      <3> DEFINE new == {i \in entries : i > cursor}
      <3>1. /\ cursor \in 0..MaxEntries /\ cursor' \in new /\ (\A j \in new : cursor' >= j)
            /\ pending' = Stream!Merge(Stream!Owned(new, c), pending) /\ UNCHANGED <<last, entries, acked, removed>>
        BY <2>8 DEF Stream!ReadGroup, Stream!TypeOK
      <3>2. working' \in [Consumers -> SUBSET Stream!Ids] /\ faults' \in 0..MaxFaults
        <4>1. new \subseteq Stream!Ids /\ Stream!Delivered(c, new)
          BY <2>8, Zenon DEF Stream!ReadGroup, Stream!TypeOK
        <4> HIDE DEF new
        <4>2. CASE working' = [working EXCEPT ![c] = @ \cup new] /\ UNCHANGED faults
          BY <4>1, <4>2, Zenon DEF Stream!TypeOK
        <4>3. CASE faults < MaxFaults /\ faults' = faults + 1 /\ UNCHANGED working
          BY <4>3 DEF Stream!TypeOK
        <4> QED BY <4>1, <4>2, <4>3, Zenon DEF Stream!Delivered
      <3>3. DOMAIN pending' = new \cup DOMAIN pending
        BY <3>1 DEF Stream!Merge, Stream!Owned
      <3>4. ASSUME NEW i \in DOMAIN pending' PROVE pending'[i] \in [by : Consumers, idle : 0..MaxIdle]
        BY <3>1, <3>3, <3>4, <2>8 DEF Stream!Merge, Stream!Owned, Stream!TypeOK
      <3>5. Stream!TypeOK'
        BY <3>1, <3>2, <3>3, <3>4, Zenon DEF Stream!TypeOK
      <3>6. Appended'
        BY <3>1, Zenon DEF Stream!TypeOK, Appended
      <3>7. ASSUME NEW i \in 1..last, i <= cursor' PROVE i \in DOMAIN pending' \/ i \in acked \cup removed
        <4>1. i \in Stream!Ids /\ (i > cursor => i \in new \/ i \in removed)
          BY <3>1 DEF Stream!TypeOK, Appended
        <4>2. i <= cursor => i \in DOMAIN pending \/ i \in acked \cup removed
          BY <3>1 DEF Stream!NothingLost
        <4> QED BY <3>1, <3>3, <4>1, <4>2
      <3>8. Stream!NothingLost'
        BY <3>1, <3>7 DEF Stream!NothingLost, Stream!TypeOK
      <3> QED BY <3>5, <3>6, <3>8
    <2>9. ASSUME NEW c \in Consumers, Stream!Acknowledge(c) PROVE StreamInv'
      <3>1. PICK i \in working[c] :
              /\ pending' = Stream!Keep(Stream!Ids \ {i}) /\ acked' = acked \cup {i}
              /\ working' = [working EXCEPT ![c] = @ \ {i}]
              /\ UNCHANGED <<last, entries, cursor, removed, faults>>
        BY <2>9, Zenon DEF Stream!Acknowledge
      <3>2. DOMAIN pending' = (DOMAIN pending) \ {i} /\ \A j \in DOMAIN pending' : pending'[j] = pending[j]
        BY <3>1 DEF Stream!Keep, Stream!TypeOK
      <3>3. Stream!TypeOK'
        BY <3>1, <3>2, <2>9, Zenon DEF Stream!TypeOK
      <3>4. Appended' /\ Stream!NothingLost'
        BY <3>1, <3>2 DEF Stream!TypeOK, Appended, Stream!NothingLost
      <3> QED BY <3>3, <3>4
    <2>10. ASSUME NEW c \in Consumers, Stream!AutoClaim(c) PROVE StreamInv'
      <3> DEFINE gone == {i \in DOMAIN pending : i \notin entries}
                 idle == {i \in (DOMAIN pending) \ gone : pending[i].idle = MaxIdle}
      <3>1. pending' = Stream!Merge(Stream!Owned(idle, c), Stream!Keep(Stream!Ids \ gone))
            /\ UNCHANGED <<last, entries, cursor, acked, removed>>
        BY <2>10, Zenon DEF Stream!AutoClaim
      <3>2. working' \in [Consumers -> SUBSET Stream!Ids] /\ faults' \in 0..MaxFaults
        BY <2>10 DEF Stream!AutoClaim, Stream!Delivered, Stream!TypeOK
      <3>3. DOMAIN pending' = (DOMAIN pending) \ gone
        BY <3>1 DEF Stream!Merge, Stream!Owned, Stream!Keep, Stream!TypeOK
      <3>4. ASSUME NEW i \in DOMAIN pending' PROVE pending'[i] \in [by : Consumers, idle : 0..MaxIdle]
        BY <3>1, <3>3, <3>4, <2>10 DEF Stream!Merge, Stream!Owned, Stream!Keep, Stream!TypeOK
      <3>5. Stream!TypeOK'
        BY <3>1, <3>2, <3>3, <3>4, Zenon DEF Stream!TypeOK
      <3>6. Appended'
        BY <3>1, Zenon DEF Appended
      <3>7. ASSUME NEW i \in 1..last, i \in gone PROVE i \in removed
        BY <3>7 DEF Stream!TypeOK, Appended
      <3>8. Stream!NothingLost'
        BY <3>1, <3>3, <3>7, Zenon DEF Stream!NothingLost
      <3> QED BY <3>5, <3>6, <3>8
    <2>11. ASSUME NEW c \in Consumers, Stream!Crash(c) PROVE StreamInv'
      <3>1. Stream!TypeOK'
        BY <2>11 DEF Stream!TypeOK, Stream!Crash
      <3>2. Appended' /\ Stream!NothingLost'
        BY <2>11, Zenon DEF Stream!Crash, Appended, Stream!NothingLost
      <3> QED BY <3>1, <3>2
    <2>12. CASE UNCHANGED Stream!vars
      BY <2>12, Zenon DEF Stream!TypeOK, Appended, Stream!NothingLost, Stream!vars
    <2> QED BY <2>1, <2>2, <2>3, <2>5, <2>6, <2>7, <2>8, <2>9, <2>10, <2>11, <2>12, Zenon DEF Stream!Next
  <1> QED BY <1>1, <1>2, PTL DEF Stream!Spec

\* For any consumers, entries and lost answers: an entry the group has passed is pending, acknowledged or was removed
\* from the stream, so AutoClaim finds every entry whose consumer crashed or whose answer was lost.
THEOREM EntriesNeverLost ==
  ASSUME StreamAssumption
  PROVE  Stream!Spec => []Stream!NothingLost
  <1>1. StreamInv => Stream!NothingLost
    BY DEF StreamInv
  <1> QED BY <1>1, StreamInductive, PTL

\* For any consumers and bounds: the stream, the pending entries and the consumers' work keep their types.
THEOREM StreamTypeCorrect ==
  ASSUME StreamAssumption
  PROVE  Stream!Spec => []Stream!TypeOK
  <1>1. StreamInv => Stream!TypeOK
    BY DEF StreamInv
  <1> QED BY <1>1, StreamInductive, PTL

=============================================================================

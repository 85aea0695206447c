---------------------------- MODULE LeaderProofs ----------------------------
(***************************************************************************)
(* Proofs about SqlLeader for any electors, any finite number of            *)
(* concurrent Resign calls, any lease and any bounds.  The invariant has    *)
(* three layers: the renewal loops, the Resign calls that rely on them,     *)
(* and the lease row.  Then EtcdLeader, for any electors and campaigns.     *)
(***************************************************************************)
EXTENDS SqlLeader, FiniteSetTheorems, TLAPS

Contending(e) == campaign[e] \in {"acquire", "reconcile", "backoff", "won"}
NoLoop(e) == \A g \in Generations : ~Renewing(e, g)

\* A campaign in the database has a generation left to win, a call an elector.
TypeInv ==
  /\ TypeOK
  /\ \A e \in Electors : Contending(e) => generation[e] < MaxGeneration
  /\ \A r \in Resigners : IF call[r] = "idle" THEN ~callResolved[r] ELSE on[r] \in Electors

\* One loop at most, the one the handle belongs to; none beside a campaign.
LoopInv(e) ==
  /\ Contending(e) => ~owned[e] /\ ~cleanup[e] /\ NoLoop(e)
  /\ \A g \in Generations :
       Renewing(e, g) => g = generation[e] /\ handle[e] = g /\ (owned[e] \/ cleanup[e])
  /\ owned[e] => /\ generation[e] \in Generations /\ Renewing(e, generation[e])
                 /\ generation[e] \notin cancelled[e]
  /\ handle[e] <= generation[e]
  /\ \A g \in cancelled[e] : g <= generation[e]

\* What the call of r relies on until it returns.
CallInv(r) ==
  call[r] # "idle" =>
    /\ cleanup[on[r]] /\ ~owned[on[r]] /\ ~Contending(on[r])
    /\ callGeneration[r] = generation[on[r]]
    /\ call[r] = "join" => \A g \in Generations : Renewing(on[r], g) => callDone[r] = g
    /\ call[r] = "delete" \/ callResolved[r] => NoLoop(on[r])

\* The counter of overlapping calls, and what resolved remembers of them.
CountInv(e) ==
  /\ resigning[e] = Cardinality(Active(e))
  /\ resolved[e] => resigning[e] # 0 /\ NoLoop(e)

\* The lease an elector relies on is in its row, from the moment it won it.
LeaseInv(e) ==
  /\ confirmed[e] <= now + Lease
  /\ (owned[e] \/ campaign[e] = "won") /\ now < confirmed[e] =>
       row.owner = e /\ confirmed[e] <= row.until

LocalInv == /\ \A e \in Electors : LoopInv(e) /\ CountInv(e)
            /\ \A r \in Resigners : CallInv(r)
RowInv == row.until <= now + Lease /\ \A e \in Electors : LeaseInv(e)

-----------------------------------------------------------------------------

\* What the statements of queries.go leave is a row.
LEMMA RowType ==
  ASSUME TypeOK, NEW e \in Electors
  PROVE  /\ Leased(e) \in [owner : Electors \cup {NoOwner}, until : Nat]
         /\ Deleted(e) \in [owner : Electors \cup {NoOwner}, until : Nat]
         /\ now + Lease \in Nat
BY LeaseAssumption DEF TypeOK, Leased, Deleted

\* The type invariant, with the bound a running campaign keeps.
THEOREM TypeInvariant == Spec => []TypeInv
<1> USE LeaseAssumption, GenerationAssumption
<1>1. Init => TypeInv
  BY NoOwnerAssumption DEF Init, TypeInv, TypeOK, Contending, CampaignState, LoopState, CallState, Generations
<1>2. TypeInv /\ [Next]_vars => TypeInv'
  <2> SUFFICES ASSUME TypeInv, [Next]_vars PROVE TypeInv'
    BY Zenon
  <2> USE DEF TypeInv, TypeOK, Contending, CampaignState, LoopState, CallState, elector, calls
  <2>1. CASE Tick
    BY <2>1, SMTT(30) DEF Tick
  <2>2. ASSUME NEW e \in Electors, CampaignStep(e) PROVE TypeInv'
    <3>0. Leased(e) \in [owner : Electors \cup {NoOwner}, until : Nat] /\ now + Lease \in Nat
      BY RowType, Zenon
    <3>1. CASE beginCampaign(e)
      BY <3>1, Zenon DEF beginCampaign
    <3>2. CASE Acquire(e)
      <4>1. CASE Acquirable(e)
        <5>1. row' \in [owner : Electors \cup {NoOwner}, until : Nat]
          BY <3>0, <3>2, <4>1, Zenon DEF Acquire
        <5>2. campaign' = [campaign EXCEPT ![e] = "won"] /\ confirmed' \in [Electors -> Nat]
          BY <3>0, <3>2, <4>1 DEF Acquire
        <5> QED
          BY <3>2, <5>1, <5>2, Zenon DEF Acquire
      <4>2. CASE ~Acquirable(e)
        BY <3>2, <4>2, Zenon DEF Acquire
      <4> QED
        BY <4>1, <4>2, Zenon
    <3>3. CASE AcquireUnknown(e)
      BY <3>0, <3>3, Zenon DEF AcquireUnknown
    <3>4. CASE Reconcile(e)
      BY <3>4, ZenonT(40) DEF Reconcile
    <3>5. CASE markCleanupPending(e)
      BY <3>5, Zenon DEF markCleanupPending
    <3>6. CASE Backoff(e)
      BY <3>6 DEF Backoff
    <3>7. CASE startRenewal(e)
      BY <3>7, SMTT(30) DEF startRenewal, Generations
    <3>8. CASE endCampaign(e)
      BY <3>8, Zenon DEF endCampaign
    <3> QED
      BY <2>2, <3>1, <3>2, <3>3, <3>4, <3>5, <3>6, <3>7, <3>8, Zenon DEF CampaignStep
  <2>3. ASSUME NEW e \in Electors, NEW g \in Generations, LoopStep(e, g) PROVE TypeInv'
    <3>0. Leased(e) \in [owner : Electors \cup {NoOwner}, until : Nat] /\ now + Lease \in Nat
      BY RowType, Zenon
    <3>1. CASE LoopStop(e, g)
      <4>1. PICK next \in {"done", "unknown"} : loop' = [loop EXCEPT ![e][g] = next]
        BY <3>1, Zenon DEF LoopStop
      <4>2. next \in LoopState
        BY Zenon
      <4> HIDE DEF LoopState
      <4> QED
        BY <3>1, <4>1, <4>2, Zenon DEF LoopStop
    <3>2. CASE RenewTick(e, g)
      BY <3>2, Zenon DEF RenewTick
    <3>3. CASE Renew(e, g)
      <4>1. row' \in [owner : Electors \cup {NoOwner}, until : Nat] /\ confirmed' \in [Electors -> Nat]
        BY <3>0, <3>3 DEF Renew
      <4>2. PICK next \in LoopState : loop' = [loop EXCEPT ![e][g] = next]
        BY <3>3, Zenon DEF Renew
      <4> HIDE DEF LoopState
      <4> QED
        BY <3>3, <4>1, <4>2, Zenon DEF Renew
    <3>4. CASE RenewUnknown(e, g)
      BY <3>0, <3>4, Zenon DEF RenewUnknown
    <3>5. CASE clearOwnershipAfterLoss(e, g)
      <4>1. owned' \in [Electors -> BOOLEAN] /\ cleanup' \in [Electors -> BOOLEAN]
        BY <3>5, Zenon DEF clearOwnershipAfterLoss
      <4>2. handle' \in [Electors -> 0..MaxGeneration]
        BY <3>5, SMTT(30) DEF clearOwnershipAfterLoss
      <4>3. loop' \in [Electors -> [Generations -> LoopState]]
        BY <3>5, Zenon DEF clearOwnershipAfterLoss
      <4> QED
        BY <3>5, <4>1, <4>2, <4>3, Zenon DEF clearOwnershipAfterLoss
    <3> QED
      BY <2>3, <3>1, <3>2, <3>3, <3>4, <3>5, Zenon DEF LoopStep
  <2>4. ASSUME NEW r \in Resigners, ResignStep(r) PROVE TypeInv'
    <3>1. ASSUME NEW e \in Electors, clearOwnership(r, e) PROVE TypeInv'
      BY <3>1 DEF clearOwnership, Enter
    <3>2. CASE Join(r) \/ JoinTimeout(r)
      BY <3>2, ZenonT(40) DEF Join, JoinTimeout
    <3>3. CASE deleteOwner(r)
      <4>1. row' \in [owner : Electors \cup {NoOwner}, until : Nat]
        BY <3>3 DEF deleteOwner, Deleted
      <4> QED
        BY <3>3, <4>1, Zenon DEF deleteOwner
    <3>4. CASE finishResign(r)
      <4>0. on[r] \in Electors
        BY <3>4, Zenon DEF finishResign
      <4>1. CASE ~(generation[on[r]] = callGeneration[r] /\ resigning[on[r]] # 0)
        <5>1. UNCHANGED <<resigning, resolved, cleanup, handle>>
          BY <3>4, <4>1, Zenon DEF finishResign
        <5> QED
          BY <3>4, <5>1 DEF finishResign, Leave
      <4>2. CASE generation[on[r]] = callGeneration[r] /\ resigning[on[r]] # 0
        <5>1. PICK b, c, n :
                /\ b \in BOOLEAN /\ c \in BOOLEAN /\ n = resigning[on[r]] - 1
                /\ resigning' = [resigning EXCEPT ![on[r]] = n]
                /\ resolved' = [resolved EXCEPT ![on[r]] = b]
                /\ cleanup' = [cleanup EXCEPT ![on[r]] = IF c THEN FALSE ELSE @]
                /\ handle' = [handle EXCEPT ![on[r]] = IF c THEN 0 ELSE @]
          BY <3>4, <4>2, Zenon DEF finishResign
        <5>2. n \in Nat
          <6>1. resigning[on[r]] - 1 \in Nat
            BY <4>0, <4>2
          <6> QED
            BY <5>1, <6>1, Zenon
        <5>3. resigning' \in [Electors -> Nat]
          BY <5>1, <5>2, Zenon
        <5>4. handle' \in [Electors -> 0..MaxGeneration]
          <6>1. (IF c THEN 0 ELSE handle[on[r]]) \in 0..MaxGeneration
            BY <4>0
          <6> QED
            BY <5>1, <6>1, Zenon
        <5>5. resolved' \in [Electors -> BOOLEAN] /\ cleanup' \in [Electors -> BOOLEAN]
          BY <5>1, Zenon
        <5> QED
          BY <3>4, <5>3, <5>4, <5>5 DEF finishResign, Leave
      <4> QED
        BY <4>1, <4>2, Zenon
    <3> QED
      BY <2>4, <3>1, <3>2, <3>3, <3>4, Zenon DEF ResignStep
  <2>5. CASE UNCHANGED vars
    BY <2>5, Zenon DEF vars
  <2> QED
    BY <2>1, <2>2, <2>3, <2>4, <2>5, Zenon DEF Next
<1> QED
  BY <1>1, <1>2, PTL DEF Spec

-----------------------------------------------------------------------------

\* The resigning counter is positive exactly while a Resign is in progress.
LEMMA ActiveCount ==
  ASSUME TypeInv, NEW e \in Electors, CountInv(e)
  PROVE  /\ IsFiniteSet(Active(e))
         /\ resigning[e] = 0 <=> Active(e) = {}
         /\ \A r \in Active(e) : resigning[e] = 1 => Active(e) = {r}
<1>1. Active(e) \subseteq Resigners /\ IsFiniteSet(Active(e))
  BY ResignersAssumption, FS_Subset, Zenon DEF Active
<1>2. resigning[e] = 0 <=> Active(e) = {}
  BY <1>1, FS_EmptySet, Zenon DEF CountInv
<1>3. ASSUME NEW r \in Active(e), resigning[e] = 1 PROVE Active(e) = {r}
  <2>1. Cardinality(Active(e)) = 1
    BY <1>3, Zenon DEF CountInv
  <2>2. IsFiniteSet(Active(e) \ {r}) /\ Cardinality(Active(e) \ {r}) = Cardinality(Active(e)) - 1
    BY <1>1, FS_RemoveElement, Zenon
  <2>3. Active(e) \ {r} = {}
    BY <2>1, <2>2, FS_EmptySet
  <2> QED
    BY <2>3, Zenon
<1> QED
  BY <1>1, <1>2, <1>3, Zenon

\* The state of e that its own invariants are about.
View(e) == <<owned[e], cleanup[e], generation[e], handle[e], campaign[e], loop[e], cancelled[e]>>

\* An elector a step does not touch keeps its part of the local invariant.
LEMMA Frame ==
  ASSUME NEW f, UNCHANGED View(f)
  PROVE  /\ LoopInv(f) => LoopInv(f)'
         /\ CountInv(f) /\ UNCHANGED <<resigning[f], resolved[f], Active(f)>> => CountInv(f)'
         /\ \A r : on[r] = f /\ CallInv(r)
                 /\ UNCHANGED <<call[r], on[r], callGeneration[r], callDone[r], callResolved[r]>>
                 => CallInv(r)'
<1> USE DEF View, Contending, NoLoop, Renewing
<1>1. LoopInv(f) => LoopInv(f)'
  BY Zenon DEF LoopInv
<1>2. CountInv(f) /\ UNCHANGED <<resigning[f], resolved[f], Active(f)>> => CountInv(f)'
  BY Zenon DEF CountInv
<1>3. ASSUME NEW r, on[r] = f, CallInv(r),
             UNCHANGED <<call[r], on[r], callGeneration[r], callDone[r], callResolved[r]>>
      PROVE  CallInv(r)'
  BY <1>3 DEF CallInv
<1> QED
  BY <1>1, <1>2, <1>3, Zenon

\* A campaign step keeps the local invariant.
LEMMA CampaignLocal ==
  ASSUME TypeInv, LocalInv, NEW e \in Electors, CampaignStep(e)
  PROVE  LocalInv'
<1> USE DEF elector, calls
<1>1. UNCHANGED <<resigning, resolved, call, on, callGeneration, callDone, callResolved>>
  BY ZenonT(40) DEF CampaignStep, beginCampaign, Acquire, AcquireUnknown, Reconcile, markCleanupPending, Backoff,
      startRenewal, endCampaign
<1>2. \A f \in Electors \ {e} : UNCHANGED View(f)
  BY DEF CampaignStep, beginCampaign, Acquire, AcquireUnknown, Reconcile, markCleanupPending, Backoff, startRenewal,
      endCampaign, View, TypeInv, TypeOK
<1>3. \A f \in Electors : UNCHANGED Active(f)
  BY <1>1, Zenon DEF Active
<1>4. \A r \in Resigners : call[r] # "idle" /\ on[r] = e => ~Contending(e) /\ cleanup[e]
  BY Zenon DEF LocalInv, CallInv
<1>5. LoopInv(e) /\ CountInv(e)
  BY Zenon DEF LocalInv
<1>6. CASE startRenewal(e)
  <2> DEFINE g == generation[e] + 1
  <2>1. /\ g \in Generations /\ generation[e] \in Nat
        /\ owned'[e] = TRUE /\ generation'[e] = g /\ handle'[e] = g
        /\ campaign'[e] = "ending" /\ cancelled'[e] = cancelled[e]
    BY <1>6, GenerationAssumption, SMTT(30) DEF startRenewal, TypeInv, TypeOK, Contending, Generations
  <2>2. \A h \in Generations : loop'[e][h] = IF h = g THEN "waiting" ELSE loop[e][h]
    BY <1>6, <2>1 DEF startRenewal, TypeInv, TypeOK
  <2>3. NoLoop(e) /\ \A h \in cancelled[e] : h <= generation[e]
    BY <1>5, <1>6, Zenon DEF startRenewal, LoopInv, Contending
  <2>4. \A h \in Generations : Renewing(e, h)' <=> h = g
    BY <2>2, <2>3, Zenon DEF NoLoop, Renewing
  <2>5. cancelled[e] \subseteq Generations /\ Generations \subseteq Nat
    BY GenerationAssumption, SMTT(30) DEF TypeInv, TypeOK, Generations
  <2>6. LoopInv(e)'
    <3>1. ~Contending(e)' /\ handle'[e] <= generation'[e]
      BY <2>1, <2>5 DEF Contending
    <3>2. Renewing(e, generation[e])' /\ generation'[e] \in Generations
      BY <2>1, <2>2, Zenon DEF Renewing
    <3>3. g \notin cancelled[e] /\ \A h \in cancelled[e] : h <= g
      <4>1. \A h \in cancelled[e] : h \in Nat /\ h <= generation[e]
        BY <2>3, <2>5, Zenon
      <4>2. generation[e] \in Nat
        BY <2>1, Zenon
      <4> QED
        BY <4>1, <4>2
    <3>4. generation'[e] \notin cancelled'[e] /\ \A h \in cancelled'[e] : h <= generation'[e]
      BY <2>1, <3>3, Zenon
    <3> HIDE DEF g
    <3> QED
      BY <2>1, <2>4, <3>1, <3>2, <3>4, Zenon DEF LoopInv
  <2>7. ~\E r \in Resigners : call[r] # "idle" /\ on[r] = e
    BY <1>4, <1>6, Zenon DEF startRenewal, Contending
  <2>8. CountInv(e)'
    <3>1. Active(e) = {}
      BY <2>7, Zenon DEF Active
    <3>2. resigning[e] = 0
      BY <1>5, <3>1, ActiveCount, ZenonT(40)
    <3> QED
      BY <1>1, <1>3, <1>5, <3>2, Zenon DEF CountInv
  <2>9. \A r \in Resigners : CallInv(r)'
    <3> SUFFICES ASSUME NEW r \in Resigners, call[r] # "idle" PROVE CallInv(r)'
      BY <1>1, Zenon DEF CallInv
    <3>1. on[r] \in Electors \ {e}
      BY <2>7, ZenonT(40) DEF TypeInv
    <3> QED
      BY <1>1, <1>2, <3>1, Frame, ZenonT(40) DEF LocalInv
  <2> QED
    BY <1>1, <1>2, <1>3, <2>6, <2>8, <2>9, Frame, Zenon DEF LocalInv
<1>7. CASE ~startRenewal(e)
  <2>1. /\ UNCHANGED <<loop, cancelled, handle, generation>>
        /\ UNCHANGED owned[e] \/ owned'[e] = FALSE
    BY <1>7, Zenon DEF CampaignStep, beginCampaign, Acquire, AcquireUnknown, Reconcile, markCleanupPending, Backoff,
        endCampaign, TypeInv, TypeOK
  <2>2. \/ ~owned[e] /\ ~cleanup[e] /\ UNCHANGED <<owned[e], cleanup[e]>>
        \/ Contending(e) /\ owned'[e] = FALSE /\ cleanup'[e] = TRUE /\ ~Contending(e)'
        \/ UNCHANGED <<owned[e], cleanup[e]>> /\ ~Contending(e)'
    BY <1>5, <1>7, ZenonT(40) DEF CampaignStep, beginCampaign, Acquire, AcquireUnknown, Reconcile, markCleanupPending,
        Backoff, endCampaign, TypeInv, TypeOK, Contending, LoopInv
  <2>3. LoopInv(e)'
    BY <1>5, <2>1, <2>2, Zenon DEF LoopInv, NoLoop, Renewing
  <2>4. CountInv(e)'
    BY <1>1, <1>3, <1>5, <2>1, Zenon DEF CountInv, NoLoop, Renewing
  <2>5. \A r \in Resigners : CallInv(r)'
    <3> SUFFICES ASSUME NEW r \in Resigners, call[r] # "idle" PROVE CallInv(r)'
      BY <1>1, Zenon DEF CallInv
    <3>1. CASE on[r] # e
      BY <1>1, <1>2, <3>1, Frame, ZenonT(40) DEF LocalInv, TypeInv
    <3>2. CASE on[r] = e
      <4>1. CallInv(r) /\ cleanup[e] /\ ~Contending(e)
        BY <1>4, <3>2, Zenon DEF LocalInv
      <4>2. UNCHANGED <<owned[e], cleanup[e]>> /\ ~Contending(e)'
        BY <2>2, <4>1, Zenon
      <4> QED
        BY <1>1, <2>1, <3>2, <4>1, <4>2, Zenon DEF CallInv, NoLoop, Renewing
    <3> QED
      BY <3>1, <3>2, Zenon
  <2> QED
    BY <1>1, <1>2, <1>3, <2>3, <2>4, <2>5, Frame, ZenonT(40) DEF LocalInv
<1> QED
  BY <1>6, <1>7, ZenonT(40)

\* A step of the renewal loop of generation g keeps the local invariant.
LEMMA LoopLocal ==
  ASSUME TypeInv, LocalInv, NEW e \in Electors, NEW g \in Generations, LoopStep(e, g)
  PROVE  LocalInv'
<1> USE DEF elector, calls
<1>1. UNCHANGED <<resigning, resolved, generation, campaign, cancelled, call, on, callGeneration, callDone, callResolved>>
  BY ZenonT(40) DEF LoopStep, LoopStop, RenewTick, Renew, RenewUnknown, clearOwnershipAfterLoss
<1>2. \A f \in Electors \ {e} : UNCHANGED View(f)
  BY DEF LoopStep, LoopStop, RenewTick, Renew, RenewUnknown, clearOwnershipAfterLoss, View, TypeInv, TypeOK
<1>3. \A f \in Electors : UNCHANGED Active(f)
  BY <1>1, Zenon DEF Active
<1>4. LoopInv(e) /\ CountInv(e)
  BY Zenon DEF LocalInv
<1>5. Renewing(e, g) /\ \A h \in Generations : Renewing(e, h)' => h = g
  <2>1. Renewing(e, g)
    BY ZenonT(40) DEF LoopStep, LoopStop, RenewTick, Renew, RenewUnknown, clearOwnershipAfterLoss, Renewing
  <2>2. \A h \in Generations \ {g} : loop'[e][h] = loop[e][h]
    BY DEF LoopStep, LoopStop, RenewTick, Renew, RenewUnknown, clearOwnershipAfterLoss, TypeInv, TypeOK
  <2>3. \A h \in Generations : Renewing(e, h) => h = g
    BY <1>4, <2>1, ZenonT(40) DEF LoopInv
  <2> QED
    BY <2>1, <2>2, <2>3, ZenonT(40) DEF Renewing
<1>6. generation[e] = g /\ handle[e] = g /\ (owned[e] \/ cleanup[e])
  BY <1>4, <1>5, ZenonT(40) DEF LoopInv
<1>7. ~Contending(e)
  BY <1>4, <1>5, ZenonT(40) DEF LoopInv, NoLoop
<1>8. CASE clearOwnershipAfterLoss(e, g)
  <2>1. /\ owned'[e] = FALSE
        /\ resigning[e] # 0 => handle'[e] = handle[e]
        /\ handle'[e] \in {0, g}
    BY <1>6, <1>8, Zenon DEF clearOwnershipAfterLoss, TypeInv, TypeOK
  <2>2. resigning[e] # 0 => cleanup'[e] = TRUE
    <3>1. cleanup'[e] = (loop[e][g] = "unknown" \/ resigning[e] > 0)
      BY <1>6, <1>8, Zenon DEF clearOwnershipAfterLoss, TypeInv, TypeOK
    <3>2. resigning[e] # 0 => resigning[e] > 0
      BY DEF TypeInv, TypeOK
    <3> QED
      BY <3>1, <3>2, Zenon
  <2>3. NoLoop(e)'
    <3>1. loop'[e][g] = "done"
      BY <1>8, ZenonT(40) DEF clearOwnershipAfterLoss, TypeInv, TypeOK
    <3> QED
      BY <1>5, <3>1, Zenon DEF NoLoop, Renewing
  <2>4. LoopInv(e)'
    <3>1. g \in Nat /\ generation'[e] = g /\ cancelled'[e] = cancelled[e] /\ ~Contending(e)'
      BY <1>1, <1>6, <1>7, GenerationAssumption DEF Generations, Contending
    <3>2. handle'[e] <= g
      BY <2>1, <3>1
    <3>3. \A h \in cancelled[e] : h <= g
      BY <1>4, <1>6, Zenon DEF LoopInv
    <3> QED
      BY <2>1, <2>3, <3>1, <3>2, <3>3, ZenonT(40) DEF LoopInv, NoLoop
  <2>5. CountInv(e)'
    BY <1>1, <1>3, <1>4, <2>3, Zenon DEF CountInv
  <2>6. \A r \in Resigners : CallInv(r)'
    <3> SUFFICES ASSUME NEW r \in Resigners, call[r] # "idle" PROVE CallInv(r)'
      BY <1>1, Zenon DEF CallInv
    <3>1. CASE on[r] # e
      BY <1>1, <1>2, <3>1, Frame, Zenon DEF LocalInv, TypeInv
    <3>2. CASE on[r] = e
      <4>1. r \in Active(e)
        BY <3>2, Zenon DEF Active
      <4>2. resigning[e] # 0
        BY <1>4, <4>1, ActiveCount, ZenonT(40)
      <4> QED
        BY <1>1, <1>7, <2>1, <2>2, <2>3, <3>2, <4>2, Zenon DEF CallInv, LocalInv, NoLoop, Contending
    <3> QED
      BY <3>1, <3>2, Zenon
  <2> QED
    BY <1>1, <1>2, <1>3, <2>4, <2>5, <2>6, Frame, ZenonT(40) DEF LocalInv
<1>9. CASE ~clearOwnershipAfterLoss(e, g)
  <2>1. UNCHANGED <<owned, cleanup, handle>>
    BY <1>9, Zenon DEF LoopStep, LoopStop, RenewTick, Renew, RenewUnknown
  <2>2. Renewing(e, g)' \/ g \in cancelled[e]
    <3>1. LoopStop(e, g) => g \in cancelled[e]
      BY Zenon DEF LoopStop
    <3>2. RenewTick(e, g) \/ Renew(e, g) \/ RenewUnknown(e, g) => Renewing(e, g)'
      BY DEF RenewTick, Renew, RenewUnknown, Renewing, TypeInv, TypeOK
    <3> QED
      BY <1>9, <3>1, <3>2, Zenon DEF LoopStep
  <2>3. LoopInv(e)'
    BY <1>1, <1>4, <1>5, <1>6, <1>7, <2>1, <2>2, ZenonT(40) DEF LoopInv, Contending, Renewing
  <2>4. CountInv(e)'
    BY <1>1, <1>3, <1>4, <1>5, ZenonT(40) DEF CountInv, NoLoop
  <2>5. \A r \in Resigners : CallInv(r)'
    <3> SUFFICES ASSUME NEW r \in Resigners, call[r] # "idle" PROVE CallInv(r)'
      BY <1>1, Zenon DEF CallInv
    <3>1. CASE on[r] # e
      BY <1>1, <1>2, <3>1, Frame, Zenon DEF LocalInv, TypeInv
    <3>2. CASE on[r] = e
      BY <1>1, <1>5, <2>1, <3>2, Zenon DEF CallInv, LocalInv, NoLoop, Contending
    <3> QED
      BY <3>1, <3>2, Zenon
  <2> QED
    BY <1>1, <1>2, <1>3, <2>3, <2>4, <2>5, Frame, ZenonT(40) DEF LocalInv
<1> QED
  BY <1>8, <1>9, ZenonT(40)

\* clearOwnership counts the call in.
LEMMA EnterLocal ==
  ASSUME TypeInv, LocalInv, NEW r \in Resigners, NEW e \in Electors, clearOwnership(r, e)
  PROVE  LocalInv'
<1>1. /\ UNCHANGED <<campaign, loop, handle, generation, resolved, callResolved>>
      /\ owned'[e] = FALSE /\ cleanup'[e] = TRUE /\ resigning'[e] = resigning[e] + 1
      /\ cancelled'[e] = cancelled[e] \cup ({handle[e]} \cap Generations)
  BY Zenon DEF clearOwnership, Enter, TypeInv, TypeOK
<1>2. /\ call[r] = "idle" /\ call'[r] = "join" /\ on'[r] = e
      /\ callGeneration'[r] = generation[e] /\ callDone'[r] = handle[e]
      /\ \A s \in Resigners \ {r} : UNCHANGED <<call[s], on[s], callGeneration[s], callDone[s]>>
  BY Zenon DEF clearOwnership, Enter, TypeInv, TypeOK
<1>3. \A f \in Electors \ {e} : UNCHANGED View(f) /\ UNCHANGED <<resigning[f], resolved[f]>>
  BY ZenonT(40) DEF clearOwnership, View, TypeInv, TypeOK
<1>4. \A f \in Electors \ {e} : UNCHANGED Active(f)
  BY <1>2, Zenon DEF Active
<1>5. LoopInv(e) /\ CountInv(e) /\ (owned[e] \/ cleanup[e])
  BY ZenonT(40) DEF LocalInv, clearOwnership
<1>6. LoopInv(e)'
  <2>1. ~Contending(e) /\ UNCHANGED Contending(e)
    BY <1>1, <1>5, Zenon DEF LoopInv, Contending
  <2> QED
    BY <1>1, <1>5, <2>1, ZenonT(40) DEF LoopInv, Renewing
<1>7. CountInv(e)'
  <2>1. r \notin Active(e) /\ Active(e)' = Active(e) \cup {r}
    BY <1>2, ZenonT(40) DEF Active
  <2>2. IsFiniteSet(Active(e)) /\ resigning[e] \in Nat
    BY <1>5, ActiveCount, Zenon DEF TypeInv, TypeOK
  <2>3. Cardinality(Active(e)') = Cardinality(Active(e)) + 1
    BY <2>1, <2>2, FS_AddElement, ZenonT(40)
  <2>4. resigning'[e] = Cardinality(Active(e)')
    <3>1. resigning[e] = Cardinality(Active(e)) /\ resigning'[e] = resigning[e] + 1
      BY <1>1, <1>5, Zenon DEF CountInv
    <3> QED
      BY <2>3, <3>1, Zenon
  <2>5. resigning'[e] # 0
    <3>1. resigning'[e] = resigning[e] + 1
      BY <1>1, Zenon
    <3>2. \A n \in Nat : n + 1 # 0
      OBVIOUS
    <3> QED
      BY <2>2, <3>1, <3>2, Zenon
  <2>6. resolved'[e] => NoLoop(e)'
    BY <1>1, <1>5, Zenon DEF CountInv, NoLoop, Renewing
  <2> QED
    BY <2>4, <2>5, <2>6, Zenon DEF CountInv
<1>8. ASSUME NEW s \in Resigners PROVE CallInv(s)'
  <2>1. ~Contending(e)'
    BY <1>1, <1>5, ZenonT(40) DEF LoopInv, Contending
  <2>2. ~callResolved[r]
    BY <1>2, ZenonT(40) DEF TypeInv
  <2>3. CASE s = r
    BY <1>1, <1>2, <1>5, <2>1, <2>2, <2>3, Zenon DEF CallInv, LoopInv, Renewing
  <2>4. CASE s # r /\ on[s] # e
    <3>1. CASE call[s] = "idle"
      BY <1>2, <2>4, <3>1, Zenon DEF CallInv
    <3>2. CASE call[s] # "idle"
      BY <1>1, <1>2, <1>3, <2>4, <3>2, Frame, Zenon DEF LocalInv, TypeInv
    <3> QED
      BY <3>1, <3>2, Zenon
  <2>5. CASE s # r /\ on[s] = e
    <3>1. CallInv(s) /\ UNCHANGED <<call[s], on[s], callGeneration[s], callDone[s], callResolved[s]>>
      BY <1>1, <1>2, <2>5, Zenon DEF LocalInv
    <3>2. UNCHANGED loop[e] /\ UNCHANGED generation[e]
      BY <1>1, Zenon
    <3> QED
      BY <1>1, <2>1, <2>5, <3>1, <3>2, Zenon DEF CallInv, NoLoop, Renewing
  <2> QED
    BY <2>3, <2>4, <2>5, Zenon
<1> QED
  BY <1>3, <1>4, <1>6, <1>7, <1>8, Frame, Zenon DEF LocalInv

\* Waiting for the loop and deleting the row touch only the call itself.
LEMMA WaitLocal ==
  ASSUME TypeInv, LocalInv, NEW r \in Resigners, Join(r) \/ JoinTimeout(r) \/ deleteOwner(r)
  PROVE  LocalInv'
<1> USE DEF elector
<1>1. /\ UNCHANGED <<owned, cleanup, resigning, resolved, generation, handle, campaign, loop, cancelled, on, callGeneration,
         callDone>>
      /\ call[r] # "idle" /\ call'[r] # "idle"
      /\ \A s \in Resigners \ {r} : UNCHANGED <<call[s], callResolved[s]>>
  BY DEF Join, JoinTimeout, deleteOwner, TypeInv, TypeOK, CallState
<1>2. \A f \in Electors : UNCHANGED <<View(f), resigning[f], resolved[f]>>
  BY <1>1, Zenon DEF View
<1>3. \A f \in Electors : UNCHANGED Active(f)
  BY <1>1, Zenon DEF Active
<1>4. ASSUME NEW s \in Resigners \ {r} PROVE CallInv(s)'
  <2>1. CASE call[s] = "idle"
    BY <1>1, <2>1, Zenon DEF CallInv
  <2>2. CASE call[s] # "idle"
    BY <1>1, <1>2, <2>2, Frame, Zenon DEF LocalInv, TypeInv
  <2> QED
    BY <2>1, <2>2, Zenon
<1>5. CallInv(r)'
  <2>1. CallInv(r) /\ on[r] \in Electors /\ LoopInv(on[r])
    BY <1>1, Zenon DEF LocalInv, TypeInv
  <2>2. CASE Join(r)
    <3>1. NoLoop(on[r])
      <4> SUFFICES ASSUME NEW g \in Generations, Renewing(on[r], g) PROVE FALSE
        BY ZenonT(40) DEF NoLoop
      <4>1. callDone[r] = g
        BY <2>1, <2>2, Zenon DEF CallInv, Join
      <4>2. \A h \in Generations : h # 0
        BY ONLY GenerationAssumption DEF Generations
      <4> QED
        BY <2>2, <4>1, <4>2, Zenon DEF Join, Renewing
    <3>2. call'[r] = "delete" /\ callResolved'[r] = callResolved[r]
      BY <2>2, ZenonT(40) DEF Join, TypeInv, TypeOK
    <3> QED
      BY <1>1, <2>1, <3>1, <3>2, Zenon DEF CallInv, Contending, NoLoop, Renewing
  <2>3. CASE JoinTimeout(r)
    <3>1. call'[r] = "finish" /\ callResolved'[r] = callResolved[r]
      BY <2>3, ZenonT(40) DEF JoinTimeout, TypeInv, TypeOK
    <3> QED
      BY <1>1, <2>1, <3>1, ZenonT(40) DEF CallInv, Contending, NoLoop, Renewing
  <2>4. CASE deleteOwner(r)
    <3>1. call[r] = "delete" /\ call'[r] = "finish"
      BY <2>4, Zenon DEF deleteOwner, TypeInv, TypeOK
    <3> QED
      BY <1>1, <2>1, <3>1, ZenonT(40) DEF CallInv, Contending, NoLoop, Renewing
  <2> QED
    BY <2>2, <2>3, <2>4, Zenon
<1> QED
  BY <1>2, <1>3, <1>4, <1>5, Frame, Zenon DEF LocalInv

\* finishResign counts the call out; only the last one ends the cleanup.
LEMMA FinishLocal ==
  ASSUME TypeInv, LocalInv, NEW r \in Resigners, finishResign(r)
  PROVE  LocalInv'
<1>0. PICK e \in Electors : on[r] = e
  BY Zenon DEF finishResign, TypeInv
<1> DEFINE n == resigning[e] - 1
           last == (resolved[e] \/ callResolved[r]) /\ n = 0
<1>1. /\ call[r] = "finish" /\ on[r] = e
      /\ LoopInv(e) /\ CountInv(e) /\ CallInv(r)
  BY <1>0, ZenonT(40) DEF finishResign, LocalInv, TypeInv
<1>2. r \in Active(e) /\ IsFiniteSet(Active(e)) /\ resigning[e] \in Nat \ {0} /\ generation[e] = callGeneration[r]
  <2>1. r \in Active(e)
    BY <1>1, Zenon DEF Active
  <2>2. resigning[e] \in Nat
    BY <1>1, Zenon DEF TypeInv, TypeOK
  <2> QED
    BY <1>1, <2>1, <2>2, ActiveCount, Zenon DEF CallInv
<1>3. /\ resigning' = [resigning EXCEPT ![e] = n]
      /\ resolved' = [resolved EXCEPT ![e] = (resolved[e] \/ callResolved[r]) /\ n # 0]
      /\ cleanup' = [cleanup EXCEPT ![e] = IF last THEN FALSE ELSE @]
      /\ handle' = [handle EXCEPT ![e] = IF last THEN 0 ELSE @]
  BY <1>1, <1>2, Zenon DEF finishResign
<1>4. /\ UNCHANGED <<owned, generation, campaign, loop, cancelled>>
      /\ call'[r] = "idle"
      /\ \A s \in Resigners \ {r} : UNCHANGED <<call[s], on[s], callGeneration[s], callDone[s], callResolved[s]>>
  BY DEF finishResign, Leave, TypeInv, TypeOK
<1>5. \A f \in Electors \ {e} : UNCHANGED View(f) /\ UNCHANGED <<resigning[f], resolved[f]>>
  BY <1>1, <1>3, <1>4, Zenon DEF View, TypeInv, TypeOK
<1>6. \A f \in Electors \ {e} : UNCHANGED Active(f)
  BY <1>1, <1>4, Zenon DEF Active
<1>7. Active(e)' = Active(e) \ {r}
  BY <1>4, Zenon DEF Active
<1>8. /\ resigning'[e] = n
      /\ resolved'[e] => resolved[e] \/ callResolved[r]
      /\ resolved'[e] => n # 0
      /\ last => handle'[e] = 0
      /\ ~last => cleanup'[e] = cleanup[e] /\ handle'[e] = handle[e]
  <2>1. resolved'[e] = ((resolved[e] \/ callResolved[r]) /\ n # 0)
    BY <1>1, <1>3, Zenon DEF TypeInv, TypeOK
  <2>2. cleanup'[e] = (IF last THEN FALSE ELSE cleanup[e]) /\ handle'[e] = (IF last THEN 0 ELSE handle[e])
        /\ resigning'[e] = n
    BY <1>1, <1>3, Zenon DEF TypeInv, TypeOK
  <2> QED
    BY <2>1, <2>2, Zenon
<1>9. last \/ resolved[e] \/ callResolved[r] => NoLoop(e)
  BY <1>1, Zenon DEF CountInv, CallInv
<1>10. LoopInv(e)'
  <2>1. CASE last
    <3>1. NoLoop(e) /\ handle'[e] = 0
      BY <1>8, <1>9, <2>1, Zenon
    <3>2. ~Contending(e) /\ ~owned[e]
      BY <1>1, Zenon DEF CallInv
    <3>3. generation'[e] \in Nat /\ 0 <= generation'[e]
      <4>1. generation \in [Electors -> Nat]
        BY DEF TypeInv, TypeOK
      <4>2. generation'[e] \in Nat
        BY <1>4, <4>1, Zenon
      <4>3. \A k \in Nat : 0 <= k
        OBVIOUS
      <4> QED
        BY <4>2, <4>3, Zenon
    <3>4. NoLoop(e)' /\ ~Contending(e)' /\ ~owned'[e] /\ \A g \in cancelled'[e] : g <= generation'[e]
      BY <1>1, <1>4, <3>1, <3>2, Zenon DEF LoopInv, NoLoop, Renewing, Contending
    <3> QED
      BY <3>1, <3>3, <3>4, Zenon DEF LoopInv, NoLoop
  <2>2. CASE ~last
    <3> HIDE DEF last
    <3>1. UNCHANGED <<owned[e], cleanup[e], generation[e], handle[e], campaign[e], loop[e], cancelled[e]>>
      BY <1>4, <1>8, <2>2, Zenon
    <3> QED
      BY <1>1, <3>1, Zenon DEF LoopInv, NoLoop, Renewing, Contending
  <2> QED
    BY <2>1, <2>2, Zenon
<1>11. CountInv(e)'
  <2>1. Cardinality(Active(e)') = Cardinality(Active(e)) - 1
    BY <1>2, <1>7, FS_RemoveElement, ZenonT(40)
  <2> QED
    BY <1>1, <1>2, <1>4, <1>8, <1>9, <2>1, Zenon DEF CountInv, NoLoop, Renewing
<1>12. ASSUME NEW s \in Resigners PROVE CallInv(s)'
  <2>1. CASE call'[s] = "idle"
    BY <2>1, Zenon DEF CallInv
  <2>2. CASE call'[s] # "idle"
    <3>1. s # r /\ UNCHANGED <<call[s], on[s], callGeneration[s], callDone[s], callResolved[s]>>
      BY <1>4, <2>2, Zenon
    <3>2. CASE on[s] # e
      BY <1>5, <2>2, <3>1, <3>2, Frame, Zenon DEF LocalInv, TypeInv
    <3>3. CASE on[s] = e
      <4>1. s \in Active(e)
        BY <2>2, <3>1, <3>3, Zenon DEF Active
      <4>2. resigning[e] # 1
        BY <1>1, <1>2, <3>1, <4>1, ActiveCount, ZenonT(40)
      <4>3. ~last
        BY <1>2, <4>2
      <4>4. cleanup'[e] = cleanup[e]
        BY <1>8, <4>3, Zenon
      <4>5. CallInv(s)
        BY Zenon DEF LocalInv
      <4> QED
        BY <1>4, <3>1, <3>3, <4>4, <4>5, Zenon DEF CallInv, NoLoop, Renewing, Contending
    <3> QED
      BY <3>2, <3>3, Zenon
  <2> QED
    BY <2>1, <2>2, Zenon
<1> QED
  BY <1>5, <1>6, <1>10, <1>11, <1>12, Frame, Zenon DEF LocalInv

\* The invariant of the loops and of the Resign calls is inductive.
THEOREM LocalInvariant == Spec => []LocalInv
<1>1. Init => LocalInv
  <2> SUFFICES ASSUME Init PROVE LocalInv
    BY Zenon
  <2>1. \A e \in Electors : LoopInv(e)
    BY DEF Init, LoopInv, Contending, NoLoop, Renewing
  <2>2. \A e \in Electors : Active(e) = {}
    BY Zenon DEF Init, Active
  <2>3. \A e \in Electors : CountInv(e)
    BY <2>2, FS_EmptySet, Zenon DEF Init, CountInv
  <2>4. \A r \in Resigners : CallInv(r)
    BY Zenon DEF Init, CallInv
  <2> QED
    BY <2>1, <2>3, <2>4, Zenon DEF LocalInv
<1>2. TypeInv /\ LocalInv /\ [Next]_vars => LocalInv'
  <2> SUFFICES ASSUME TypeInv, LocalInv, [Next]_vars PROVE LocalInv'
    BY Zenon
  <2>1. CASE Tick \/ UNCHANGED vars
    <3>1. UNCHANGED <<elector, campaign, loop, cancelled, calls>>
      BY <2>1, Zenon DEF Tick, vars
    <3>2. \A f \in Electors : UNCHANGED <<View(f), resigning[f], resolved[f], Active(f)>>
      BY <3>1, Zenon DEF elector, calls, View, Active
    <3>3. \A r \in Resigners : CallInv(r)'
      BY <3>1, Zenon DEF LocalInv, CallInv, Contending, NoLoop, Renewing, elector, calls
    <3> QED
      BY <3>2, <3>3, Frame, Zenon DEF LocalInv
  <2> QED
    BY <2>1, CampaignLocal, LoopLocal, EnterLocal, WaitLocal, FinishLocal, Zenon DEF Next, ResignStep
<1> QED
  BY <1>1, <1>2, TypeInvariant, PTL DEF Spec

\* The invariant of the lease row is inductive.
THEOREM RowInvariant == Spec => []RowInv
<1> USE LeaseAssumption, NoOwnerAssumption
<1>1. Init => RowInv
  BY DEF Init, RowInv, LeaseInv
<1>2. TypeInv /\ LocalInv /\ RowInv /\ [Next]_vars => RowInv'
  <2> SUFFICES ASSUME TypeInv, LocalInv, RowInv, [Next]_vars PROVE RowInv'
    BY Zenon
  <2>0. /\ now \in Nat /\ Lease \in Nat \ {0} /\ row.until \in Nat
        /\ \A e \in Electors : confirmed[e] \in Nat
    BY DEF TypeInv, TypeOK
  <2>1. \A e \in Electors : Leased(e).owner = e /\ Leased(e).until = now + Lease
    BY Zenon DEF Leased
  <2>2. CASE Tick
    BY <2>0, <2>2, SMTT(30) DEF Tick, RowInv, LeaseInv, elector
  <2>3. ASSUME NEW e \in Electors, row' = Leased(e), Acquirable(e) \/ Renewable(e), now' = now,
               UNCHANGED owned, confirmed'[e] \in {confirmed[e], now + Lease},
               \A f \in Electors \ {e} : UNCHANGED <<confirmed[f], campaign[f]>>
        PROVE  RowInv'
    <3>1. row'.until = now' + Lease /\ row'.owner = e
      BY <2>1, <2>3, Zenon
    <3>2. LeaseInv(e)'
      BY <2>0, <2>3, <3>1 DEF RowInv, LeaseInv
    <3>3. ASSUME NEW f \in Electors \ {e} PROVE LeaseInv(f)'
      <4>1. ~((owned[f] \/ campaign[f] = "won") /\ now < confirmed[f])
        BY <2>0, <2>3 DEF RowInv, LeaseInv, Acquirable, Renewable, Live
      <4> QED
        BY <2>3, <4>1, Zenon DEF RowInv, LeaseInv
    <3> QED
      BY <2>0, <2>3, <3>1, <3>2, <3>3, SMTT(30) DEF RowInv
  <2>4. ASSUME NEW e \in Electors, UNCHANGED <<row, now>>, UNCHANGED confirmed[e] \/ (row.owner = e
        /\ confirmed'[e] = row.until),
               \A f \in Electors : (owned[f] \/ campaign[f] = "won")' => (owned[f] \/ campaign[f] = "won") \/ (f = e
                   /\ row.owner = e /\ confirmed'[e] = row.until),
               \A f \in Electors \ {e} : UNCHANGED confirmed[f]
        PROVE  RowInv'
    BY <2>0, <2>4 DEF RowInv, LeaseInv
  <2>5. ASSUME NEW e \in Electors, CampaignStep(e) PROVE RowInv'
    <3> USE DEF elector
    <3>1. CASE Acquire(e)
      BY <2>3, <2>4, <3>1, ZenonT(40) DEF Acquire, TypeInv, TypeOK
    <3>2. CASE AcquireUnknown(e)
      BY <2>3, <2>4, <3>2, Zenon DEF AcquireUnknown, TypeInv, TypeOK
    <3>3. CASE Reconcile(e)
      BY <2>4, <3>3, ZenonT(40) DEF Reconcile, Owner, TypeInv, TypeOK
    <3>4. CASE beginCampaign(e) \/ markCleanupPending(e) \/ Backoff(e) \/ startRenewal(e) \/ endCampaign(e)
      <4>1. UNCHANGED <<row, now, confirmed>>
        BY <3>4, Zenon DEF beginCampaign, markCleanupPending, Backoff, startRenewal, endCampaign
      <4>2. \A f \in Electors : (owned[f] \/ campaign[f] = "won")' => owned[f] \/ campaign[f] = "won"
        BY <3>4, Zenon DEF beginCampaign, markCleanupPending, Backoff, startRenewal, endCampaign, TypeInv, TypeOK
      <4> QED
        BY <2>4, <4>1, <4>2, Zenon
    <3> QED
      BY <2>5, <3>1, <3>2, <3>3, <3>4, Zenon DEF CampaignStep
  <2>6. ASSUME NEW e \in Electors, NEW g \in Generations, LoopStep(e, g) PROVE RowInv'
    <3> USE DEF elector
    <3>1. CASE Renew(e, g)
      BY <2>3, <2>4, <3>1, ZenonT(40) DEF Renew, TypeInv, TypeOK
    <3>2. CASE RenewUnknown(e, g)
      BY <2>3, <2>4, <3>2, Zenon DEF RenewUnknown, TypeInv, TypeOK
    <3>3. CASE LoopStop(e, g) \/ RenewTick(e, g) \/ clearOwnershipAfterLoss(e, g)
      <4>1. UNCHANGED <<row, now, confirmed, campaign>>
        BY <3>3, Zenon DEF LoopStop, RenewTick, clearOwnershipAfterLoss
      <4>2. \A f \in Electors : owned'[f] => owned[f]
        BY <3>3, ZenonT(40) DEF LoopStop, RenewTick, clearOwnershipAfterLoss, TypeInv, TypeOK
      <4> QED
        BY <2>4, <4>1, <4>2, Zenon
    <3> QED
      BY <2>6, <3>1, <3>2, <3>3, ZenonT(40) DEF LoopStep
  <2>7. ASSUME NEW r \in Resigners, ResignStep(r) PROVE RowInv'
    <3> USE DEF elector
    <3>1. ASSUME NEW e \in Electors, clearOwnership(r, e) PROVE RowInv'
      BY <2>4, <3>1, Zenon DEF clearOwnership, TypeInv, TypeOK
    <3>2. CASE deleteOwner(r)
      <4>1. UNCHANGED <<now, confirmed, owned, campaign>> /\ row' \in {row, Deleted(on[r])}
        BY <3>2, Zenon DEF deleteOwner
      <4>2. row' = row \/ (row.owner = on[r] /\ row'.until = 0)
        BY <4>1 DEF Deleted
      <4>3. ~owned[on[r]] /\ campaign[on[r]] # "won"
        BY <3>2, Zenon DEF deleteOwner, LocalInv, CallInv, Contending
      <4>4. row'.until <= now' + Lease
        BY <2>0, <4>1, <4>2 DEF RowInv
      <4>5. ASSUME NEW f \in Electors PROVE LeaseInv(f)'
        <5>1. LeaseInv(f)
          BY Zenon DEF RowInv
        <5> QED
          BY <4>1, <4>2, <4>3, <5>1, Zenon DEF LeaseInv
      <4> QED
        BY <4>4, <4>5, Zenon DEF RowInv
    <3>3. CASE Join(r) \/ JoinTimeout(r) \/ finishResign(r)
      BY <3>3, Zenon DEF Join, JoinTimeout, finishResign, RowInv, LeaseInv
    <3> QED
      BY <2>7, <3>1, <3>2, <3>3, Zenon DEF ResignStep
  <2>8. CASE UNCHANGED vars
    BY <2>8, Zenon DEF vars, elector, RowInv, LeaseInv
  <2> QED
    BY <2>2, <2>5, <2>6, <2>7, <2>8, Zenon DEF Next
<1> QED
  BY <1>1, <1>2, TypeInvariant, LocalInvariant, PTL DEF Spec

-----------------------------------------------------------------------------

\* The variables of the electors and of the row keep their types.
THEOREM TypeCorrect == Spec => []TypeOK
BY TypeInvariant, PTL DEF TypeInv

\* No Resign deletes, and no contender takes over, the row of an elector
\* whose last confirmed lease still runs.
THEOREM LeaderAlwaysHoldsRow == Spec => []LeaderHoldsRow
<1>1. TypeInv /\ RowInv => LeaderHoldsRow
  BY Zenon DEF TypeInv, TypeOK, RowInv, LeaseInv, LeaderHoldsRow, Leads
<1> QED
  BY <1>1, TypeInvariant, RowInvariant, PTL

\* At most one elector leads under a confirmed lease.
THEOREM OneLeader == Spec => []MutualExclusion
<1>1. LeaderHoldsRow => MutualExclusion
  BY Zenon DEF LeaderHoldsRow, MutualExclusion
<1> QED
  BY <1>1, LeaderAlwaysHoldsRow, PTL

\* IsLeader is backed by exactly one uncancelled renewal loop.
THEOREM OwnedAlwaysRenewed == Spec => []OwnedIsRenewed
<1>1. LocalInv => OwnedIsRenewed
  BY Zenon DEF LocalInv, LoopInv, OwnedIsRenewed
<1> QED
  BY <1>1, LocalInvariant, PTL

\* Overlapping Resign calls are counted exactly and keep campaigns out.
THEOREM ResignAlwaysExcludes == Spec => []ResignExcludesCampaign
<1>1. TypeInv /\ LocalInv => ResignExcludesCampaign
  <2> SUFFICES ASSUME TypeInv, LocalInv, NEW e \in Electors
               PROVE  /\ resigning[e] = Cardinality(Active(e))
                      /\ Active(e) # {} => cleanup[e] /\ ~owned[e] /\ campaign[e] \in {"idle", "ending"}
    BY ZenonT(40) DEF ResignExcludesCampaign
  <2>1. \A r \in Active(e) : cleanup[e] /\ ~owned[e] /\ ~Contending(e)
    BY Zenon DEF Active, LocalInv, CallInv
  <2>2. campaign[e] \in CampaignState
    BY Zenon DEF TypeInv, TypeOK
  <2> QED
    BY <2>1, <2>2, Zenon DEF LocalInv, CountInv, Contending, CampaignState
<1> QED
  BY <1>1, TypeInvariant, LocalInvariant, PTL

-----------------------------------------------------------------------------
(* The elector of leader/etcd                                              *)

CONSTANT MaxCampaigns

VARIABLES keys, older, lease, deleted, el, monitor, pc, rpc, campaigns

\* leader/etcd
Etcd == INSTANCE EtcdLeader

CampaignsAssumption == MaxCampaigns \in Nat

Fields == [current : BOOLEAN, campaigning : BOOLEAN, published : BOOLEAN, cancelled : BOOLEAN, elected : BOOLEAN]

\* The deletion of a key that is gone is in the watch, and one that is there is the oldest.
Watched(e) == (Etcd!HasKey(e) => Etcd!First(e)) /\ (~Etcd!HasKey(e) => e \in deleted)

\* One call at a time works on the generation, which is current until its key is proved gone; from the proclamation
\* on, its key is watched.
Life(e) ==
  /\ el[e].campaigning <=> pc[e] # "idle"
  /\ pc[e] \notin {"idle", "end"} => el[e].current /\ ~el[e].published /\ rpc[e] = "idle"
  /\ rpc[e] # "idle" => el[e].current /\ ~el[e].published
  /\ Etcd!HasKey(e) => el[e].current /\ pc[e] \notin {"grant", "campaign"}
  /\ pc[e] = "proclaim" /\ Etcd!HasKey(e) => Etcd!First(e)
  /\ pc[e] \in {"watch", "created"} => el[e].elected /\ Watched(e)
  /\ el[e].published => el[e].elected /\ Watched(e) /\ monitor[e] \in {"created", "terminal"}

\* Of two keys one is older.
Ordered == \A e, f \in keys : e # f => e \in older[f] \/ f \in older[e]

EtcdInv == Etcd!TypeOK /\ Ordered /\ \A e \in Electors : Life(e)

\* What a step of e leaves to the other electors.
OthersKeep(e) ==
  \A f \in Electors \ {e} :
    /\ el'[f] = el[f] /\ pc'[f] = pc[f] /\ rpc'[f] = rpc[f] /\ monitor'[f] = monitor[f]
    /\ Etcd!HasKey(f)' <=> Etcd!HasKey(f)
    /\ older'[f] \subseteq older[f]
    /\ f \in deleted => f \in deleted'

Good(e) == Etcd!TypeOK' /\ Ordered' /\ OthersKeep(e) /\ Life(e)'

\* Setting a flag keeps the types of the flags.
LEMMA FieldsKept ==
  ASSUME Etcd!TypeOK, NEW e \in Electors, NEW b \in BOOLEAN
  PROVE  /\ el \in [Electors -> Fields]
         /\ [el EXCEPT ![e].current = b] \in [Electors -> Fields]
         /\ [el EXCEPT ![e].campaigning = b] \in [Electors -> Fields]
         /\ [el EXCEPT ![e].published = b] \in [Electors -> Fields]
         /\ [el EXCEPT ![e].cancelled = b] \in [Electors -> Fields]
         /\ [el EXCEPT ![e].elected = b] \in [Electors -> Fields]
         /\ [el EXCEPT ![e].published = FALSE, ![e].cancelled = b] \in [Electors -> Fields]
  <1>1. el \in [Electors -> Fields]
    BY Zenon DEF Etcd!TypeOK, Fields
  <1>2. \A x \in Fields : [x EXCEPT !.current = b] \in Fields
    BY Zenon DEF Fields
  <1>3. \A x \in Fields : [x EXCEPT !.campaigning = b] \in Fields
    BY Zenon DEF Fields
  <1>4. \A x \in Fields : [x EXCEPT !.published = b] \in Fields
    BY Zenon DEF Fields
  <1>5. \A x \in Fields : [x EXCEPT !.cancelled = b] \in Fields
    BY Zenon DEF Fields
  <1>6. \A x \in Fields : [x EXCEPT !.elected = b] \in Fields
    BY Zenon DEF Fields
  <1>7. \A x \in Fields : [x EXCEPT !.published = FALSE, !.cancelled = b] \in Fields
    BY Zenon DEF Fields
  <1>a. [el EXCEPT ![e].current = b] \in [Electors -> Fields]
    BY <1>1, <1>2, Zenon
  <1>b. [el EXCEPT ![e].campaigning = b] \in [Electors -> Fields]
    BY <1>1, <1>3, Zenon
  <1>c. [el EXCEPT ![e].published = b] \in [Electors -> Fields]
    BY <1>1, <1>4, Zenon
  <1>d. [el EXCEPT ![e].cancelled = b] \in [Electors -> Fields]
    BY <1>1, <1>5, Zenon
  <1>e. [el EXCEPT ![e].elected = b] \in [Electors -> Fields]
    BY <1>1, <1>6, Zenon
  <1>f. [el EXCEPT ![e].published = FALSE, ![e].cancelled = b] \in [Electors -> Fields]
    BY <1>1, <1>7, Zenon
  <1> QED BY <1>1, <1>a, <1>b, <1>c, <1>d, <1>e, <1>f, Zenon

LEMMA LeaseExpiresGood ==
  ASSUME CampaignsAssumption, EtcdInv, NEW e \in Electors, Etcd!LeaseExpires(e)
  PROVE  Good(e)
  <1> USE DEF EtcdInv, Etcd!LeaseExpires, Etcd!At, Etcd!ResignAt, Etcd!RemoveKey, Etcd!PutKey, Etcd!Proved
  <1>1. Etcd!TypeOK'
    BY DEF Etcd!TypeOK, Etcd!Cleanup, CampaignsAssumption
  <1>2. OthersKeep(e)
    BY DEF OthersKeep, Etcd!TypeOK, Etcd!HasKey
  <1>3. Ordered'
    BY DEF Ordered, Etcd!TypeOK, Etcd!HasKey
  <1>4. Life(e)'
    BY DEF Life, Etcd!TypeOK, Watched, Etcd!HasKey, Etcd!First, Etcd!Cleanup, Etcd!Stopped
  <1> QED BY <1>1, <1>2, <1>3, <1>4 DEF Good

LEMMA BeginCampaignGood ==
  ASSUME CampaignsAssumption, EtcdInv, NEW e \in Electors, Etcd!beginCampaign(e)
  PROVE  Good(e)
  <1> USE DEF EtcdInv, Etcd!beginCampaign, Etcd!At, Etcd!ResignAt, Etcd!RemoveKey, Etcd!PutKey, Etcd!Proved
  <1>1. Etcd!TypeOK'
    BY DEF Etcd!TypeOK, Etcd!Cleanup, CampaignsAssumption
  <1>2. OthersKeep(e)
    BY DEF OthersKeep, Etcd!TypeOK, Etcd!HasKey
  <1>3. Ordered'
    BY DEF Ordered, Etcd!TypeOK, Etcd!HasKey
  <1>4. Life(e)'
    BY DEF Life, Etcd!TypeOK, Watched, Etcd!HasKey, Etcd!First, Etcd!Cleanup, Etcd!Stopped
  <1> QED BY <1>1, <1>2, <1>3, <1>4 DEF Good

LEMMA CallerCancelledGood ==
  ASSUME CampaignsAssumption, EtcdInv, NEW e \in Electors, Etcd!callerCancelled(e)
  PROVE  Good(e)
  <1> USE DEF EtcdInv, Etcd!callerCancelled, Etcd!At, Etcd!ResignAt, Etcd!RemoveKey, Etcd!PutKey, Etcd!Proved
  <1>0. el' \in [Electors -> Fields]
    BY FieldsKept, Zenon
  <1>1. Etcd!TypeOK'
    BY <1>0, Zenon DEF Etcd!TypeOK, Fields, Etcd!Cleanup
  <1>2. OthersKeep(e)
    BY DEF OthersKeep, Etcd!TypeOK, Etcd!HasKey
  <1>3. Ordered'
    BY DEF Ordered, Etcd!TypeOK, Etcd!HasKey
  <1>4. Life(e)'
    BY DEF Life, Etcd!TypeOK, Watched, Etcd!HasKey, Etcd!First, Etcd!Cleanup, Etcd!Stopped
  <1> QED BY <1>1, <1>2, <1>3, <1>4 DEF Good

LEMMA GrantGood ==
  ASSUME CampaignsAssumption, EtcdInv, NEW e \in Electors, Etcd!grant(e)
  PROVE  Good(e)
  <1> USE DEF EtcdInv, Etcd!grant, Etcd!At, Etcd!ResignAt, Etcd!RemoveKey, Etcd!PutKey, Etcd!Proved
  <1>1. Etcd!TypeOK'
    BY DEF Etcd!TypeOK, Etcd!Cleanup, CampaignsAssumption
  <1>2. OthersKeep(e)
    BY DEF OthersKeep, Etcd!TypeOK, Etcd!HasKey
  <1>3. Ordered'
    BY DEF Ordered, Etcd!TypeOK, Etcd!HasKey
  <1>4. Life(e)'
    BY DEF Life, Etcd!TypeOK, Watched, Etcd!HasKey, Etcd!First, Etcd!Cleanup, Etcd!Stopped
  <1> QED BY <1>1, <1>2, <1>3, <1>4 DEF Good

LEMMA CampaignGood ==
  ASSUME CampaignsAssumption, EtcdInv, NEW e \in Electors, Etcd!campaign(e)
  PROVE  Good(e)
  <1> USE DEF EtcdInv, Etcd!campaign, Etcd!At, Etcd!ResignAt, Etcd!RemoveKey, Etcd!PutKey, Etcd!Proved
  <1>1. Etcd!TypeOK'
    BY Zenon DEF Etcd!TypeOK, Etcd!Cleanup, CampaignsAssumption
  <1>2. OthersKeep(e)
    BY DEF OthersKeep, Etcd!TypeOK, Etcd!HasKey
  <1>3. Ordered'
    BY DEF Ordered, Etcd!TypeOK, Etcd!HasKey
  <1>4. Life(e)'
    BY DEF Life, Etcd!TypeOK, Watched, Etcd!HasKey, Etcd!First, Etcd!Cleanup, Etcd!Stopped
  <1> QED BY <1>1, <1>2, <1>3, <1>4 DEF Good

LEMMA WaitDeletesGood ==
  ASSUME CampaignsAssumption, EtcdInv, NEW e \in Electors, Etcd!waitDeletes(e)
  PROVE  Good(e)
  <1> USE DEF EtcdInv, Etcd!waitDeletes, Etcd!At, Etcd!ResignAt, Etcd!RemoveKey, Etcd!PutKey, Etcd!Proved
  <1>1. Etcd!TypeOK'
    BY DEF Etcd!TypeOK, Etcd!Cleanup, CampaignsAssumption
  <1>2. OthersKeep(e)
    BY DEF OthersKeep, Etcd!TypeOK, Etcd!HasKey
  <1>3. Ordered'
    BY DEF Ordered, Etcd!TypeOK, Etcd!HasKey
  <1>4. Life(e)'
    BY DEF Life, Etcd!TypeOK, Watched, Etcd!HasKey, Etcd!First, Etcd!Cleanup, Etcd!Stopped
  <1> QED BY <1>1, <1>2, <1>3, <1>4 DEF Good

LEMMA ProclaimGood ==
  ASSUME CampaignsAssumption, EtcdInv, NEW e \in Electors, Etcd!proclaim(e)
  PROVE  Good(e)
  <1> USE DEF EtcdInv, Etcd!proclaim, Etcd!At, Etcd!ResignAt, Etcd!RemoveKey, Etcd!PutKey, Etcd!Proved
  <1>0. el' \in [Electors -> Fields]
    <2>1. UNCHANGED el \/ el' = [el EXCEPT ![e].elected = TRUE]
      BY Zenon
    <2>2. [el EXCEPT ![e].elected = TRUE] \in [Electors -> Fields] /\ el \in [Electors -> Fields]
      BY FieldsKept, Zenon
    <2> QED BY <2>1, <2>2, Zenon
  <1>1. Etcd!TypeOK'
    <2>1. pc' \in [Electors -> {"idle", "grant", "campaign", "wait", "proclaim", "watch", "created", "end"}
                                 \cup Etcd!Cleanup]
      BY DEF Etcd!TypeOK, Etcd!Cleanup
    <2>2. rpc' \in [Electors -> {"idle", "resign"} \cup Etcd!Cleanup]
      BY DEF Etcd!TypeOK, Etcd!Cleanup
    <2>3. monitor' \in [Electors -> {"none", "starting", "created", "terminal", "done"}]
      BY DEF Etcd!TypeOK
    <2>4. keys' \subseteq Electors /\ older' \in [Electors -> SUBSET Electors] /\ lease' \subseteq Electors
          /\ deleted' \subseteq Electors
      BY DEF Etcd!TypeOK
    <2>5. campaigns' \in 0..MaxCampaigns
      BY DEF Etcd!TypeOK
    <2> QED BY <1>0, <2>1, <2>2, <2>3, <2>4, <2>5, Zenon DEF Etcd!TypeOK, Fields
  <1>2. OthersKeep(e)
    BY DEF OthersKeep, Etcd!TypeOK, Etcd!HasKey
  <1>3. Ordered'
    BY DEF Ordered, Etcd!TypeOK, Etcd!HasKey
  <1>4. Life(e)'
    BY DEF Life, Etcd!TypeOK, Watched, Etcd!HasKey, Etcd!First, Etcd!Cleanup, Etcd!Stopped
  <1> QED BY <1>1, <1>2, <1>3, <1>4 DEF Good

LEMMA WatchGood ==
  ASSUME CampaignsAssumption, EtcdInv, NEW e \in Electors, Etcd!watch(e)
  PROVE  Good(e)
  <1> USE DEF EtcdInv, Etcd!watch, Etcd!At, Etcd!ResignAt, Etcd!RemoveKey, Etcd!PutKey, Etcd!Proved
  <1>1. Etcd!TypeOK'
    BY DEF Etcd!TypeOK, Etcd!Cleanup, CampaignsAssumption
  <1>2. OthersKeep(e)
    BY DEF OthersKeep, Etcd!TypeOK, Etcd!HasKey
  <1>3. Ordered'
    BY DEF Ordered, Etcd!TypeOK, Etcd!HasKey
  <1>4. Life(e)'
    BY DEF Life, Etcd!TypeOK, Watched, Etcd!HasKey, Etcd!First, Etcd!Cleanup, Etcd!Stopped
  <1> QED BY <1>1, <1>2, <1>3, <1>4 DEF Good

LEMMA WatchCreatedGood ==
  ASSUME CampaignsAssumption, EtcdInv, NEW e \in Electors, Etcd!watchCreated(e)
  PROVE  Good(e)
  <1> USE DEF EtcdInv, Etcd!watchCreated, Etcd!At, Etcd!ResignAt, Etcd!RemoveKey, Etcd!PutKey, Etcd!Proved
  <1>1. Etcd!TypeOK'
    BY DEF Etcd!TypeOK, Etcd!Cleanup, CampaignsAssumption
  <1>2. OthersKeep(e)
    BY DEF OthersKeep, Etcd!TypeOK, Etcd!HasKey
  <1>3. Ordered'
    BY DEF Ordered, Etcd!TypeOK, Etcd!HasKey
  <1>4. Life(e)'
    BY DEF Life, Etcd!TypeOK, Watched, Etcd!HasKey, Etcd!First, Etcd!Cleanup, Etcd!Stopped
  <1> QED BY <1>1, <1>2, <1>3, <1>4 DEF Good

LEMMA MonitorFailsGood ==
  ASSUME CampaignsAssumption, EtcdInv, NEW e \in Electors, Etcd!monitorFails(e)
  PROVE  Good(e)
  <1> USE DEF EtcdInv, Etcd!monitorFails, Etcd!At, Etcd!ResignAt, Etcd!RemoveKey, Etcd!PutKey, Etcd!Proved
  <1>1. Etcd!TypeOK'
    BY DEF Etcd!TypeOK, Etcd!Cleanup, CampaignsAssumption
  <1>2. OthersKeep(e)
    BY DEF OthersKeep, Etcd!TypeOK, Etcd!HasKey
  <1>3. Ordered'
    BY DEF Ordered, Etcd!TypeOK, Etcd!HasKey
  <1>4. Life(e)'
    BY DEF Life, Etcd!TypeOK, Watched, Etcd!HasKey, Etcd!First, Etcd!Cleanup, Etcd!Stopped
  <1> QED BY <1>1, <1>2, <1>3, <1>4 DEF Good

LEMMA LoseGenerationGood ==
  ASSUME CampaignsAssumption, EtcdInv, NEW e \in Electors, Etcd!loseGeneration(e)
  PROVE  Good(e)
  <1> USE DEF EtcdInv, Etcd!loseGeneration, Etcd!At, Etcd!ResignAt, Etcd!RemoveKey, Etcd!PutKey, Etcd!Proved
  <1>0. el' \in [Electors -> Fields]
    BY FieldsKept, Zenon
  <1>1. Etcd!TypeOK'
    <2>1. pc' \in [Electors -> {"idle", "grant", "campaign", "wait", "proclaim", "watch", "created", "end"}
                                 \cup Etcd!Cleanup]
      BY DEF Etcd!TypeOK, Etcd!Cleanup
    <2>2. rpc' \in [Electors -> {"idle", "resign"} \cup Etcd!Cleanup]
      BY DEF Etcd!TypeOK, Etcd!Cleanup
    <2>3. monitor' \in [Electors -> {"none", "starting", "created", "terminal", "done"}]
      BY DEF Etcd!TypeOK
    <2>4. keys' \subseteq Electors /\ older' \in [Electors -> SUBSET Electors] /\ lease' \subseteq Electors
          /\ deleted' \subseteq Electors
      BY DEF Etcd!TypeOK
    <2>5. campaigns' \in 0..MaxCampaigns
      BY DEF Etcd!TypeOK
    <2> QED BY <1>0, <2>1, <2>2, <2>3, <2>4, <2>5, Zenon DEF Etcd!TypeOK, Fields
  <1>2. OthersKeep(e)
    BY DEF OthersKeep, Etcd!TypeOK, Etcd!HasKey
  <1>3. Ordered'
    BY DEF Ordered, Etcd!TypeOK, Etcd!HasKey
  <1>4. Life(e)'
    BY DEF Life, Etcd!TypeOK, Watched, Etcd!HasKey, Etcd!First, Etcd!Cleanup, Etcd!Stopped
  <1> QED BY <1>1, <1>2, <1>3, <1>4 DEF Good

LEMMA PublishGood ==
  ASSUME CampaignsAssumption, EtcdInv, NEW e \in Electors, Etcd!publish(e)
  PROVE  Good(e)
  <1> USE DEF EtcdInv, Etcd!publish, Etcd!At, Etcd!ResignAt, Etcd!RemoveKey, Etcd!PutKey, Etcd!Proved
  <1>0. el' \in [Electors -> Fields]
    <2>1. UNCHANGED el \/ el' = [el EXCEPT ![e].published = TRUE]
      BY Zenon
    <2>2. [el EXCEPT ![e].published = TRUE] \in [Electors -> Fields] /\ el \in [Electors -> Fields]
      BY FieldsKept, Zenon
    <2> QED BY <2>1, <2>2, Zenon
  <1>1. Etcd!TypeOK'
    <2>1. pc' \in [Electors -> {"idle", "grant", "campaign", "wait", "proclaim", "watch", "created", "end"}
                                 \cup Etcd!Cleanup]
      BY DEF Etcd!TypeOK, Etcd!Cleanup
    <2>2. rpc' \in [Electors -> {"idle", "resign"} \cup Etcd!Cleanup]
      BY DEF Etcd!TypeOK, Etcd!Cleanup
    <2>3. monitor' \in [Electors -> {"none", "starting", "created", "terminal", "done"}]
      BY DEF Etcd!TypeOK
    <2>4. keys' \subseteq Electors /\ older' \in [Electors -> SUBSET Electors] /\ lease' \subseteq Electors
          /\ deleted' \subseteq Electors
      BY DEF Etcd!TypeOK
    <2>5. campaigns' \in 0..MaxCampaigns
      BY DEF Etcd!TypeOK
    <2> QED BY <1>0, <2>1, <2>2, <2>3, <2>4, <2>5, Zenon DEF Etcd!TypeOK, Fields
  <1>2. OthersKeep(e)
    BY DEF OthersKeep, Etcd!TypeOK, Etcd!HasKey
  <1>3. Ordered'
    BY DEF Ordered, Etcd!TypeOK, Etcd!HasKey
  <1>4. Life(e)'
    <2>1. CASE monitor[e] = "created" /\ ~el[e].cancelled /\ el' = [el EXCEPT ![e].published = TRUE] /\ Etcd!At(e, "end")
      BY <2>1 DEF Life, Etcd!TypeOK, Watched, Etcd!HasKey, Etcd!First, Etcd!Cleanup
    <2>2. CASE Etcd!At(e, "stop") /\ UNCHANGED el
      BY <2>2 DEF Life, Etcd!TypeOK, Watched, Etcd!HasKey, Etcd!First, Etcd!Cleanup
    <2> QED BY <2>1, <2>2, Zenon
  <1> QED BY <1>1, <1>2, <1>3, <1>4 DEF Good

LEMMA EndCampaignGood ==
  ASSUME CampaignsAssumption, EtcdInv, NEW e \in Electors, Etcd!endCampaign(e)
  PROVE  Good(e)
  <1> USE DEF EtcdInv, Etcd!endCampaign, Etcd!At, Etcd!ResignAt, Etcd!RemoveKey, Etcd!PutKey, Etcd!Proved
  <1>0. el' \in [Electors -> Fields]
    BY FieldsKept, Zenon
  <1>1. Etcd!TypeOK'
    BY <1>0, Zenon DEF Etcd!TypeOK, Fields, Etcd!Cleanup
  <1>2. OthersKeep(e)
    BY DEF OthersKeep, Etcd!TypeOK, Etcd!HasKey
  <1>3. Ordered'
    BY DEF Ordered, Etcd!TypeOK, Etcd!HasKey
  <1>4. Life(e)'
    BY DEF Life, Etcd!TypeOK, Watched, Etcd!HasKey, Etcd!First, Etcd!Cleanup, Etcd!Stopped
  <1> QED BY <1>1, <1>2, <1>3, <1>4 DEF Good

LEMMA ResignBeginGood ==
  ASSUME CampaignsAssumption, EtcdInv, NEW e \in Electors, Etcd!ResignBegin(e)
  PROVE  Good(e)
  <1> USE DEF EtcdInv, Etcd!ResignBegin, Etcd!At, Etcd!ResignAt, Etcd!RemoveKey, Etcd!PutKey, Etcd!Proved
  <1>0. el' \in [Electors -> Fields]
    BY FieldsKept, Zenon
  <1>1. Etcd!TypeOK'
    BY <1>0, Zenon DEF Etcd!TypeOK, Fields, Etcd!Cleanup
  <1>2. OthersKeep(e)
    BY DEF OthersKeep, Etcd!TypeOK, Etcd!HasKey
  <1>3. Ordered'
    BY DEF Ordered, Etcd!TypeOK, Etcd!HasKey
  <1>4. Life(e)'
    BY DEF Life, Etcd!TypeOK, Watched, Etcd!HasKey, Etcd!First, Etcd!Cleanup, Etcd!Stopped
  <1> QED BY <1>1, <1>2, <1>3, <1>4 DEF Good

LEMMA ShutdownGood ==
  ASSUME CampaignsAssumption, EtcdInv, NEW e \in Electors, Etcd!shutdown(e)
  PROVE  Good(e)
  <1> USE DEF EtcdInv, Etcd!shutdown, Etcd!At, Etcd!ResignAt, Etcd!RemoveKey, Etcd!PutKey, Etcd!Proved
  <1>0. el' \in [Electors -> Fields]
    BY FieldsKept, Zenon
  <1>1. Etcd!TypeOK'
    BY <1>0, Zenon DEF Etcd!TypeOK, Fields, Etcd!Cleanup
  <1>2. OthersKeep(e)
    BY DEF OthersKeep, Etcd!TypeOK, Etcd!HasKey
  <1>3. Ordered'
    BY DEF Ordered, Etcd!TypeOK, Etcd!HasKey
  <1>4. Life(e)'
    BY DEF Life, Etcd!TypeOK, Watched, Etcd!HasKey, Etcd!First, Etcd!Cleanup, Etcd!Stopped
  <1> QED BY <1>1, <1>2, <1>3, <1>4 DEF Good

LEMMA WaitForMonitorGood ==
  ASSUME CampaignsAssumption, EtcdInv, NEW e \in Electors, Etcd!waitForMonitor(e)
  PROVE  Good(e)
  <1> USE DEF EtcdInv, Etcd!waitForMonitor, Etcd!At, Etcd!ResignAt, Etcd!RemoveKey, Etcd!PutKey, Etcd!Proved
  <1>1. Etcd!TypeOK'
    BY Zenon DEF Etcd!TypeOK, Etcd!Cleanup, CampaignsAssumption
  <1>2. OthersKeep(e)
    BY DEF OthersKeep, Etcd!TypeOK, Etcd!HasKey
  <1>3. Ordered'
    BY DEF Ordered, Etcd!TypeOK, Etcd!HasKey
  <1>4. Life(e)'
    BY SMTT(20) DEF Life, Etcd!TypeOK, Watched, Etcd!HasKey, Etcd!First, Etcd!Cleanup, Etcd!Stopped
  <1> QED BY <1>1, <1>2, <1>3, <1>4 DEF Good

LEMMA ResignGood ==
  ASSUME CampaignsAssumption, EtcdInv, NEW e \in Electors, Etcd!resign(e)
  PROVE  Good(e)
  <1> USE DEF EtcdInv, Etcd!resign, Etcd!At, Etcd!ResignAt, Etcd!RemoveKey, Etcd!PutKey, Etcd!Proved
  <1>1. Etcd!TypeOK'
    BY DEF Etcd!TypeOK, Etcd!Cleanup, CampaignsAssumption
  <1>2. OthersKeep(e)
    BY DEF OthersKeep, Etcd!TypeOK, Etcd!HasKey
  <1>3. Ordered'
    BY DEF Ordered, Etcd!TypeOK, Etcd!HasKey
  <1>4. Life(e)'
    BY DEF Life, Etcd!TypeOK, Watched, Etcd!HasKey, Etcd!First, Etcd!Cleanup, Etcd!Stopped
  <1> QED BY <1>1, <1>2, <1>3, <1>4 DEF Good

\* What the end of a cleanup does to its elector.
LEMMA ProvedMoves ==
  ASSUME Etcd!TypeOK, NEW e \in Electors, NEW b \in BOOLEAN, Etcd!Proved(e, b)
  PROVE  /\ el'[e].campaigning = el[e].campaigning /\ el'[e].published = el[e].published
         /\ el'[e].elected = el[e].elected /\ (el'[e].current <=> el[e].current /\ ~b)
         /\ pc[e] \in Etcd!Cleanup => pc'[e] = "end" /\ rpc'[e] = rpc[e]
         /\ pc[e] \notin Etcd!Cleanup => pc'[e] = pc[e] /\ rpc'[e] = "idle"
  <1>1. /\ el'[e].campaigning = el[e].campaigning /\ el'[e].published = el[e].published
        /\ el'[e].elected = el[e].elected /\ (el'[e].current <=> el[e].current /\ ~b)
    <2>1. el' = [el EXCEPT ![e] = [el[e] EXCEPT !.current = el[e].current /\ ~b]] /\ el[e] \in Fields
          /\ el \in [Electors -> Fields]
      BY Zenon DEF Etcd!Proved, Etcd!TypeOK, Fields
    <2>2. ASSUME NEW c \in BOOLEAN, el'[e] = [el[e] EXCEPT !.current = c]
          PROVE  /\ el'[e].current = c /\ el'[e].campaigning = el[e].campaigning
                 /\ el'[e].published = el[e].published /\ el'[e].elected = el[e].elected
      BY <2>1, <2>2, Zenon DEF Fields
    <2>3. el'[e] = [el[e] EXCEPT !.current = el[e].current /\ ~b] /\ (el[e].current /\ ~b) \in BOOLEAN
      BY <2>1, Zenon
    <2> QED BY <2>1, <2>2, <2>3, Zenon
  <1>2. /\ pc[e] \in Etcd!Cleanup => pc'[e] = "end" /\ rpc'[e] = rpc[e]
        /\ pc[e] \notin Etcd!Cleanup => pc'[e] = pc[e] /\ rpc'[e] = "idle"
    BY Zenon DEF Etcd!Proved, Etcd!TypeOK
  <1> QED BY <1>1, <1>2, Zenon

LEMMA RevokeGood ==
  ASSUME CampaignsAssumption, EtcdInv, NEW e \in Electors, Etcd!revoke(e)
  PROVE  Good(e)
  <1> USE DEF EtcdInv, Etcd!revoke, Etcd!At, Etcd!ResignAt, Etcd!RemoveKey, Etcd!PutKey, Etcd!Proved
  <1>0. el' \in [Electors -> Fields]
    <2>1. UNCHANGED el \/ \E b \in BOOLEAN : el' = [el EXCEPT ![e].current = b]
      BY Zenon
    <2>2. /\ el \in [Electors -> Fields]
          /\ \A b \in BOOLEAN : [el EXCEPT ![e].current = b] \in [Electors -> Fields]
      BY FieldsKept, Zenon
    <2> QED BY <2>1, <2>2, Zenon
  <1>1. Etcd!TypeOK'
    <2>1. pc' \in [Electors -> {"idle", "grant", "campaign", "wait", "proclaim", "watch", "created", "end"}
                                 \cup Etcd!Cleanup]
      BY Zenon DEF Etcd!TypeOK, Etcd!Cleanup
    <2>2. rpc' \in [Electors -> {"idle", "resign"} \cup Etcd!Cleanup]
      BY DEF Etcd!TypeOK, Etcd!Cleanup
    <2>3. monitor' \in [Electors -> {"none", "starting", "created", "terminal", "done"}]
      BY DEF Etcd!TypeOK
    <2>4. keys' \subseteq Electors /\ older' \in [Electors -> SUBSET Electors] /\ lease' \subseteq Electors
          /\ deleted' \subseteq Electors
      BY DEF Etcd!TypeOK
    <2>5. campaigns' \in 0..MaxCampaigns
      BY DEF Etcd!TypeOK
    <2> QED BY <1>0, <2>1, <2>2, <2>3, <2>4, <2>5, Zenon DEF Etcd!TypeOK, Fields
  <1>2. OthersKeep(e)
    BY DEF OthersKeep, Etcd!TypeOK, Etcd!HasKey
  <1>3. Ordered'
    BY DEF Ordered, Etcd!TypeOK, Etcd!HasKey
  <1>4. Life(e)'
    BY DEF Life, Etcd!TypeOK, Watched, Etcd!HasKey, Etcd!First, Etcd!Cleanup, Etcd!Stopped
  <1> QED BY <1>1, <1>2, <1>3, <1>4 DEF Good

LEMMA GetGood ==
  ASSUME CampaignsAssumption, EtcdInv, NEW e \in Electors, Etcd!get(e)
  PROVE  Good(e)
  <1> USE DEF EtcdInv, Etcd!get, Etcd!At, Etcd!ResignAt, Etcd!RemoveKey, Etcd!PutKey, Etcd!Proved
  <1>0. el' \in [Electors -> Fields]
    <2>1. UNCHANGED el \/ \E b \in BOOLEAN : el' = [el EXCEPT ![e].current = b]
      BY Zenon
    <2>2. /\ el \in [Electors -> Fields]
          /\ \A b \in BOOLEAN : [el EXCEPT ![e].current = b] \in [Electors -> Fields]
      BY FieldsKept, Zenon
    <2> QED BY <2>1, <2>2, Zenon
  <1>1. Etcd!TypeOK'
    <2>1. pc' \in [Electors -> {"idle", "grant", "campaign", "wait", "proclaim", "watch", "created", "end"}
                                 \cup Etcd!Cleanup]
      BY DEF Etcd!TypeOK, Etcd!Cleanup
    <2>2. rpc' \in [Electors -> {"idle", "resign"} \cup Etcd!Cleanup]
      BY DEF Etcd!TypeOK, Etcd!Cleanup
    <2>3. monitor' \in [Electors -> {"none", "starting", "created", "terminal", "done"}]
      BY DEF Etcd!TypeOK
    <2>4. keys' \subseteq Electors /\ older' \in [Electors -> SUBSET Electors] /\ lease' \subseteq Electors
          /\ deleted' \subseteq Electors
      BY DEF Etcd!TypeOK
    <2>5. campaigns' \in 0..MaxCampaigns
      BY DEF Etcd!TypeOK
    <2> QED BY <1>0, <2>1, <2>2, <2>3, <2>4, <2>5, Zenon DEF Etcd!TypeOK, Fields
  <1>2. OthersKeep(e)
    BY DEF OthersKeep, Etcd!TypeOK, Etcd!HasKey
  <1>3. Ordered'
    BY SMTT(20) DEF Ordered, Etcd!TypeOK, Etcd!HasKey
  <1>4. Life(e)'
    <2>1. PICK b \in BOOLEAN : Etcd!Proved(e, b) /\ (b => ~Etcd!HasKey(e))
      BY Zenon DEF Etcd!HasKey
    <2>2. UNCHANGED <<keys, older, deleted, monitor>> /\ Life(e) /\ Etcd!TypeOK /\ (pc[e] = "get" \/ rpc[e] = "get")
      BY Zenon
    <2> HIDE DEF Etcd!get, Etcd!Proved, EtcdInv
    <2>3. /\ el'[e].campaigning = el[e].campaigning /\ el'[e].published = el[e].published
          /\ el'[e].elected = el[e].elected /\ (el'[e].current <=> el[e].current /\ ~b)
          /\ pc[e] \in Etcd!Cleanup => pc'[e] = "end" /\ rpc'[e] = rpc[e]
          /\ pc[e] \notin Etcd!Cleanup => pc'[e] = pc[e] /\ rpc'[e] = "idle"
      BY <2>1, <2>2, ProvedMoves, Zenon
    <2> QED BY <2>1, <2>2, <2>3 DEF Life, Watched, Etcd!HasKey, Etcd!First, Etcd!Cleanup
  <1> QED BY <1>1, <1>2, <1>3, <1>4 DEF Good

\* A step of one elector keeps the invariant for all.
LEMMA StepEtcd ==
  ASSUME CampaignsAssumption, EtcdInv, NEW e \in Electors, Etcd!Step(e)
  PROVE  EtcdInv'
  <1>1. Good(e)
    BY LeaseExpiresGood, BeginCampaignGood, CallerCancelledGood, GrantGood, CampaignGood, WaitDeletesGood, ProclaimGood,
       WatchGood, WatchCreatedGood, MonitorFailsGood, LoseGenerationGood, PublishGood, EndCampaignGood, ResignBeginGood,
       ShutdownGood, WaitForMonitorGood, ResignGood, RevokeGood, GetGood, Zenon DEF Etcd!Step
  <1>2. ASSUME NEW f \in Electors \ {e} PROVE Life(f)'
    <2>1. /\ el'[f] = el[f] /\ pc'[f] = pc[f] /\ rpc'[f] = rpc[f] /\ monitor'[f] = monitor[f]
          /\ Etcd!HasKey(f)' <=> Etcd!HasKey(f)
          /\ Etcd!First(f) => Etcd!First(f)'
          /\ f \in deleted => f \in deleted'
      BY <1>1, <1>2, SMT DEF Good, OthersKeep, Etcd!First
    <2>2. Life(f) /\ (Watched(f) => Watched(f)')
      BY <2>1, Zenon DEF EtcdInv, Watched
    <2> QED BY <2>1, <2>2, Zenon DEF Life
  <1> QED BY <1>1, <1>2, Zenon DEF Good, EtcdInv

LEMMA EtcdInductive ==
  ASSUME CampaignsAssumption
  PROVE  Etcd!Spec => []EtcdInv
  <1>1. Etcd!Init => EtcdInv
    <2> SUFFICES ASSUME Etcd!Init PROVE EtcdInv
      BY Zenon
    <2>1. Etcd!TypeOK
      BY DEF Etcd!Init, Etcd!TypeOK, CampaignsAssumption
    <2>2. Ordered /\ \A e \in Electors : Life(e)
      BY DEF Etcd!Init, Ordered, Life, Etcd!HasKey
    <2> QED BY <2>1, <2>2, Zenon DEF EtcdInv
  <1>2. EtcdInv /\ [Etcd!Next]_(Etcd!vars) => EtcdInv'
    <2> SUFFICES ASSUME EtcdInv, [Etcd!Next]_(Etcd!vars) PROVE EtcdInv'
      BY Zenon
    <2>1. CASE UNCHANGED Etcd!vars
      BY <2>1, Zenon DEF EtcdInv, Etcd!TypeOK, Ordered, Life, Watched, Etcd!HasKey, Etcd!First, Etcd!vars
    <2>2. CASE Etcd!Next
      BY <2>2, StepEtcd, Zenon DEF Etcd!Next
    <2> QED BY <2>1, <2>2, Zenon
  <1> QED BY <1>1, <1>2, PTL DEF Etcd!Spec

\* For any electors: IsLeader of leader/etcd is true only while the monitor of the generation runs, the key is the
\* oldest one, or its deletion is an event of the watch that began at the proclamation.
THEOREM LossAlwaysSeen ==
  ASSUME CampaignsAssumption
  PROVE  Etcd!Spec => []Etcd!LossIsSeen
  <1>1. EtcdInv => Etcd!LossIsSeen
    BY Zenon DEF EtcdInv, Life, Watched, Etcd!LossIsSeen
  <1> QED BY <1>1, EtcdInductive, PTL

\* So at most one elector of leader/etcd that believes it leads has a key.
THEOREM OneKeyLeads ==
  ASSUME CampaignsAssumption
  PROVE  Etcd!Spec => [](\A e, f \in Electors :
           el[e].published /\ el[f].published /\ Etcd!HasKey(e) /\ Etcd!HasKey(f) => e = f)
  <1>1. EtcdInv => \A e, f \in Electors : el[e].published /\ el[f].published /\ Etcd!HasKey(e) /\ Etcd!HasKey(f) => e = f
    BY Zenon DEF EtcdInv, Life, Watched, Etcd!HasKey, Etcd!First, Ordered
  <1> QED BY <1>1, EtcdInductive, PTL

\* A key of leader/etcd belongs to a current generation, whichever revocations, deletions and reads failed: Campaign
\* refuses to begin another one until the key is proved gone (cleanupFailedGeneration).
THEOREM GenerationRemembered ==
  ASSUME CampaignsAssumption
  PROVE  Etcd!Spec => []Etcd!KeyNotForgotten
  <1>1. EtcdInv => Etcd!KeyNotForgotten
    BY Zenon DEF EtcdInv, Life, Etcd!KeyNotForgotten
  <1> QED BY <1>1, EtcdInductive, PTL

\* The keys, the leases and the fields of the electors of leader/etcd keep their types.
THEOREM EtcdTypeCorrect ==
  ASSUME CampaignsAssumption
  PROVE  Etcd!Spec => []Etcd!TypeOK
  <1>1. EtcdInv => Etcd!TypeOK
    BY Zenon DEF EtcdInv
  <1> QED BY <1>1, EtcdInductive, PTL

=============================================================================

-------------------------- MODULE RedisLeaderProofs --------------------------
(***************************************************************************)
(* What the Elector of leader/redis promises, proved for any electors and   *)
(* callers, lease and bounds.  The life of an elector (Lives, Calls, Alone) *)
(* is the same whatever goroutines share it; what it knows of its key       *)
(* (Backs, Knows) needs that one goroutine at a time uses it (OneCaller).   *)
(* Then the candidates of the strategic electors, for any nodes.            *)
(***************************************************************************)
EXTENDS RedisLeader, TLAPS

\* What the constants must be: no elector has the token of a missing key.
RedisAssumption ==
  /\ NoOwner \notin Electors /\ Uses \in [Callers -> Electors]
  /\ Lease \in Nat /\ MaxNow \in Nat /\ MaxGeneration \in Nat

\* No two goroutines share an elector.
OneCaller == \A c, d \in Callers : Uses[c] = Uses[d] => c = d

Loops == {"none", "waiting", "renewing", "lost", "unknown", "done"}
Trying == Campaigning \ {"ending"}
Labels == {"idle"} \cup Campaigning \cup Resigning

-----------------------------------------------------------------------------
(* The inductive invariant. *)

\* No renewal loop of e runs.
Quiet(e) == \A g \in Generations : loop[e][g] \in {"none", "done"}

\* The loops of the earlier generations are done and those of the later ones not started; the current one is
\* done, or e.done and e.cancel are its own and the elector owns the key or refuses campaigns until a cleanup.
Lives(e) ==
  /\ handle[e] \in {0, generation[e]}
  /\ \A g \in Generations :
       /\ g < generation[e] => loop[e][g] = "done"
       /\ g > generation[e] => loop[e][g] = "none" /\ g \notin cancelled[e]
       /\ g = generation[e] =>
            loop[e][g] # "none" /\ (loop[e][g] # "done" => handle[e] = g /\ (owned[e] \/ cleanup[e]))
  /\ owned[e] =>
       generation[e] \in Generations /\ generation[e] \notin cancelled[e] /\ loop[e][generation[e]] # "done"

\* A campaign has claimed its elector, which neither owns nor has to clean up anything; Resign has read a
\* generation that is over, and has waited for its loop once it releases the key.
Calls(c) ==
  /\ pc[c] \in Campaigning => campaigning[Uses[c]]
  /\ pc[c] \in Trying =>
       ~owned[Uses[c]] /\ ~cleanup[Uses[c]] /\ generation[Uses[c]] < MaxGeneration /\ Quiet(Uses[c])
  /\ pc[c] \in Resigning =>
       /\ callGeneration[c] <= generation[Uses[c]] /\ callDone[c] \in {0, callGeneration[c]}
       /\ callGeneration[c] = generation[Uses[c]] =>
            ~owned[Uses[c]] /\ (pc[c] # "join" \/ callDone[c] = 0 => Quiet(Uses[c]))

\* One campaign of an elector runs at a time.
Alone ==
  \A c, d \in Callers : pc[c] \in Campaigning /\ pc[d] \in Campaigning /\ Uses[c] = Uses[d] => c = d

\* The types of the server, whose key expires within a lease, of the fields of the electors with their loops, and
\* of the calls.
Keys == [owner : Electors \cup {NoOwner}, until : Nat]
ServerTypes ==
  now \in 0..MaxNow /\ key \in Keys /\ key.until <= now + Lease /\ granted \in [Electors -> Nat]
FieldTypes ==
  /\ owned \in [Electors -> BOOLEAN] /\ campaigning \in [Electors -> BOOLEAN] /\ cleanup \in [Electors -> BOOLEAN]
  /\ generation \in [Electors -> 0..MaxGeneration] /\ handle \in [Electors -> 0..MaxGeneration]
LoopTypes == loop \in [Electors -> [Generations -> Loops]] /\ cancelled \in [Electors -> SUBSET Generations]
CallTypes ==
  /\ pc \in [Callers -> Labels]
  /\ callGeneration \in [Callers -> 0..MaxGeneration] /\ callDone \in [Callers -> 0..MaxGeneration]

LifeInv ==
  /\ FieldTypes /\ LoopTypes /\ CallTypes
  /\ (\A e \in Electors : Lives(e)) /\ (\A c \in Callers : Calls(c)) /\ Alone

\* The key holds the token of e at least as long as the lease e was told of.
Backs(e) == now < granted[e] => key.owner = e /\ key.until >= granted[e]

\* What elector e knows of the key: the lease it was told of backs its leadership, a loop that lost the key
\* has lost it, and a key that is its own is not forgotten.
Knows(e) ==
  /\ granted[e] <= now + Lease
  /\ owned[e] => Backs(e)
  /\ \A g \in Generations : loop[e][g] = "lost" => ~Holds(e)
  /\ Holds(e) => owned[e] \/ campaigning[e] \/ cleanup[e]

\* What caller c knows of the key: a new attempt and a finished Resign find that it is not their own, the winner
\* of an attempt is backed, and a campaign that ends leaves the key to its owner or to a cleanup.
Sees(c) ==
  /\ pc[c] \in {"acquire", "backoff", "finish"} => ~Holds(Uses[c])
  /\ pc[c] = "won" => Backs(Uses[c])
  /\ pc[c] = "ending" /\ Holds(Uses[c]) => owned[Uses[c]] \/ cleanup[Uses[c]]
  /\ pc[c] \in Resigning => ~owned[Uses[c]] /\ callGeneration[c] = generation[Uses[c]]

KeyInv == (\A e \in Electors : Knows(e)) /\ (\A c \in Callers : Sees(c))


-----------------------------------------------------------------------------
(* The life of an elector. *)

\* What a step of elector e leaves alone: the other electors.
OthersKeep(e) ==
  \A f \in Electors \ {e} :
    /\ owned'[f] = owned[f] /\ campaigning'[f] = campaigning[f] /\ cleanup'[f] = cleanup[f]
    /\ generation'[f] = generation[f] /\ handle'[f] = handle[f]
    /\ loop'[f] = loop[f] /\ cancelled'[f] = cancelled[f]

SameCall(d) == pc'[d] = pc[d] /\ callGeneration'[d] = callGeneration[d] /\ callDone'[d] = callDone[d]

\* The step of an elector disturbs neither the life of another elector ...
LEMMA OtherLives ==
  ASSUME NEW e, OthersKeep(e), NEW f \in Electors \ {e}, Lives(f)
  PROVE  Lives(f)'
  BY Zenon DEF OthersKeep, Lives

\* ... nor the calls of another elector.
LEMMA OtherCalls ==
  ASSUME NEW e, OthersKeep(e), NEW d \in Callers, Uses[d] \in Electors \ {e}, Calls(d), SameCall(d)
  PROVE  Calls(d)'
  BY Zenon DEF OthersKeep, Calls, Quiet, SameCall

\* A step that leaves the generation, its loop and its handle alone keeps the life of the electors.
LEMMA KeptLives ==
  ASSUME UNCHANGED <<owned, generation, handle, loop, cancelled>>, NEW e, cleanup[e] => cleanup'[e], Lives(e)
  PROVE  Lives(e)'
  <1>1. owned' = owned /\ generation' = generation /\ handle' = handle /\ loop' = loop /\ cancelled' = cancelled
    OBVIOUS
  <1> QED BY <1>1, Zenon DEF Lives

\* One campaign of an elector runs at a time if no other one runs when it begins.
LEMMA StaysAlone ==
  ASSUME CallTypes, Alone, NEW c \in Callers, NEW l, pc' = [pc EXCEPT ![c] = l],
         \/ l \notin Campaigning
         \/ pc[c] \in Campaigning
         \/ \A d \in Callers : Uses[d] = Uses[c] => pc[d] \notin Campaigning
  PROVE  Alone'
  <1>1. \A d \in Callers : pc'[d] = IF d = c THEN l ELSE pc[d]
    BY DEF CallTypes
  <1> QED BY <1>1, ZenonT(40) DEF Alone

\* The invariant holds initially.
LEMMA InitLife ==
  ASSUME RedisAssumption, Init
  PROVE  LifeInv
  <1>1. FieldTypes /\ LoopTypes /\ CallTypes
    BY DEF Init, FieldTypes, LoopTypes, CallTypes, RedisAssumption, Loops, Labels
  <1>2. ASSUME NEW e \in Electors PROVE Lives(e)
    <2>1. /\ handle[e] = 0 /\ generation[e] = 0 /\ owned[e] = FALSE /\ cancelled[e] = {}
          /\ \A g \in Generations : loop[e][g] = "none"
      BY DEF Init
    <2>2. \A g \in Generations : g > 0
      BY DEF Generations, RedisAssumption
    <2>3. \A g \in Generations : ~(g < 0) /\ g # 0
      BY <2>2 DEF Generations, RedisAssumption
    <2> QED BY <2>1, <2>3, Zenon DEF Lives
  <1>3. \A c \in Callers : Calls(c)
    BY DEF Init, Calls, Campaigning, Trying, Resigning
  <1>4. Alone
    BY DEF Init, Alone, Campaigning
  <1> QED BY <1>1, <1>2, <1>3, <1>4 DEF LifeInv

\* The steps that only move a call: an attempt of Campaign, its answer and the wait, and those of Resign once
\* the loop is done.
Moves(c, l) ==
  /\ \/ pc[c] \in Trying /\ l \in Campaigning
     \/ pc[c] = "join" /\ l = "release" /\ (callDone[c] # 0 => loop[Uses[c]][callDone[c]] = "done")
     \/ pc[c] = "release" /\ l = "finish"
  /\ pc' = [pc EXCEPT ![c] = l]
  /\ UNCHANGED <<elector, loop, cancelled, locals>>

LEMMA MovesLife ==
  ASSUME RedisAssumption, LifeInv, NEW c \in Callers, NEW l, Moves(c, l)
  PROVE  LifeInv'
  <1>1. Uses[c] \in Electors /\ UNCHANGED <<elector, loop, cancelled, locals>>
    BY DEF RedisAssumption, Moves
  <1>2. l \in Labels /\ pc[c] \in Trying \cup Resigning
    BY Zenon DEF Moves, Labels, Campaigning, Resigning, Trying
  <1>3. FieldTypes' /\ LoopTypes' /\ CallTypes'
    BY <1>1, <1>2 DEF LifeInv, Moves, FieldTypes, LoopTypes, CallTypes, elector, locals
  <1>4. \A e \in Electors : Lives(e)'
    BY <1>1, KeptLives DEF LifeInv, elector
  <1>5. \A d \in Callers : pc'[d] = IF d = c THEN l ELSE pc[d]
    BY DEF LifeInv, CallTypes, Moves
  <1>6. ASSUME NEW d \in Callers PROVE Calls(d)'
    <2>0. Calls(d) /\ Calls(c)
      BY Zenon DEF LifeInv
    <2>1. CASE d # c
      BY <1>1, <1>5, <2>0, <2>1, Zenon DEF Calls, Quiet, elector, locals
    <2>2. CASE d = c /\ pc[c] \in Trying /\ l \in Campaigning
      BY <1>1, <1>5, <2>0, <2>2, Zenon DEF Calls, Quiet, elector, Campaigning, Trying, Resigning
    <2>3. CASE d = c /\ pc[c] = "join" /\ l = "release" /\ (callDone[c] # 0 => loop[Uses[c]][callDone[c]] = "done")
      <3>1. ASSUME callGeneration[c] = generation[Uses[c]] PROVE Quiet(Uses[c])
        <4>1. CASE callDone[c] = 0
          BY <2>0, <2>3, <3>1, <4>1, Zenon DEF Calls, Resigning
        <4>2. CASE callDone[c] # 0
          <5>1. callDone[c] = generation[Uses[c]] /\ loop[Uses[c]][generation[Uses[c]]] = "done"
            BY <2>0, <2>3, <3>1, <4>2, Zenon DEF Calls, Resigning
          <5>2. ASSUME NEW g \in Generations PROVE loop[Uses[c]][g] \in {"none", "done"}
            <6>1. Lives(Uses[c]) /\ generation[Uses[c]] \in Int /\ g \in Int
              BY <1>1 DEF LifeInv, FieldTypes, Generations, RedisAssumption
            <6> QED BY <5>1, <6>1 DEF Lives
          <5> QED BY <5>2 DEF Quiet
        <4> QED BY <4>1, <4>2
      <3> QED BY <1>1, <1>5, <2>0, <2>3, <3>1, Zenon DEF Calls, Quiet, elector, locals, Campaigning, Trying, Resigning
    <2>4. CASE d = c /\ pc[c] = "release" /\ l = "finish"
      BY <1>1, <1>5, <2>0, <2>4, Zenon DEF Calls, Quiet, elector, locals, Campaigning, Trying, Resigning
    <2> QED BY <2>1, <2>2, <2>3, <2>4 DEF Moves
  <1>7. Alone'
    <2>1. l \notin Campaigning \/ pc[c] \in Campaigning
      BY Zenon DEF Moves, Campaigning, Trying
    <2> QED BY <2>1, StaysAlone, Zenon DEF LifeInv, Moves
  <1> QED BY <1>3, <1>4, <1>6, <1>7, Zenon DEF LifeInv

\* beginCampaign claims an elector that has nothing to clean up: its loops are done.
LEMMA BeginsLife ==
  ASSUME RedisAssumption, LifeInv, NEW c \in Callers, beginCampaign(c)
  PROVE  LifeInv'
  <1> DEFINE e == Uses[c]
  <1>1. /\ e \in Electors /\ Lives(e) /\ pc[c] = "idle" /\ ~cleanup[e] /\ ~owned[e] /\ ~campaigning[e]
        /\ generation[e] < MaxGeneration /\ generation[e] \in Int
    BY DEF RedisAssumption, LifeInv, beginCampaign, FieldTypes
  <1>2. UNCHANGED <<owned, cleanup, generation, handle, loop, cancelled, callGeneration, callDone>>
    BY DEF beginCampaign, locals
  <1>3. \A f \in Electors : campaigning'[f] = IF f = e THEN TRUE ELSE campaigning[f]
    BY DEF LifeInv, FieldTypes, beginCampaign
  <1>4. \A d \in Callers : pc'[d] = IF d = c THEN "acquire" ELSE pc[d]
    BY DEF LifeInv, CallTypes, beginCampaign, Goto
  <1>5. FieldTypes' /\ LoopTypes' /\ CallTypes'
    BY <1>2, Zenon DEF LifeInv, beginCampaign, Goto, FieldTypes, LoopTypes, CallTypes, Labels, Campaigning
  <1>6. \A f \in Electors : Lives(f)'
    BY <1>2, KeptLives DEF LifeInv
  <1>7. Quiet(e)
    <2> SUFFICES ASSUME NEW g \in Generations PROVE loop[e][g] \in {"none", "done"}
      BY DEF Quiet
    <2>1. g \in Int
      BY DEF Generations
    <2> QED BY <1>1, <2>1 DEF Lives
  <1>8. ASSUME NEW d \in Callers PROVE Calls(d)'
    <2>0. Calls(d) /\ Uses[d] \in Electors
      BY DEF LifeInv, RedisAssumption
    <2>1. CASE d = c
      BY <1>1, <1>2, <1>3, <1>4, <1>7, <2>1, Zenon DEF Calls, Quiet, Campaigning, Trying, Resigning
    <2>2. CASE d # c
      BY <1>2, <1>3, <1>4, <2>0, <2>2, Zenon DEF Calls, Quiet
    <2> QED BY <2>1, <2>2
  <1>9. Alone'
    <2>1. \A d \in Callers : Uses[d] = Uses[c] => pc[d] \notin Campaigning
      BY <1>1, Zenon DEF LifeInv, Calls
    <2> QED BY <2>1, StaysAlone, Zenon DEF LifeInv, beginCampaign, Goto
  <1> QED BY <1>5, <1>6, <1>8, <1>9, Zenon DEF LifeInv

\* An outcome that could not be read leaves a cleanup to Resign.
LEMMA ProbeLife ==
  ASSUME RedisAssumption, LifeInv, NEW c \in Callers, ProbeFails(c)
  PROVE  LifeInv'
  <1> DEFINE e == Uses[c]
  <1>1. e \in Electors /\ Lives(e) /\ Calls(c) /\ pc[c] = "reconcile" /\ ~owned[e] /\ campaigning[e] /\ Quiet(e)
    BY DEF RedisAssumption, LifeInv, ProbeFails, Calls, Campaigning, Trying
  <1>2. UNCHANGED <<owned, campaigning, generation, handle, loop, cancelled, callGeneration, callDone>>
    BY DEF ProbeFails, locals
  <1>3. \A f \in Electors : cleanup'[f] = IF f = e THEN TRUE ELSE cleanup[f]
    BY DEF LifeInv, FieldTypes, ProbeFails
  <1>4. \A d \in Callers : pc'[d] = IF d = c THEN "ending" ELSE pc[d]
    BY DEF LifeInv, CallTypes, ProbeFails, Goto
  <1>5. FieldTypes' /\ LoopTypes' /\ CallTypes'
    BY <1>2, Zenon DEF LifeInv, ProbeFails, Goto, FieldTypes, LoopTypes, CallTypes, Labels, Campaigning
  <1>6. \A f \in Electors : Lives(f)'
    BY <1>2, <1>3, KeptLives, Zenon DEF LifeInv
  <1>8. ASSUME NEW d \in Callers PROVE Calls(d)'
    <2>0. Calls(d) /\ Uses[d] \in Electors
      BY DEF LifeInv, RedisAssumption
    <2>1. CASE d = c
      BY <1>1, <1>2, <1>3, <1>4, <2>1, Zenon DEF Calls, Campaigning, Trying, Resigning
    <2>2. CASE d # c
      <3>1. pc[d] \in Trying => Uses[d] # e
        BY <1>1, <2>2, Zenon DEF LifeInv, Alone, Campaigning, Trying
      <3> QED BY <1>2, <1>3, <1>4, <2>0, <2>2, <3>1, Zenon DEF Calls, Quiet
    <2> QED BY <2>1, <2>2
  <1>9. Alone'
    <2>1. pc[c] \in Campaigning
      BY <1>1 DEF Campaigning
    <2> QED BY <2>1, StaysAlone, Zenon DEF LifeInv, ProbeFails, Goto
  <1> QED BY <1>5, <1>6, <1>8, <1>9, Zenon DEF LifeInv

\* startRenewal starts the loop of a new generation.
LEMMA StartsLife ==
  ASSUME RedisAssumption, LifeInv, NEW c \in Callers, startRenewal(c)
  PROVE  LifeInv'
  <1> DEFINE e == Uses[c]
             n == generation[e] + 1
  <1>1. /\ e \in Electors /\ Lives(e) /\ Calls(c) /\ pc[c] = "won" /\ campaigning[e] /\ Quiet(e)
           /\ generation[e] < MaxGeneration
        /\ generation[e] \in Nat
    BY DEF RedisAssumption, LifeInv, startRenewal, Calls, Campaigning, Trying, FieldTypes
  <1>2. UNCHANGED <<campaigning, cancelled, callGeneration, callDone>>
    BY DEF startRenewal, locals
  <1>n. n \in Generations /\ n \in 0..MaxGeneration
    BY <1>1 DEF Generations, RedisAssumption
  <1>3. /\ owned' = [owned EXCEPT ![e] = TRUE] /\ cleanup' = [cleanup EXCEPT ![e] = FALSE]
        /\ generation' = [generation EXCEPT ![e] = n] /\ handle' = [handle EXCEPT ![e] = n]
        /\ loop' = [loop EXCEPT ![e][n] = "waiting"] /\ pc' = [pc EXCEPT ![c] = "ending"]
    BY Zenon DEF startRenewal, Goto
  <1> HIDE DEF n
  <1>4. \A d \in Callers : pc'[d] = IF d = c THEN "ending" ELSE pc[d]
    BY <1>3 DEF LifeInv, CallTypes
  <1>5. FieldTypes' /\ LoopTypes' /\ CallTypes'
    <2>1. loop' \in [Electors -> [Generations -> Loops]]
      BY <1>1, <1>3, <1>n DEF LifeInv, LoopTypes, Loops
    <2> QED BY <1>2, <1>3, <1>n, <2>1 DEF LifeInv, FieldTypes, LoopTypes, CallTypes, Labels, Campaigning
  <1>6. OthersKeep(e)
    BY <1>2, <1>3, Zenon DEF OthersKeep, LifeInv, FieldTypes, LoopTypes
  <1>7. /\ owned'[e] = TRUE /\ cleanup'[e] = FALSE /\ generation'[e] = n /\ handle'[e] = n /\ cancelled'[e] = cancelled[e]
        /\ \A g \in Generations : loop'[e][g] = IF g = n THEN "waiting" ELSE loop[e][g]
    BY <1>1, <1>2, <1>3, <1>n DEF LifeInv, FieldTypes, LoopTypes
  <1>8. Lives(e)'
    <2>1. n > generation[e] /\ \A g \in Generations : g \in Int /\ (g < n => g <= generation[e]) /\ (g > n
          => g > generation[e])
      BY <1>1 DEF n, Generations
    <2>2. \A g \in Generations : g < n => loop[e][g] = "done"
      BY <1>1, <2>1 DEF Lives, Quiet
    <2>3. n \notin cancelled[e] /\ \A g \in Generations : g > n => loop[e][g] = "none" /\ g \notin cancelled[e]
      BY <1>1, <1>n, <2>1 DEF Lives
    <2> QED BY <1>7, <1>n, <2>1, <2>2, <2>3 DEF Lives
  <1>9. \A f \in Electors : Lives(f)'
    BY <1>6, <1>8, OtherLives DEF LifeInv
  <1>10. ASSUME NEW d \in Callers PROVE Calls(d)'
    <2>0. Calls(d) /\ Uses[d] \in Electors
      BY DEF LifeInv, RedisAssumption
    <2>1. CASE d = c
      BY <1>1, <1>2, <1>4, <2>1, Zenon DEF Calls, Campaigning, Trying, Resigning
    <2>2. CASE d # c /\ Uses[d] # e
      BY <1>2, <1>4, <1>6, <2>0, <2>2, OtherCalls DEF SameCall
    <2>3. CASE d # c /\ Uses[d] = e
      <3>1. pc[d] \notin Campaigning /\ pc[d] \notin Trying
        BY <1>1, <2>3, Zenon DEF LifeInv, Alone, Campaigning, Trying
      <3>2. pc[d] \in Resigning => callGeneration[d] < n
        <4>1. callGeneration[d] \in Int
          BY DEF LifeInv, CallTypes
        <4> QED BY <1>1, <2>0, <2>3, <4>1 DEF Calls, n
      <3>3. callGeneration[d] \in Int /\ n \in Int
        BY <1>n DEF LifeInv, CallTypes
      <3>4. pc[d] \in Resigning => callGeneration[d] <= n /\ callGeneration[d] # n
        BY <3>2, <3>3
      <3> QED BY <1>2, <1>4, <1>7, <2>0, <2>3, <3>1, <3>4, ZenonT(40) DEF Calls
    <2> QED BY <2>1, <2>2, <2>3
  <1>11. Alone'
    <2>1. pc[c] \in Campaigning
      BY <1>1 DEF Campaigning
    <2> QED BY <1>3, <2>1, StaysAlone, Zenon DEF LifeInv
  <1> QED BY <1>5, <1>9, <1>10, <1>11, Zenon DEF LifeInv

\* endCampaign gives up the claim.
LEMMA EndsLife ==
  ASSUME RedisAssumption, LifeInv, NEW c \in Callers, endCampaign(c)
  PROVE  LifeInv'
  <1> DEFINE e == Uses[c]
  <1>1. e \in Electors /\ pc[c] = "ending"
    BY DEF RedisAssumption, endCampaign
  <1>2. UNCHANGED <<owned, cleanup, generation, handle, loop, cancelled, callGeneration, callDone>>
    BY DEF endCampaign, locals
  <1>3. \A f \in Electors : campaigning'[f] = IF f = e THEN FALSE ELSE campaigning[f]
    BY DEF LifeInv, FieldTypes, endCampaign
  <1>4. \A d \in Callers : pc'[d] = IF d = c THEN "idle" ELSE pc[d]
    BY DEF LifeInv, CallTypes, endCampaign, Goto
  <1>5. FieldTypes' /\ LoopTypes' /\ CallTypes'
    BY <1>2, Zenon DEF LifeInv, endCampaign, Goto, FieldTypes, LoopTypes, CallTypes, Labels
  <1>6. \A f \in Electors : Lives(f)'
    BY <1>2, KeptLives DEF LifeInv
  <1>7. ASSUME NEW d \in Callers PROVE Calls(d)'
    <2>0. Calls(d) /\ Uses[d] \in Electors
      BY DEF LifeInv, RedisAssumption
    <2>1. CASE d = c
      BY <1>4, <2>1, Zenon DEF Calls, Campaigning, Trying, Resigning
    <2>2. CASE d # c
      <3>1. pc[d] \in Campaigning => Uses[d] # e
        BY <1>1, <2>2, Zenon DEF LifeInv, Alone, Campaigning
      <3> QED BY <1>2, <1>3, <1>4, <2>0, <2>2, <3>1, Zenon DEF Calls, Quiet
    <2> QED BY <2>1, <2>2
  <1>8. Alone'
    <2>1. "idle" \notin Campaigning
      BY DEF Campaigning
    <2> QED BY <2>1, StaysAlone, Zenon DEF LifeInv, endCampaign, Goto
  <1> QED BY <1>5, <1>6, <1>7, <1>8, Zenon DEF LifeInv

\* Resign gives up the ownership and cancels the loop whose handle it reads.
LEMMA ResignsLife ==
  ASSUME RedisAssumption, LifeInv, NEW c \in Callers, Resign(c)
  PROVE  LifeInv'
  <1> DEFINE e == Uses[c]
  <1>1. /\ e \in Electors /\ Lives(e) /\ pc[c] = "idle" /\ (owned[e] \/ cleanup[e])
        /\ generation[e] \in 0..MaxGeneration /\ handle[e] \in 0..MaxGeneration
    BY DEF RedisAssumption, Resign, LifeInv, FieldTypes
  <1>2. UNCHANGED <<campaigning, generation, handle, loop>>
    BY DEF Resign
  <1>3. /\ owned' = [owned EXCEPT ![e] = FALSE] /\ cleanup' = [cleanup EXCEPT ![e] = TRUE]
        /\ callGeneration' = [callGeneration EXCEPT ![c] = generation[e]]
        /\ callDone' = [callDone EXCEPT ![c] = handle[e]]
        /\ cancelled' = [cancelled EXCEPT ![e] = @ \cup ({handle[e]} \cap Generations)]
        /\ pc' = [pc EXCEPT ![c] = "join"]
    BY Zenon DEF Resign, Goto
  <1>4. \A d \in Callers :
          /\ pc'[d] = IF d = c THEN "join" ELSE pc[d]
          /\ callGeneration'[d] = IF d = c THEN generation[e] ELSE callGeneration[d]
          /\ callDone'[d] = IF d = c THEN handle[e] ELSE callDone[d]
    BY <1>3 DEF LifeInv, CallTypes
  <1>5. FieldTypes' /\ LoopTypes' /\ CallTypes'
    BY <1>1, <1>2, <1>3 DEF LifeInv, FieldTypes, LoopTypes, CallTypes, Labels, Resigning
  <1>6. OthersKeep(e)
    BY <1>2, <1>3, Zenon DEF OthersKeep, LifeInv, FieldTypes, LoopTypes
  <1>7. /\ owned'[e] = FALSE /\ cleanup'[e] = TRUE /\ generation'[e] = generation[e] /\ handle'[e] = handle[e]
           /\ loop'[e] = loop[e]
        /\ \A g \in Generations : g \in cancelled'[e] => g \in cancelled[e] \/ g = handle[e]
    BY <1>1, <1>2, <1>3 DEF LifeInv, FieldTypes, LoopTypes
  <1>8. Lives(e)'
    <2>1. \A g \in Generations : g > generation[e] => g # handle[e]
      BY <1>1 DEF Lives, Generations
    <2> QED BY <1>1, <1>7, <2>1, Zenon DEF Lives
  <1>9. \A f \in Electors : Lives(f)'
    BY <1>6, <1>8, OtherLives DEF LifeInv
  <1>10. ASSUME NEW d \in Callers PROVE Calls(d)'
    <2>0. Calls(d) /\ Uses[d] \in Electors
      BY DEF LifeInv, RedisAssumption
    <2>1. CASE d = c
      <3>1. handle[e] = 0 => Quiet(e)
        <4> SUFFICES ASSUME handle[e] = 0, NEW g \in Generations PROVE loop[e][g] \in {"none", "done"}
          BY DEF Quiet
        <4>1. g \in Int /\ g # 0
          BY DEF Generations
        <4> QED BY <1>1, <4>1 DEF Lives
      <3>2. generation[e] <= generation[e] /\ handle[e] \in {0, generation[e]}
        BY <1>1 DEF Lives
      <3> QED BY <1>4, <1>7, <2>1, <3>1, <3>2, Zenon DEF Calls, Quiet, Campaigning, Trying, Resigning
    <2>2. CASE d # c /\ Uses[d] # e
      BY <1>4, <1>6, <2>0, <2>2, OtherCalls DEF SameCall
    <2>3. CASE d # c /\ Uses[d] = e
      <3>1. pc[d] \notin Trying
        BY <1>1, <2>0, <2>3, Zenon DEF Calls
      <3> QED BY <1>2, <1>4, <1>7, <2>0, <2>3, <3>1, Zenon DEF Calls, Quiet
    <2> QED BY <2>1, <2>2, <2>3
  <1>11. Alone'
    <2>1. "join" \notin Campaigning
      BY DEF Campaigning
    <2> QED BY <1>3, <2>1, StaysAlone, Zenon DEF LifeInv
  <1> QED BY <1>5, <1>9, <1>10, <1>11, Zenon DEF LifeInv

\* Resign returns, with the cleanup pending (JoinTimeout, releaseUnknown) or done (Finish).
LEMMA ReturnsLife ==
  ASSUME RedisAssumption, LifeInv, NEW c \in Callers, JoinTimeout(c) \/ releaseUnknown(c) \/ Finish(c)
  PROVE  LifeInv'
  <1> DEFINE e == Uses[c]
  <1>1. /\ e \in Electors /\ Lives(e) /\ Calls(c) /\ pc[c] \in Resigning
        /\ UNCHANGED <<owned, campaigning, generation, loop, cancelled>> /\ Return(c)
    BY DEF RedisAssumption, LifeInv, JoinTimeout, releaseUnknown, Finish, Resigning, elector
  <1>2. \/ UNCHANGED <<cleanup, handle>>
        \/ /\ Quiet(e) /\ ~owned[e]
           /\ cleanup' = [cleanup EXCEPT ![e] = FALSE] /\ handle' = [handle EXCEPT ![e] = 0]
    BY <1>1, Zenon DEF JoinTimeout, releaseUnknown, Finish, elector, Calls, Resigning
  <1>3. \A d \in Callers :
          /\ pc'[d] = IF d = c THEN "idle" ELSE pc[d]
          /\ d # c => callGeneration'[d] = callGeneration[d] /\ callDone'[d] = callDone[d]
    BY <1>1 DEF LifeInv, CallTypes, Return, Goto
  <1>4. CallTypes'
    BY <1>1 DEF LifeInv, CallTypes, Return, Goto, Labels, RedisAssumption
  <1>5. FieldTypes' /\ LoopTypes'
    <2>1. cleanup' \in [Electors -> BOOLEAN]
      BY <1>1, <1>2, Zenon DEF LifeInv, FieldTypes
    <2>2. handle' \in [Electors -> 0..MaxGeneration]
      <3>1. 0 \in 0..MaxGeneration /\ handle \in [Electors -> 0..MaxGeneration]
        BY DEF LifeInv, FieldTypes, RedisAssumption
      <3> QED BY <1>1, <1>2, <3>1, Zenon
    <2> QED BY <1>1, <2>1, <2>2, Zenon DEF LifeInv, FieldTypes, LoopTypes
  <1>6. OthersKeep(e)
    BY <1>1, <1>2 DEF OthersKeep, LifeInv, FieldTypes
  <1>7. Lives(e)'
    <2>1. CASE UNCHANGED <<cleanup, handle>>
      BY <1>1, <2>1, KeptLives
    <2>2. CASE Quiet(e) /\ ~owned[e] /\ handle' = [handle EXCEPT ![e] = 0]
      <3>1. handle'[e] = 0
        BY <1>1, <2>2 DEF LifeInv, FieldTypes
      <3>2. \A g \in Generations : g = generation[e] => loop[e][g] = "done"
        BY <1>1, <2>2, Zenon DEF Lives, Quiet
      <3> QED BY <1>1, <2>2, <3>1, <3>2, Zenon DEF Lives
    <2> QED BY <1>2, <2>1, <2>2
  <1>8. \A f \in Electors : Lives(f)'
    BY <1>6, <1>7, OtherLives DEF LifeInv
  <1>9. \A f \in Electors : cleanup'[f] => cleanup[f]
    BY <1>1, <1>2 DEF LifeInv, FieldTypes
  <1>10. ASSUME NEW d \in Callers PROVE Calls(d)'
    <2>0. Calls(d) /\ Uses[d] \in Electors
      BY DEF LifeInv, RedisAssumption
    <2>1. CASE d = c
      BY <1>3, <2>1, Zenon DEF Calls, Campaigning, Trying, Resigning
    <2>2. CASE d # c
      BY <1>1, <1>3, <1>9, <2>0, <2>2, Zenon DEF Calls, Quiet
    <2> QED BY <2>1, <2>2
  <1>11. Alone'
    <2>1. "idle" \notin Campaigning
      BY DEF Campaigning
    <2> QED BY <1>1, <2>1, StaysAlone, Zenon DEF LifeInv, Return, Goto
  <1> QED BY <1>4, <1>5, <1>8, <1>10, <1>11, Zenon DEF LifeInv

\* The loop of generation g ticks, renews, fails, or stops because it was cancelled.
LEMMA LoopsLife ==
  ASSUME RedisAssumption, LifeInv, NEW e \in Electors, NEW g \in Generations,
         LoopStop(e, g) \/ RenewTick(e, g) \/ renew(e, g) \/ renewUnknown(e, g)
  PROVE  LifeInv'
  <1>1. /\ loop[e][g] \in {"waiting", "renewing"} /\ UNCHANGED <<elector, cancelled, pc, locals>>
        /\ Lives(e) /\ generation[e] \in Int /\ g \in Int
    BY DEF LifeInv, FieldTypes, LoopStop, RenewTick, renew, renewUnknown, Generations
  <1>2. PICK s \in Loops \ {"none"} : loop' = [loop EXCEPT ![e][g] = s] /\ (s = "done" => g \in cancelled[e])
    <2>1. \/ (g \in cancelled[e] /\ loop' = [loop EXCEPT ![e][g] = "done"])
          \/ \E s \in {"waiting", "renewing", "lost", "unknown"} : loop' = [loop EXCEPT ![e][g] = s]
      BY Zenon DEF LoopStop, RenewTick, renew, renewUnknown, SetLoop
    <2> QED BY <2>1, Zenon DEF Loops
  <1>3. /\ UNCHANGED <<owned, campaigning, cleanup, generation, handle, callGeneration, callDone>>
    BY <1>1 DEF elector, locals
  <1>4. FieldTypes' /\ LoopTypes' /\ CallTypes'
    <2>1. loop' \in [Electors -> [Generations -> Loops]]
      BY <1>2 DEF LifeInv, LoopTypes
    <2> QED BY <1>1, <1>3, <2>1, Zenon DEF LifeInv, FieldTypes, LoopTypes, CallTypes
  <1>5. OthersKeep(e)
    BY <1>1, <1>2, <1>3 DEF OthersKeep, LifeInv, LoopTypes
  <1>6. \A h \in Generations : loop'[e][h] = IF h = g THEN s ELSE loop[e][h]
    BY <1>2 DEF LifeInv, LoopTypes
  <1>7. g = generation[e] /\ handle[e] = g /\ (owned[e] \/ cleanup[e]) /\ ~Quiet(e) /\ (s = "done" => ~owned[e])
    <2>1. g = generation[e]
      BY <1>1 DEF Lives
    <2> QED BY <1>1, <1>2, <2>1, Zenon DEF Lives, Quiet
  <1>8. Lives(e)'
    <2>1. ~(g < generation[e]) /\ ~(g > generation[e])
      BY <1>1, <1>7
    <2> QED BY <1>1, <1>2, <1>3, <1>6, <1>7, <2>1, Zenon DEF Lives
  <1>9. \A f \in Electors : Lives(f)'
    BY <1>5, <1>8, OtherLives DEF LifeInv
  <1>10. ASSUME NEW d \in Callers PROVE Calls(d)'
    <2>0. Calls(d) /\ Uses[d] \in Electors
      BY DEF LifeInv, RedisAssumption
    <2>1. CASE Uses[d] # e
      BY <1>1, <1>3, <1>5, <2>0, <2>1, OtherCalls DEF SameCall
    <2>2. CASE Uses[d] = e
      BY <1>1, <1>3, <1>7, <2>0, <2>2, Zenon DEF Calls
    <2> QED BY <2>1, <2>2
  <1>11. Alone'
    BY <1>1, Zenon DEF LifeInv, Alone
  <1> QED BY <1>4, <1>9, <1>10, <1>11, Zenon DEF LifeInv

\* clearOwnershipAfterLoss ends the loop and, with it, the ownership.
LEMMA ClearsLife ==
  ASSUME RedisAssumption, LifeInv, NEW e \in Electors, NEW g \in Generations, clearOwnershipAfterLoss(e, g)
  PROVE  LifeInv'
  <1>1. /\ loop[e][g] \in {"lost", "unknown"} /\ UNCHANGED <<campaigning, generation, cancelled, pc, locals>>
        /\ loop' = [loop EXCEPT ![e][g] = "done"]
        /\ Lives(e) /\ generation[e] \in Int /\ g \in Int
    BY DEF LifeInv, FieldTypes, clearOwnershipAfterLoss, SetLoop, Generations
  <1>2. g = generation[e] /\ handle[e] = g /\ (owned[e] \/ cleanup[e]) /\ ~Quiet(e)
    <2>1. g = generation[e]
      BY <1>1 DEF Lives
    <2> QED BY <1>1, <2>1, Zenon DEF Lives, Quiet
  <1>3. PICK b \in BOOLEAN : /\ owned' = [owned EXCEPT ![e] = FALSE] /\ cleanup' = [cleanup EXCEPT ![e] = b]
                             /\ handle' = [handle EXCEPT ![e] = 0]
    BY <1>2, Zenon DEF clearOwnershipAfterLoss
  <1>4. FieldTypes' /\ LoopTypes' /\ CallTypes'
    <2>1. loop' \in [Electors -> [Generations -> Loops]]
      BY <1>1 DEF LifeInv, LoopTypes, Loops
    <2>2. handle' \in [Electors -> 0..MaxGeneration]
      BY <1>3 DEF LifeInv, FieldTypes, RedisAssumption
    <2> QED BY <1>1, <1>3, <2>1, <2>2, Zenon DEF LifeInv, FieldTypes, LoopTypes, CallTypes, locals
  <1>5. OthersKeep(e)
    BY <1>1, <1>3 DEF OthersKeep, LifeInv, LoopTypes, FieldTypes
  <1>6. \A h \in Generations : loop'[e][h] = IF h = g THEN "done" ELSE loop[e][h]
    BY <1>1 DEF LifeInv, LoopTypes
  <1>7. owned'[e] = FALSE /\ handle'[e] = 0 /\ generation'[e] = generation[e] /\ cancelled'[e] = cancelled[e]
    BY <1>1, <1>3 DEF LifeInv, FieldTypes
  <1>8. Lives(e)'
    <2>1. \A h \in Generations : h = g => ~(h < generation[e]) /\ ~(h > generation[e])
      BY <1>1, <1>2
    <2>2. \A h \in Generations :
            /\ h < generation[e] => loop'[e][h] = "done"
            /\ h > generation[e] => loop'[e][h] = "none" /\ h \notin cancelled[e]
            /\ h = generation[e] => loop'[e][h] = "done"
      BY <1>1, <1>2, <1>6, <2>1, Zenon DEF Lives
    <2> QED BY <1>7, <2>2 DEF Lives
  <1>9. \A f \in Electors : Lives(f)'
    BY <1>5, <1>8, OtherLives DEF LifeInv
  <1>10. ASSUME NEW d \in Callers PROVE Calls(d)'
    <2>0. Calls(d) /\ Uses[d] \in Electors
      BY DEF LifeInv, RedisAssumption
    <2>1. CASE Uses[d] # e
      BY <1>1, <1>5, <2>0, <2>1, OtherCalls DEF SameCall, locals
    <2>2. CASE Uses[d] = e
      <3>1. Quiet(e)'
        <4>1. \A h \in Generations : loop[e][h] \in {"none", "done"} \/ h = g
          BY <1>1, <1>2 DEF Lives, Generations
        <4> QED BY <1>6, <4>1, Zenon DEF Quiet
      <3>2. pc[d] \notin Trying
        BY <1>2, <2>0, <2>2, Zenon DEF Calls
      <3> QED BY <1>1, <1>7, <2>0, <2>2, <3>1, <3>2, Zenon DEF Calls, locals
    <2> QED BY <2>1, <2>2
  <1>11. Alone'
    BY <1>1, Zenon DEF LifeInv, Alone
  <1> QED BY <1>4, <1>9, <1>10, <1>11, Zenon DEF LifeInv

\* Every step keeps the invariant.
LEMMA NextLife ==
  ASSUME RedisAssumption, LifeInv, [Next]_vars
  PROVE  LifeInv'
  <1>1. CASE Tick \/ UNCHANGED vars
    <2>1. UNCHANGED <<owned, campaigning, cleanup, generation, handle, loop, cancelled, pc, callGeneration, callDone>>
      BY <1>1 DEF Tick, vars, elector, locals
    <2>2. FieldTypes' /\ LoopTypes' /\ CallTypes'
      BY <2>1, Zenon DEF LifeInv, FieldTypes, LoopTypes, CallTypes
    <2>3. \A e \in Electors : Lives(e)'
      BY <2>1, KeptLives DEF LifeInv
    <2>4. (\A c \in Callers : Calls(c)') /\ Alone'
      BY <2>1, Zenon DEF LifeInv, Calls, Quiet, Alone
    <2> QED BY <2>2, <2>3, <2>4, Zenon DEF LifeInv
  <1>2. ASSUME NEW c \in Callers, Call(c) PROVE LifeInv'
    <2>1. CASE Acquire(c) \/ AcquireUnknown(c) \/ reconcileCampaign(c) \/ sleepContext(c) \/ Join(c) \/ release(c)
      <3>1. \E l \in Labels : Moves(c, l)
        BY <2>1, Zenon DEF Moves, Labels, Trying, Campaigning, Resigning, Goto,
           Acquire, AcquireUnknown, reconcileCampaign, sleepContext, Join, release
      <3> QED BY <3>1, MovesLife
    <2>2. CASE beginCampaign(c)
      BY <2>2, BeginsLife
    <2>3. CASE ProbeFails(c)
      BY <2>3, ProbeLife
    <2>4. CASE startRenewal(c)
      BY <2>4, StartsLife
    <2>5. CASE endCampaign(c)
      BY <2>5, EndsLife
    <2>6. CASE Resign(c)
      BY <2>6, ResignsLife
    <2>7. CASE JoinTimeout(c) \/ releaseUnknown(c) \/ Finish(c)
      BY <2>7, ReturnsLife
    <2> QED BY <1>2, <2>1, <2>2, <2>3, <2>4, <2>5, <2>6, <2>7 DEF Call
  <1>3. ASSUME NEW e \in Electors, NEW g \in Generations, renewLoop(e, g) PROVE LifeInv'
    BY <1>3, LoopsLife, ClearsLife DEF renewLoop
  <1> QED BY <1>1, <1>2, <1>3 DEF Next

-----------------------------------------------------------------------------
(* What an elector knows of its key. *)

NoKey == [owner |-> NoOwner, until |-> 0]

\* What a step of elector e may do to the key: set it when there is none, and renew or delete its own.
KeyStep(e) ==
  \/ key' = key
  \/ ~Exists /\ key' = Leased(e)
  \/ Holds(e) /\ key' \in {Leased(e), NoKey}

\* What a step of elector e leaves alone: the other electors, their calls and what they were told.
Elsewhere(e) ==
  /\ now' = now /\ OthersKeep(e)
  /\ \A f \in Electors \ {e} : granted'[f] = granted[f]
  /\ \A d \in Callers : Uses[d] # e => SameCall(d)

\* No step of e takes the key from another elector, or gives it one.
LEMMA OtherKeys ==
  ASSUME RedisAssumption, ServerTypes, NEW e \in Electors, KeyStep(e), Elsewhere(e), NEW f \in Electors \ {e}
  PROVE  (Holds(f)' <=> Holds(f)) /\ (Backs(f) => Backs(f)')
  <1>1. /\ now' = now /\ granted'[f] = granted[f] /\ e # f /\ f # NoOwner /\ now \in Int /\ granted[f] \in Int
           /\ key.until \in Int
    BY DEF Elsewhere, ServerTypes, Keys, RedisAssumption
  <1>2. CASE key' = key
    BY <1>1, <1>2 DEF Holds, Exists, Backs
  <1>3. CASE ~Exists /\ key' = Leased(e)
    <2>1. key'.owner = e
      BY <1>3 DEF Leased
    <2>2. ~Holds(f) /\ (now < granted[f] => ~Backs(f))
      BY <1>1, <1>3 DEF Holds, Exists, Backs
    <2> QED BY <1>1, <2>1, <2>2 DEF Holds, Exists, Backs
  <1>4. CASE Holds(e) /\ key' \in {Leased(e), NoKey}
    <2>1. key.owner = e /\ key'.owner \in {e, NoOwner}
      BY <1>4 DEF Holds, Leased, NoKey
    <2> QED BY <1>1, <2>1, Zenon DEF Holds, Exists, Backs
  <1> QED BY <1>2, <1>3, <1>4 DEF KeyStep

\* What a step may do to the key keeps its types and its expiry within a lease.
LEMMA KeyTypes ==
  ASSUME RedisAssumption, ServerTypes, now' = now, NEW e \in Electors, KeyStep(e)
  PROVE  key' \in Keys /\ key'.until <= now' + Lease
  <1>1. now \in Nat /\ Lease \in Nat /\ key \in Keys /\ key.until <= now + Lease
    BY DEF ServerTypes, RedisAssumption
  <1>2. Leased(e) \in Keys /\ NoKey \in Keys /\ Leased(e).until = now + Lease /\ NoKey.until = 0
    BY <1>1 DEF Leased, NoKey, Keys
  <1>3. key' \in {key, Leased(e), NoKey}
    BY Zenon DEF KeyStep
  <1> QED BY <1>1, <1>2, <1>3

\* So it is enough to look at the elector that takes the step.
LEMMA OnlyOwn ==
  ASSUME RedisAssumption, ServerTypes, KeyInv, NEW e \in Electors, KeyStep(e), Elsewhere(e),
         Knows(e)', \A d \in Callers : Uses[d] = e => Sees(d)'
  PROVE  KeyInv'
  <1>1. ASSUME NEW f \in Electors \ {e} PROVE Knows(f)'
    <2>1. (Holds(f)' <=> Holds(f)) /\ (Backs(f) => Backs(f)') /\ Knows(f)
      BY OtherKeys DEF KeyInv
    <2>2. /\ owned'[f] = owned[f] /\ campaigning'[f] = campaigning[f] /\ cleanup'[f] = cleanup[f] /\ loop'[f] = loop[f]
          /\ granted'[f] = granted[f] /\ now' = now
      BY DEF Elsewhere, OthersKeep
    <2> QED BY <2>1, <2>2, Zenon DEF Knows
  <1>2. ASSUME NEW d \in Callers, Uses[d] # e PROVE Sees(d)'
    <2>1. Uses[d] \in Electors \ {e} /\ Sees(d) /\ SameCall(d)
      BY <1>2 DEF RedisAssumption, KeyInv, Elsewhere
    <2>2. (Holds(Uses[d])' <=> Holds(Uses[d])) /\ (Backs(Uses[d]) => Backs(Uses[d])')
      BY <2>1, OtherKeys
    <2>3. /\ owned'[Uses[d]] = owned[Uses[d]] /\ cleanup'[Uses[d]] = cleanup[Uses[d]]
          /\ generation'[Uses[d]] = generation[Uses[d]]
      BY <2>1 DEF Elsewhere, OthersKeep
    <2> QED BY <2>1, <2>2, <2>3, Zenon DEF Sees, SameCall
  <1> QED BY <1>1, <1>2 DEF KeyInv

\* Every step of a call is a step of its elector ...
LEMMA CallElsewhere ==
  ASSUME RedisAssumption, LifeInv, ServerTypes, NEW c \in Callers, Call(c)
  PROVE  Elsewhere(Uses[c]) /\ KeyStep(Uses[c]) /\ ServerTypes'
  <1> DEFINE e == Uses[c]
  <1>1. e \in Electors /\ now' = now /\ ServerTypes /\ key.until \in Nat /\ now + Lease \in Nat
    BY DEF RedisAssumption, ServerTypes, Keys, Call, beginCampaign, Acquire, AcquireUnknown, reconcileCampaign, ProbeFails,
       sleepContext, startRenewal, endCampaign, Resign, Join, JoinTimeout, release, releaseUnknown, Finish
  <1>2. KeyStep(e)
    BY Zenon DEF KeyStep, NoKey, SetNX, Released, Call, beginCampaign, Acquire, AcquireUnknown, reconcileCampaign,
        ProbeFails,
       sleepContext, startRenewal, endCampaign, Resign, Join, JoinTimeout, release, releaseUnknown, Finish
  <1>3. granted' = granted \/ \E n \in {now + Lease, key.until} : granted' = [granted EXCEPT ![e] = n]
    BY Zenon DEF Call, beginCampaign, Acquire, AcquireUnknown, reconcileCampaign, ProbeFails,
       sleepContext, startRenewal, endCampaign, Resign, Join, JoinTimeout, release, releaseUnknown, Finish
  <1>4. ServerTypes'
    BY <1>1, <1>2, <1>3, KeyTypes DEF ServerTypes
  <1>5. \A f \in Electors \ {e} : granted'[f] = granted[f]
    BY <1>1, <1>3 DEF ServerTypes
  <1>6. OthersKeep(e)
    <2>1. CASE UNCHANGED <<elector, loop, cancelled>>
      BY <2>1, Zenon DEF OthersKeep, elector
    <2>2. CASE beginCampaign(c)
      BY <2>2, Zenon DEF OthersKeep, LifeInv, FieldTypes, beginCampaign
    <2>3. CASE ProbeFails(c)
      BY <2>3, Zenon DEF OthersKeep, LifeInv, FieldTypes, ProbeFails
    <2>4. CASE startRenewal(c)
      BY <2>4, Zenon DEF OthersKeep, LifeInv, FieldTypes, LoopTypes, startRenewal
    <2>5. CASE endCampaign(c)
      BY <2>5, Zenon DEF OthersKeep, LifeInv, FieldTypes, endCampaign
    <2>6. CASE Resign(c)
      BY <2>6, Zenon DEF OthersKeep, LifeInv, FieldTypes, LoopTypes, Resign
    <2>7. CASE Finish(c)
      BY <2>7, Zenon DEF OthersKeep, LifeInv, FieldTypes, Finish
    <2> QED BY <2>1, <2>2, <2>3, <2>4, <2>5, <2>6, <2>7, Zenon DEF Call, Acquire, AcquireUnknown, reconcileCampaign,
        sleepContext,
            Join, JoinTimeout, release, releaseUnknown
  <1>7. ASSUME NEW d \in Callers, Uses[d] # e PROVE SameCall(d)
    <2>1. \E l : pc' = [pc EXCEPT ![c] = l]
      BY Zenon DEF Goto, Return, Call, beginCampaign, Acquire, AcquireUnknown, reconcileCampaign, ProbeFails,
         sleepContext, startRenewal, endCampaign, Resign, Join, JoinTimeout, release, releaseUnknown, Finish
    <2>2. UNCHANGED locals \/ \E n, m : callGeneration' = [callGeneration EXCEPT ![c] = n]
          /\ callDone' = [callDone EXCEPT ![c] = m]
      BY Zenon DEF Return, Call, beginCampaign, Acquire, AcquireUnknown, reconcileCampaign, ProbeFails,
         sleepContext, startRenewal, endCampaign, Resign, Join, JoinTimeout, release, releaseUnknown, Finish
    <2> QED BY <1>7, <2>1, <2>2 DEF SameCall, locals, LifeInv, CallTypes
  <1> QED BY <1>1, <1>2, <1>4, <1>5, <1>6, <1>7, Zenon DEF Elsewhere

\* ... and so is every step of a renewal loop.
LEMMA LoopElsewhere ==
  ASSUME RedisAssumption, LifeInv, ServerTypes, NEW e \in Electors, NEW g \in Generations, renewLoop(e, g)
  PROVE  Elsewhere(e) /\ KeyStep(e) /\ ServerTypes'
  <1>a. now' = now /\ UNCHANGED <<pc, locals>>
    BY Zenon DEF renewLoop, LoopStop, RenewTick, renew, renewUnknown, clearOwnershipAfterLoss
  <1>b. now + Lease \in Nat
    BY DEF RedisAssumption, ServerTypes
  <1>1. now' = now /\ ServerTypes /\ now + Lease \in Nat /\ UNCHANGED <<pc, locals>>
    BY <1>a, <1>b, Zenon
  <1>2. KeyStep(e)
    BY Zenon DEF KeyStep, renewLoop, LoopStop, RenewTick, renew, renewUnknown, clearOwnershipAfterLoss
  <1>3. granted' = granted \/ granted' = [granted EXCEPT ![e] = now + Lease]
    BY Zenon DEF renewLoop, LoopStop, RenewTick, renew, renewUnknown, clearOwnershipAfterLoss
  <1>4. ServerTypes'
    BY <1>1, <1>2, <1>3, KeyTypes DEF ServerTypes
  <1>5. \A f \in Electors \ {e} : granted'[f] = granted[f]
    BY <1>1, <1>3 DEF ServerTypes
  <1>6. OthersKeep(e)
    <2>1. \E s : loop' = [loop EXCEPT ![e][g] = s]
      BY Zenon DEF SetLoop, renewLoop, LoopStop, RenewTick, renew, renewUnknown, clearOwnershipAfterLoss
    <2>2. CASE clearOwnershipAfterLoss(e, g)
      BY <2>1, <2>2 DEF OthersKeep, LifeInv, FieldTypes, LoopTypes, clearOwnershipAfterLoss
    <2>3. CASE UNCHANGED <<elector, cancelled>>
      BY <2>1, <2>3 DEF OthersKeep, LifeInv, FieldTypes, LoopTypes, elector
    <2> QED BY <2>2, <2>3, Zenon DEF renewLoop, LoopStop, RenewTick, renew, renewUnknown
  <1> QED BY <1>1, <1>2, <1>4, <1>5, <1>6, Zenon DEF Elsewhere, SameCall, locals

\* The invariant of the electors that are each used by one goroutine.
IInv == LifeInv /\ ServerTypes /\ KeyInv

\* A step that leaves the key, what e was told and its ownership alone, and keeps the reasons for which e remembers the key.
LEMMA KeptKnows ==
  ASSUME UNCHANGED <<now, key, granted>>, NEW e, Knows(e), owned'[e] => owned[e],
         \A g \in Generations : loop'[e][g] = "lost" => loop[e][g] = "lost" \/ ~Holds(e),
         Holds(e) => owned'[e] \/ campaigning'[e] \/ cleanup'[e]
  PROVE  Knows(e)' /\ (Holds(e)' <=> Holds(e)) /\ (Backs(e)' <=> Backs(e))
  <1>1. now' = now /\ key' = key /\ granted' = granted
    OBVIOUS
  <1>2. (Holds(e)' <=> Holds(e)) /\ (Backs(e)' <=> Backs(e))
    BY <1>1, Zenon DEF Holds, Exists, Backs
  <1> QED BY <1>1, <1>2, Zenon DEF Knows

\* The steps of Campaign that do not reach the server, and its probe.
LEMMA CampaignKnows ==
  ASSUME RedisAssumption, IInv, NEW c \in Callers,
         beginCampaign(c) \/ ProbeFails(c) \/ sleepContext(c) \/ startRenewal(c) \/ endCampaign(c)
  PROVE  Knows(Uses[c])' /\ Sees(c)'
  <1> DEFINE e == Uses[c]
  <1>1. /\ e \in Electors /\ Knows(e) /\ Sees(c) /\ Calls(c) /\ Lives(e) /\ FieldTypes /\ LoopTypes /\ CallTypes
        /\ UNCHANGED <<now, key, granted>>
    BY DEF RedisAssumption, IInv, LifeInv, KeyInv, beginCampaign, ProbeFails, sleepContext, startRenewal, endCampaign
  <1>2. CASE beginCampaign(c)
    <2>1. UNCHANGED <<owned, cleanup, loop>> /\ pc'[c] = "acquire" /\ campaigning'[e] /\ ~Holds(e)
      BY <1>1, <1>2 DEF beginCampaign, Goto, FieldTypes, CallTypes, Knows
    <2>2. Knows(e)' /\ (Holds(e)' <=> Holds(e))
      BY <1>1, <2>1, KeptKnows, Zenon
    <2> QED BY <2>1, <2>2, Zenon DEF Sees, Resigning
  <1>3. CASE ProbeFails(c)
    <2>1. UNCHANGED <<owned, campaigning, loop>> /\ pc'[c] = "ending" /\ cleanup'[e]
      BY <1>1, <1>3 DEF ProbeFails, Goto, FieldTypes, CallTypes
    <2>2. Knows(e)'
      BY <1>1, <2>1, KeptKnows, Zenon
    <2> QED BY <2>1, <2>2, Zenon DEF Sees, Resigning
  <1>4. CASE sleepContext(c)
    <2>1. UNCHANGED <<owned, campaigning, cleanup, loop>> /\ pc'[c] \in {"acquire", "ending"} /\ pc[c] = "backoff"
      BY <1>1, <1>4 DEF sleepContext, Goto, CallTypes, elector
    <2>2. ~Holds(e)
      BY <1>1, <2>1, Zenon DEF Sees
    <2>3. Knows(e)' /\ (Holds(e)' <=> Holds(e))
      BY <1>1, <2>1, <2>2, KeptKnows, Zenon
    <2> QED BY <2>1, <2>2, <2>3, Zenon DEF Sees, Resigning
  <1>5. CASE startRenewal(c)
    <2>1. owned'[e] /\ pc'[c] = "ending" /\ pc[c] = "won" /\ generation[e] + 1 \in Generations
      <3>1. pc[c] = "won"
        BY <1>5 DEF startRenewal
      <3>a. generation[e] < MaxGeneration
        BY <1>1, <3>1, Zenon DEF Calls, Trying, Campaigning
      <3>b. generation[e] \in 0..MaxGeneration
        BY <1>1, Zenon DEF FieldTypes
      <3>2. generation[e] \in Nat /\ generation[e] < MaxGeneration
        BY <3>a, <3>b
      <3> QED BY <1>1, <1>5, <3>1, <3>2 DEF startRenewal, Goto, FieldTypes, CallTypes, Generations, RedisAssumption
    <2>2. \A g \in Generations : loop'[e][g] = IF g = generation[e] + 1 THEN "waiting" ELSE loop[e][g]
      BY <1>1, <1>5, <2>1, Zenon DEF startRenewal, LoopTypes
    <2>3. Backs(e)
      BY <1>1, <2>1, Zenon DEF Sees
    <2>4. now' = now /\ key' = key /\ granted' = granted
      BY <1>1
    <2>5. (Holds(e)' <=> Holds(e)) /\ (Backs(e)' <=> Backs(e))
      BY <2>4, Zenon DEF Holds, Exists, Backs
    <2>6. Knows(e)'
      BY <1>1, <2>1, <2>2, <2>3, <2>4, <2>5, Zenon DEF Knows
    <2> QED BY <2>1, <2>6, Zenon DEF Sees, Resigning
  <1>6. CASE endCampaign(c)
    <2>1. UNCHANGED <<owned, cleanup, loop>> /\ pc'[c] = "idle" /\ pc[c] = "ending"
      BY <1>1, <1>6 DEF endCampaign, Goto, CallTypes
    <2>2. Holds(e) => owned[e] \/ cleanup[e]
      BY <1>1, <2>1, Zenon DEF Sees
    <2>3. Knows(e)'
      BY <1>1, <2>1, <2>2, KeptKnows, Zenon
    <2> QED BY <2>1, <2>3, Zenon DEF Sees, Resigning
  <1> QED BY <1>2, <1>3, <1>4, <1>5, <1>6

\* The attempts of Campaign at the server.
LEMMA AttemptKnows ==
  ASSUME RedisAssumption, IInv, NEW c \in Callers, Acquire(c) \/ AcquireUnknown(c) \/ reconcileCampaign(c)
  PROVE  Knows(Uses[c])' /\ Sees(c)'
  <1> DEFINE e == Uses[c]
  <1>1. /\ e \in Electors /\ Knows(e) /\ Sees(c) /\ CallTypes /\ granted \in [Electors -> Nat] /\ now \in Nat
           /\ key.until \in Nat
        /\ key.until <= now + Lease /\ Lease \in Nat
        /\ UNCHANGED <<owned, campaigning, loop>> /\ now' = now
    BY DEF RedisAssumption, IInv, LifeInv, KeyInv, ServerTypes, Keys, Acquire, AcquireUnknown, reconcileCampaign, elector
  <1>2. ~owned[e] /\ campaigning[e] /\ \A g \in Generations : loop[e][g] # "lost"
    <2>1. pc[c] \in Trying /\ pc[c] \in Campaigning
      BY DEF Acquire, AcquireUnknown, reconcileCampaign, Trying, Campaigning
    <2>2. Calls(c)
      BY Zenon DEF IInv, LifeInv
    <2> QED BY <2>1, <2>2, Zenon DEF Calls, Quiet
  <1>3. granted'[e] <= now + Lease
    <2>1. granted'[e] \in {granted[e], now + Lease, key.until}
      BY <1>1 DEF Acquire, AcquireUnknown, reconcileCampaign
    <2>2. granted[e] <= now + Lease
      BY <1>1, Zenon DEF Knows
    <2> QED BY <1>1, <2>1, <2>2
  <1>4. Knows(e)'
    BY <1>1, <1>2, <1>3, Zenon DEF Knows
  <1>5. CASE pc'[c] = "won"
    <2>1. Backs(e)'
      <3>1. CASE Acquire(c)
        <4>1. key' = Leased(e) /\ granted'[e] = now + Lease
          BY <1>1, <1>5, <3>1, Zenon DEF Acquire, Goto, CallTypes
        <4> QED BY <1>1, <4>1 DEF Backs, Leased
      <3>2. CASE reconcileCampaign(c)
        <4>1. key' = key /\ granted'[e] = key.until /\ key.owner = e
          BY <1>1, <1>5, <3>2 DEF reconcileCampaign, Goto, CallTypes, Holds
        <4> QED BY <1>1, <4>1 DEF Backs
      <3>3. CASE AcquireUnknown(c)
        BY <1>1, <1>5, <3>3 DEF AcquireUnknown, Goto, CallTypes
      <3> QED BY <3>1, <3>2, <3>3
    <2> QED BY <1>4, <1>5, <2>1, Zenon DEF Sees, Resigning
  <1>6. CASE pc'[c] # "won"
    <2>1. \/ pc'[c] = "reconcile"
          \/ pc'[c] \in {"backoff", "ending"} /\ ~Holds(e) /\ key' = key
      BY <1>1, <1>6 DEF Acquire, AcquireUnknown, reconcileCampaign, Goto, CallTypes, Sees
    <2>2. CASE pc'[c] = "reconcile"
      BY <1>4, <2>2, Zenon DEF Sees, Resigning
    <2>3. CASE pc'[c] \in {"backoff", "ending"} /\ ~Holds(e) /\ key' = key
      <3>1. ~Holds(e)'
        BY <1>1, <2>3, Zenon DEF Holds, Exists
      <3> QED BY <1>4, <2>3, <3>1, Zenon DEF Sees, Resigning
    <2> QED BY <2>1, <2>2, <2>3, Zenon
  <1> QED BY <1>5, <1>6

\* The steps of Resign: it deletes the key of an ownership that is over.
LEMMA ResignKnows ==
  ASSUME RedisAssumption, IInv, NEW c \in Callers,
         Resign(c) \/ Join(c) \/ JoinTimeout(c) \/ release(c) \/ releaseUnknown(c) \/ Finish(c)
  PROVE  Knows(Uses[c])' /\ Sees(c)'
  <1> DEFINE e == Uses[c]
  <1>1. /\ e \in Electors /\ Knows(e) /\ Sees(c) /\ FieldTypes /\ CallTypes
        /\ UNCHANGED <<campaigning, generation, loop, granted>> /\ now' = now
    BY Zenon DEF RedisAssumption, IInv, LifeInv, KeyInv, Resign, Join, JoinTimeout, release, releaseUnknown, Finish, elector
  <1>2. CASE Resign(c)
    <2>1. /\ key' = key /\ ~owned'[e] /\ cleanup'[e] /\ pc'[c] = "join" /\ callGeneration'[c] = generation[e]
      BY <1>1, <1>2 DEF Resign, Goto, FieldTypes, CallTypes
    <2>2. Knows(e)'
      BY <1>1, <2>1, KeptKnows, Zenon
    <2> QED BY <1>1, <2>1, <2>2, Zenon DEF Sees
  <1>3. CASE Join(c)
    <2>1. /\ UNCHANGED <<key, owned, cleanup, callGeneration>> /\ pc'[c] = "release" /\ pc[c] = "join"
      BY <1>1, <1>3, Zenon DEF Join, Goto, CallTypes, elector, locals
    <2>2. Knows(e)'
      BY <1>1, <2>1, KeptKnows, Zenon DEF Knows
    <2> QED BY <1>1, <2>1, <2>2, Zenon DEF Sees, Resigning
  <1>4. CASE JoinTimeout(c)
    <2>1. /\ UNCHANGED <<key, owned, cleanup>> /\ pc'[c] = "idle"
      BY <1>1, <1>4 DEF JoinTimeout, Return, Goto, CallTypes, elector
    <2>2. Knows(e)'
      BY <1>1, <2>1, KeptKnows, Zenon DEF Knows
    <2> QED BY <1>1, <2>1, <2>2, Zenon DEF Sees, Resigning
  <1>5. CASE release(c) \/ releaseUnknown(c)
    <2>1. UNCHANGED <<owned, cleanup>> /\ pc[c] = "release" /\ ~owned[e] /\ key' \in {key, Released(e)}
      BY <1>1, <1>5, Zenon DEF release, releaseUnknown, elector, Sees, Resigning
    <2>2. ~Holds(e)' \/ (key' = key /\ (Holds(e)' <=> Holds(e)))
      <3>1. CASE key' = key
        BY <1>1, <3>1, Zenon DEF Holds, Exists
      <3>2. CASE key' = [owner |-> NoOwner, until |-> 0]
        BY <3>2 DEF Holds, Exists
      <3> QED BY <2>1, <3>1, <3>2, Zenon DEF Released
    <2>3. Knows(e)'
      BY <1>1, <2>1, <2>2, Zenon DEF Knows
    <2>4. CASE releaseUnknown(c)
      <3>1. pc'[c] = "idle"
        BY <1>1, <2>4 DEF releaseUnknown, Return, Goto, CallTypes
      <3> QED BY <2>3, <3>1, Zenon DEF Sees, Resigning
    <2>5. CASE release(c)
      <3>1. pc'[c] = "finish" /\ callGeneration' = callGeneration /\ key' = Released(e)
        BY <1>1, <2>5 DEF release, Goto, CallTypes, locals
      <3>2. ~Holds(e)'
        <4>1. CASE Holds(e)
          BY <3>1, <4>1 DEF Released, Holds, Exists
        <4>2. CASE ~Holds(e)
          BY <1>1, <3>1, <4>2, Zenon DEF Released, Holds, Exists
        <4> QED BY <4>1, <4>2
      <3> QED BY <1>1, <2>1, <2>3, <3>1, <3>2, Zenon DEF Sees, Resigning
    <2> QED BY <1>5, <2>4, <2>5, Zenon
  <1>6. CASE Finish(c)
    <2>1. key' = key /\ owned' = owned /\ pc'[c] = "idle" /\ pc[c] = "finish"
      BY <1>1, <1>6 DEF Finish, Return, Goto, CallTypes
    <2>2. ~Holds(e)
      BY <1>1, <2>1, Zenon DEF Sees
    <2>3. Knows(e)'
      BY <1>1, <2>1, <2>2, KeptKnows, Zenon
    <2> QED BY <2>1, <2>3, Zenon DEF Sees, Resigning
  <1> QED BY <1>2, <1>3, <1>4, <1>5, <1>6

\* The steps of the renewal loop.
LEMMA LoopKnows ==
  ASSUME RedisAssumption, IInv, NEW e \in Electors, NEW g \in Generations, renewLoop(e, g)
  PROVE  Knows(e)' /\ \A d \in Callers : Uses[d] = e => Sees(d)'
  <1>a. now \in Nat /\ Lease \in Nat
    BY DEF RedisAssumption, IInv, ServerTypes
  <1>b. Knows(e) /\ Lives(e) /\ LoopTypes /\ FieldTypes /\ granted \in [Electors -> Nat] /\ \A d \in Callers : Sees(d)
    BY Zenon DEF IInv, LifeInv, KeyInv, ServerTypes
  <1>c. UNCHANGED <<campaigning, generation, pc, callGeneration>> /\ now' = now
    BY Zenon DEF renewLoop, LoopStop, RenewTick, renew, renewUnknown, clearOwnershipAfterLoss, elector, locals
  <1>1. /\ Knows(e) /\ Lives(e) /\ LoopTypes /\ FieldTypes /\ granted \in [Electors -> Nat] /\ now \in Nat /\ Lease \in Nat
        /\ UNCHANGED <<campaigning, generation, pc, callGeneration>> /\ now' = now
        /\ \A d \in Callers : Sees(d)
    BY <1>a, <1>b, <1>c, Zenon
  <1>2. \A h \in Generations : loop'[e][h] = "lost" => loop[e][h] = "lost" \/ ~Holds(e)
    <2>1. \/ loop' = [loop EXCEPT ![e][g] = "done"] \/ loop' = [loop EXCEPT ![e][g] = "unknown"]
          \/ loop' = [loop EXCEPT ![e][g] = "renewing"] \/ loop' = [loop EXCEPT ![e][g] = "waiting"]
          \/ (~Holds(e) /\ loop' = [loop EXCEPT ![e][g] = "lost"])
      BY Zenon DEF renewLoop, LoopStop, RenewTick, renew, renewUnknown, clearOwnershipAfterLoss, SetLoop
    <2> QED BY <1>1, <2>1 DEF LoopTypes
  <1>3. CASE LoopStop(e, g) \/ RenewTick(e, g) \/ (renew(e, g) /\ ~Holds(e))
    <2>1. UNCHANGED <<now, key, granted, owned, cleanup>>
      BY <1>1, <1>3, Zenon DEF LoopStop, RenewTick, renew, elector
    <2>3. Knows(e)' /\ (Holds(e)' <=> Holds(e)) /\ (Backs(e)' <=> Backs(e))
      BY <1>1, <1>2, <2>1, KeptKnows, Zenon DEF Knows
    <2> QED BY <1>1, <2>1, <2>3, Zenon DEF Sees
  <1>4. CASE (renew(e, g) \/ renewUnknown(e, g)) /\ Holds(e) /\ key' = Leased(e)
    <2>1. UNCHANGED <<owned, cleanup>> /\ granted'[e] \in {granted[e], now + Lease}
      BY <1>1, <1>4, Zenon DEF renew, renewUnknown, elector
    <2>2. Backs(e)' /\ granted'[e] <= now + Lease
      <3>1. key'.owner = e /\ key'.until = now + Lease
        BY <1>4 DEF Leased
      <3>2. granted[e] <= now + Lease
        BY <1>1, Zenon DEF Knows
      <3>3. granted[e] \in Nat
        BY <1>1, Zenon
      <3>4. granted'[e] <= now + Lease /\ key'.until >= granted'[e]
        BY <1>a, <2>1, <3>1, <3>2, <3>3
      <3> QED BY <3>1, <3>4, Zenon DEF Backs
    <2>3. \A h \in Generations : loop'[e][h] # "lost"
      BY <1>1, <1>2, <1>4, Zenon DEF Knows
    <2>4. Knows(e)'
      BY <1>1, <1>4, <2>1, <2>2, <2>3, Zenon DEF Knows
    <2> QED BY <1>1, <1>4, <2>1, <2>2, <2>4, Zenon DEF Sees
  <1>5. CASE renewUnknown(e, g) /\ key' = key
    <2>1. UNCHANGED <<now, key, granted, owned, cleanup>>
      BY <1>1, <1>5, Zenon DEF renewUnknown, elector
    <2>3. Knows(e)' /\ (Holds(e)' <=> Holds(e)) /\ (Backs(e)' <=> Backs(e))
      BY <1>1, <1>2, <2>1, KeptKnows, Zenon DEF Knows
    <2> QED BY <1>1, <2>1, <2>3, Zenon DEF Sees
  <1>6. CASE clearOwnershipAfterLoss(e, g)
    <2>1. UNCHANGED <<now, key, granted>> /\ loop[e][g] \in {"lost", "unknown"} /\ loop' = [loop EXCEPT ![e][g] = "done"]
      BY <1>1, <1>6 DEF clearOwnershipAfterLoss, SetLoop
    <2>2. generation[e] = g /\ handle[e] = g
      <3>1. g \in Int /\ generation[e] \in Int
        BY <1>1 DEF Generations, FieldTypes
      <3>2. g = generation[e]
        BY <1>1, <2>1, <3>1 DEF Lives
      <3> QED BY <1>1, <2>1, <3>2, Zenon DEF Lives
    <2>3. ~owned'[e] /\ (cleanup'[e] <=> loop[e][g] = "unknown")
      BY <1>1, <1>6, <2>2, Zenon DEF clearOwnershipAfterLoss, FieldTypes
    <2>4. Holds(e) => cleanup'[e]
      BY <1>1, <2>1, <2>3, Zenon DEF Knows
    <2>5. Knows(e)' /\ (Holds(e)' <=> Holds(e)) /\ (Backs(e)' <=> Backs(e))
      BY <1>1, <1>2, <2>1, <2>3, <2>4, KeptKnows
    <2> QED BY <1>1, <2>3, <2>4, <2>5, Zenon DEF Sees
  <1> QED BY <1>3, <1>4, <1>5, <1>6, Zenon DEF renewLoop, renew, renewUnknown

\* Time only takes keys away.
LEMMA TickKnows ==
  ASSUME RedisAssumption, IInv, Tick
  PROVE  ServerTypes' /\ KeyInv'
  <1>1. /\ now \in Nat /\ now' = now + 1 /\ now' \in 0..MaxNow /\ key \in Keys /\ key.until \in Nat
           /\ granted \in [Electors -> Nat]
        /\ Lease \in Nat /\ key.until <= now + Lease
    BY DEF RedisAssumption, IInv, ServerTypes, Keys, Tick
  <1>2. key' = key /\ granted' = granted /\ UNCHANGED <<owned, campaigning, cleanup, generation, loop, pc, callGeneration>>
    BY DEF Tick, elector, locals
  <1>3. ASSUME NEW e \in Electors PROVE (Holds(e)' => Holds(e)) /\ (Backs(e) => Backs(e)')
    <2>1. granted[e] \in Nat
      BY <1>1
    <2> QED BY <1>1, <1>2, <2>1 DEF Holds, Exists, Backs
  <1>4. ASSUME NEW e \in Electors PROVE Knows(e)'
    <2>1. Knows(e) /\ granted[e] \in Nat
      BY <1>1 DEF IInv, KeyInv
    <2>2. granted'[e] <= now' + Lease
      BY <1>1, <1>2, <2>1 DEF Knows
    <2> QED BY <1>2, <1>3, <2>1, <2>2, Zenon DEF Knows
  <1>5. ASSUME NEW d \in Callers PROVE Sees(d)'
    <2>1. Uses[d] \in Electors /\ Sees(d)
      BY DEF RedisAssumption, IInv, KeyInv
    <2> QED BY <1>2, <1>3, <2>1, Zenon DEF Sees
  <1>6. key'.until <= now' + Lease
    BY <1>1, <1>2
  <1> QED BY <1>1, <1>2, <1>4, <1>5, <1>6, Zenon DEF ServerTypes, KeyInv

\* The invariant is inductive.
LEMMA InitIInv ==
  ASSUME RedisAssumption, Init
  PROVE  IInv
  <1>1. ServerTypes
    BY DEF Init, ServerTypes, Keys, RedisAssumption
  <1>2. KeyInv
    <2>1. now = 0 /\ key.until = 0 /\ key.owner = NoOwner /\ Lease \in Nat
      BY DEF Init, RedisAssumption
    <2>2. \A e \in Electors : ~Holds(e) /\ granted[e] = 0 /\ owned[e] = FALSE
      BY <2>1, Zenon DEF Init, Holds, Exists
    <2>3. \A e \in Electors : Knows(e)
      <3>1. 0 <= now + Lease /\ \A e \in Electors : \A g \in Generations : loop[e][g] # "lost"
        BY <2>1 DEF Init
      <3> QED BY <2>2, <3>1, Zenon DEF Knows
    <2>4. \A c \in Callers : Sees(c)
      BY DEF Init, Sees, Resigning
    <2> QED BY <2>1, <2>3, <2>4 DEF KeyInv
  <1> QED BY <1>1, <1>2, InitLife DEF IInv

LEMMA NextIInv ==
  ASSUME RedisAssumption, OneCaller, IInv, [Next]_vars
  PROVE  IInv'
  <1>1. LifeInv'
    BY NextLife DEF IInv
  <1>2. CASE Tick
    BY <1>1, <1>2, TickKnows DEF IInv
  <1>3. ASSUME NEW c \in Callers, Call(c) PROVE IInv'
    <2>1. Elsewhere(Uses[c]) /\ KeyStep(Uses[c]) /\ ServerTypes' /\ Uses[c] \in Electors
      BY <1>3, CallElsewhere DEF RedisAssumption, IInv
    <2>2. Knows(Uses[c])' /\ Sees(c)'
      BY <1>3, CampaignKnows, AttemptKnows, ResignKnows DEF Call
    <2>3. \A d \in Callers : Uses[d] = Uses[c] => Sees(d)'
      BY <2>2, Zenon DEF OneCaller
    <2>4. KeyInv'
      BY <2>1, <2>2, <2>3, OnlyOwn DEF IInv
    <2> QED BY <1>1, <2>1, <2>4 DEF IInv
  <1>4. ASSUME NEW e \in Electors, NEW g \in Generations, renewLoop(e, g) PROVE IInv'
    <2>1. Elsewhere(e) /\ KeyStep(e) /\ ServerTypes'
      BY <1>4, LoopElsewhere DEF IInv
    <2>2. Knows(e)' /\ \A d \in Callers : Uses[d] = e => Sees(d)'
      BY <1>4, LoopKnows
    <2>3. KeyInv'
      BY <2>1, <2>2, OnlyOwn DEF IInv
    <2> QED BY <1>1, <2>1, <2>3 DEF IInv
  <1>5. CASE UNCHANGED vars
    <2>1. /\ now' = now /\ key' = key /\ granted' = granted /\ owned' = owned /\ campaigning' = campaigning
             /\ cleanup' = cleanup
          /\ generation' = generation /\ loop' = loop /\ pc' = pc /\ callGeneration' = callGeneration
      BY <1>5 DEF vars, elector, locals
    <2>2. ServerTypes' /\ KeyInv'
      BY <2>1, Zenon DEF IInv, ServerTypes, KeyInv, Knows, Sees, Holds, Exists, Backs
    <2> QED BY <1>1, <2>2 DEF IInv
  <1> QED BY <1>2, <1>3, <1>4, <1>5 DEF Next

\* While the lease an elector was last told of runs, the key holds its token at least as long: no renewal, campaign
\* or Resign of any elector, failed or not, takes it away, if each elector is used by one goroutine.
THEOREM LeaderSafe ==
  ASSUME RedisAssumption, OneCaller
  PROVE  Spec => []LeaderHoldsKey
  <1>1. Init => IInv
    BY InitIInv
  <1>2. IInv /\ [Next]_vars => IInv'
    BY NextIInv
  <1>3. IInv => LeaderHoldsKey
    BY Zenon DEF IInv, KeyInv, Knows, Backs, LeaderHoldsKey, Leads
  <1> QED BY <1>1, <1>2, <1>3, PTL DEF Spec

\* So at most one elector leads.
THEOREM OneLeader ==
  ASSUME RedisAssumption, OneCaller
  PROVE  Spec => [](\A e, f \in Electors : Leads(e) /\ Leads(f) => e = f)
  <1>1. LeaderHoldsKey => \A e, f \in Electors : Leads(e) /\ Leads(f) => e = f
    BY Zenon DEF LeaderHoldsKey
  <1> QED BY <1>1, LeaderSafe, PTL

\* A key that holds the token of an elector is never forgotten, whichever command failed after it was applied.
THEOREM KeyRemembered ==
  ASSUME RedisAssumption, OneCaller
  PROVE  Spec => []NothingForgotten
  <1>1. Init => IInv
    BY InitIInv
  <1>2. IInv /\ [Next]_vars => IInv'
    BY NextIInv
  <1>3. IInv => NothingForgotten
    BY Zenon DEF IInv, KeyInv, Knows, NothingForgotten
  <1> QED BY <1>1, <1>2, <1>3, PTL DEF Spec

\* Resign deletes the key of the ownership it was called for, never that of a later one.
THEOREM ResignsOwn ==
  ASSUME RedisAssumption, OneCaller
  PROVE  Spec => ResignReleasesOwn
  <1>1. Init => IInv
    BY InitIInv
  <1>2. IInv /\ [Next]_vars => IInv'
    BY NextIInv
  <1>3. IInv => \A c \in Callers : pc[c] = "release" => ~owned[Uses[c]]
    BY Zenon DEF IInv, KeyInv, Sees, Resigning
  <1>4. IInv /\ [Next]_vars =>
          [\A c \in Callers : pc[c] = "release" /\ key' # key /\ key.owner = Uses[c] => ~owned[Uses[c]]]_vars
    BY <1>3, Zenon
  <1> QED BY <1>1, <1>2, <1>4, PTL DEF Spec, ResignReleasesOwn

\* Every field, loop and call keeps to its types, however many goroutines share an elector.
THEOREM TypeCorrect ==
  ASSUME RedisAssumption
  PROVE  Spec => []TypeOK
  <1>1. Init => LifeInv /\ ServerTypes
    BY InitLife, InitIInv DEF IInv
  <1>2. LifeInv /\ ServerTypes /\ [Next]_vars => LifeInv' /\ ServerTypes'
    <2> SUFFICES ASSUME LifeInv, ServerTypes, [Next]_vars PROVE ServerTypes'
      BY NextLife
    <2>1. CASE Tick
      BY <2>1 DEF Tick, ServerTypes, Keys, RedisAssumption
    <2>2. CASE UNCHANGED vars
      BY <2>2 DEF vars, ServerTypes
    <2> QED BY <2>1, <2>2, CallElsewhere, LoopElsewhere DEF Next
  <1>3. LifeInv /\ ServerTypes => TypeOK
    BY Zenon DEF LifeInv, ServerTypes, FieldTypes, LoopTypes, CallTypes, Keys, Loops, Labels, TypeOK
  <1> QED BY <1>1, <1>2, <1>3, PTL DEF Spec

\* IsLeader is only true while the uncancelled renewal loop of the current generation runs, and no loop of an
\* earlier generation renews, however many goroutines campaign and resign.
THEOREM OwnedAlwaysRenewed ==
  ASSUME RedisAssumption
  PROVE  Spec => []OwnedIsRenewed
  <1>1. Init => LifeInv
    BY InitLife
  <1>2. LifeInv /\ [Next]_vars => LifeInv'
    BY NextLife
  <1>3. LifeInv => OwnedIsRenewed
    <2> SUFFICES ASSUME LifeInv, NEW e \in Electors
                 PROVE  /\ owned[e] => /\ loop[e][generation[e]] \in {"waiting", "renewing", "lost", "unknown"}
                                       /\ generation[e] \notin cancelled[e]
                        /\ \A g \in Generations : loop[e][g] \in {"waiting", "renewing"} => g = generation[e]
      BY Zenon DEF OwnedIsRenewed
    <2>1. Lives(e)
      BY Zenon DEF LifeInv
    <2>c. generation[e] \in Int
      BY DEF LifeInv, FieldTypes
    <2>a. \A g \in Generations : g \in Int
      BY DEF Generations
    <2>b. \A g \in Generations : loop[e][g] \in Loops
      BY Zenon DEF LifeInv, LoopTypes
    <2>2. ASSUME NEW g \in Generations, loop[e][g] \in {"waiting", "renewing"} PROVE g = generation[e]
      <3>1. ~(g < generation[e]) /\ ~(g > generation[e])
        BY <2>1, <2>2, Zenon DEF Lives
      <3> QED BY <2>a, <2>c, <3>1
    <2>3. owned[e] => loop[e][generation[e]] \in Loops \ {"none", "done"} /\ generation[e] \notin cancelled[e]
      BY <2>1, <2>b, Zenon DEF Lives
    <2> QED BY <2>2, <2>3, Zenon DEF Loops
  <1> QED BY <1>1, <1>2, <1>3, PTL DEF Spec

\* Whatever goroutines share an elector, one Campaign of it runs at a time.
THEOREM OneCampaign ==
  ASSUME RedisAssumption
  PROVE  Spec => []Alone
  <1>1. Init => LifeInv
    BY InitLife
  <1>2. LifeInv /\ [Next]_vars => LifeInv'
    BY NextLife
  <1>3. LifeInv => Alone
    BY DEF LifeInv
  <1> QED BY <1>1, <1>2, <1>3, PTL DEF Spec

-----------------------------------------------------------------------------
(* The strategic electors of leader/redis and leader/mongo                 *)

CONSTANTS Nodes, Indexed, TTLs, Buffer, Scores, MaxTime, MaxResults

VARIABLES cand, index, step

\* The candidates of leader/redis or leader/mongo.
Strategic == INSTANCE Strategic

StrategicAssumption ==
  Nodes \subseteq Int /\ Indexed \in BOOLEAN /\ TTLs \subseteq Nat /\ Buffer \in Nat /\ MaxTime \in Nat

\* Every candidate registers with the same TTL.
OneTTL == \A s, t \in TTLs : s = t

ServerShape ==
  /\ now \in Nat /\ index \in [scores : [Nodes -> Nat], until : Nat]
  /\ cand \in [Nodes -> [until : Nat, at : Nat, score : Scores \cup {0}, counted : Nat]]

\* The step of a node is a record, whatever list it holds.
StepShape ==
  /\ step = [n \in Nodes |-> step[n]]
  /\ \A n \in Nodes : step[n] = [pc |-> step[n].pc, list |-> step[n].list, winner |-> step[n].winner]

\* A live candidate is not being unregistered and, if all have one TTL, has its entry in an index that outlives it.
Indexes(n) ==
  /\ step[n].pc = "unindex" => ~Strategic!live(n)
  /\ Strategic!live(n) => \E t \in TTLs : cand[n].until <= now + t
  /\ Strategic!live(n) /\ Indexed /\ OneTTL => index.scores[n] >= cand[n].until /\ index.until >= cand[n].until

CandInv == ServerShape /\ StepShape /\ \A n \in Nodes : Indexes(n)

LEMMA InitCand ==
  ASSUME StrategicAssumption, Strategic!Init
  PROVE  CandInv
  <1>1. ServerShape
    BY DEF Strategic!Init, ServerShape, Strategic!Absent
  <1>2. StepShape
    BY DEF Strategic!Init, StepShape, Strategic!NoList
  <1>3. \A n \in Nodes : Indexes(n)
    BY DEF Strategic!Init, Indexes, Strategic!live, Strategic!Absent, Strategic!NoList
  <1> QED BY <1>1, <1>2, <1>3 DEF CandInv

LEMMA TickCand ==
  ASSUME StrategicAssumption, CandInv, Strategic!Tick
  PROVE  CandInv'
  <1>1. ServerShape' /\ StepShape'
    BY DEF CandInv, ServerShape, StepShape, Strategic!Tick
  <1>2. ASSUME NEW n \in Nodes PROVE Indexes(n)'
    <2>1. Indexes(n) /\ now' = now + 1 /\ now \in Nat /\ cand[n].until \in Nat /\ UNCHANGED <<cand, index, step>>
      BY DEF CandInv, ServerShape, Strategic!Tick
    <2> QED BY <2>1 DEF Indexes, Strategic!live, StrategicAssumption
  <1> QED BY <1>1, <1>2 DEF CandInv

LEMMA RegisterCand ==
  ASSUME StrategicAssumption, CandInv, NEW n \in Nodes, Strategic!RegisterCandidate(n)
  PROVE  CandInv'
  <1>1. PICK ttl \in TTLs, at \in 1..2, score \in Scores :
          /\ cand' = [cand EXCEPT ![n] = [until |-> now + ttl, at |-> at, score |-> score, counted |-> 0]]
          /\ index' = IF Indexed
                      THEN [scores |-> [m \in Nodes |-> IF m = n THEN now + ttl ELSE Strategic!Scored(m)],
                            until |-> now + ttl + Buffer]
                      ELSE index
    BY Zenon DEF Strategic!RegisterCandidate
  <1>2. UNCHANGED <<now, step>> /\ step[n].pc = "idle" /\ now \in Nat /\ ttl \in Nat /\ Buffer \in Nat
    BY DEF Strategic!RegisterCandidate, CandInv, ServerShape, StrategicAssumption
  <1>3. ASSUME NEW m \in Nodes PROVE Strategic!Scored(m) \in Nat
    BY SMTT(20) DEF CandInv, ServerShape, Strategic!Scored
  <1>4. index' \in [scores : [Nodes -> Nat], until : Nat]
    BY <1>1, <1>2, <1>3 DEF CandInv, ServerShape
  <1>5. ServerShape' /\ StepShape'
    BY <1>1, <1>2, <1>4 DEF CandInv, ServerShape, StepShape
  <1>6. ASSUME NEW m \in Nodes PROVE Indexes(m)'
    <2>1. Indexes(m) /\ cand[m].until \in Nat /\ index.until \in Nat /\ index.scores[m] \in Nat
      BY DEF CandInv, ServerShape
    <2>2. CASE m = n
      <3>1. cand'[m].until = now + ttl
        BY <1>1, <2>2 DEF CandInv, ServerShape
      <3>2. Indexed => index'.scores[m] = now + ttl /\ index'.until = now + ttl + Buffer
        BY <1>1, <2>2
      <3> QED BY <3>1, <3>2, <1>2, <2>2 DEF Indexes, Strategic!live
    <2>3. CASE m # n
      <3>1. cand'[m] = cand[m] /\ Strategic!live(m)' = Strategic!live(m)
        BY <1>1, <1>2, <2>3 DEF CandInv, ServerShape, Strategic!live
      <3>2. Indexed => index'.scores[m] = Strategic!Scored(m) /\ index'.until = now + ttl + Buffer
        BY <1>1, <2>3
      <3>3. Strategic!live(m) => cand[m].until > now /\ \E t \in TTLs : cand[m].until <= now + t
        BY <2>1 DEF Indexes, Strategic!live
      <3>4. OneTTL /\ Strategic!live(m) => cand[m].until <= now + ttl
        BY <3>3 DEF OneTTL
      <3>5. Indexed /\ OneTTL /\ Strategic!live(m) => Strategic!Scored(m) >= cand[m].until
        BY <2>1, <3>3, <1>2 DEF Indexes, Strategic!Scored
      <3>6. Indexed /\ OneTTL /\ Strategic!live(m) => index'.scores[m] >= cand'[m].until
        BY <3>1, <3>2, <3>5, SMTT(20)
      <3>7. Indexed /\ OneTTL /\ Strategic!live(m) => index'.until >= cand'[m].until
        BY <3>1, <3>2, <3>4, <1>2, <2>1
      <3>8. step' = step /\ now' = now /\ cand'[m].until = cand[m].until
        BY <1>2, <3>1, SMTT(20)
      <3> QED BY <3>1, <3>6, <3>7, <3>8, <2>1, Zenon DEF Indexes, OneTTL
    <2> QED BY <2>2, <2>3
  <1> QED BY <1>5, <1>6 DEF CandInv

LEMMA UnregisterCand ==
  ASSUME StrategicAssumption, CandInv, NEW n \in Nodes, Strategic!UnregisterCandidate(n)
  PROVE  CandInv'
  <1>1. /\ cand' = [cand EXCEPT ![n] = Strategic!Absent] /\ UNCHANGED <<now, index>>
        /\ step' = [step EXCEPT ![n].pc = IF Indexed THEN "unindex" ELSE "idle"]
    BY DEF Strategic!UnregisterCandidate
  <1>2. ServerShape'
    BY <1>1 DEF CandInv, ServerShape, Strategic!Absent
  <1>3. StepShape' /\ \A m \in Nodes \ {n} : step'[m] = step[m]
    BY <1>1 DEF CandInv, StepShape
  <1>4. ASSUME NEW m \in Nodes PROVE Indexes(m)'
    <2>1. CASE m = n
      BY <1>1, <2>1 DEF CandInv, ServerShape, Indexes, Strategic!live, Strategic!Absent
    <2>2. CASE m # n
      BY <1>1, <1>3, <2>2 DEF CandInv, ServerShape, Indexes, Strategic!live
    <2> QED BY <2>1, <2>2
  <1> QED BY <1>2, <1>3, <1>4 DEF CandInv

LEMMA UnindexCand ==
  ASSUME StrategicAssumption, CandInv, NEW n \in Nodes, Strategic!UnregisterIndex(n)
  PROVE  CandInv'
  <1>1. /\ step[n].pc = "unindex" /\ index' = [index EXCEPT !.scores[n] = 0]
        /\ step' = [step EXCEPT ![n] = Strategic!NoList] /\ UNCHANGED <<now, cand>>
    BY DEF Strategic!UnregisterIndex
  <1>2. ServerShape' /\ index'.until = index.until /\ \A m \in Nodes \ {n} : index'.scores[m] = index.scores[m]
    BY <1>1, SMTT(20) DEF CandInv, ServerShape
  <1>3. StepShape' /\ step'[n].pc = "idle" /\ \A m \in Nodes \ {n} : step'[m] = step[m]
    BY <1>1 DEF CandInv, StepShape, Strategic!NoList
  <1>4. ASSUME NEW m \in Nodes PROVE Indexes(m)'
    BY <1>1, <1>2, <1>3, SMTT(20) DEF CandInv, Indexes, Strategic!live
  <1> QED BY <1>2, <1>3, <1>4 DEF CandInv

LEMMA ListCand ==
  ASSUME StrategicAssumption, CandInv, NEW n \in Nodes, Strategic!ListCandidates(n)
  PROVE  CandInv'
  <1> DEFINE seen == {m \in Nodes : Strategic!listed(m)}
  <1>1. /\ step[n].pc = "idle" /\ UNCHANGED now
        /\ \E l : step' = [step EXCEPT ![n] = [pc |-> "elect", list |-> l, winner |-> 0]]
        /\ index' = IF Indexed
                    THEN [index EXCEPT !.scores = [m \in Nodes |-> IF m \in seen THEN Strategic!Scored(m) ELSE 0]]
                    ELSE index
        /\ cand' = [m \in Nodes |-> IF Strategic!live(m) THEN cand[m] ELSE Strategic!Absent]
    BY Zenon DEF Strategic!ListCandidates
  <1>2. StepShape' /\ step'[n].pc = "elect" /\ \A m \in Nodes \ {n} : step'[m] = step[m]
    BY <1>1 DEF CandInv, StepShape
  <1>3. ASSUME NEW m \in Nodes PROVE Strategic!Scored(m) \in Nat
    BY DEF CandInv, ServerShape, Strategic!Scored
  <1>4. index' \in [scores : [Nodes -> Nat], until : Nat] /\ index'.until = index.until
    BY <1>1, <1>3 DEF CandInv, ServerShape
  <1>5. cand' \in [Nodes -> [until : Nat, at : Nat, score : Scores \cup {0}, counted : Nat]] /\ now' \in Nat
    BY <1>1 DEF CandInv, ServerShape, Strategic!Absent
  <1>6. ASSUME NEW m \in Nodes PROVE Indexes(m)'
    <2>1. Indexes(m) /\ cand[m].until \in Nat /\ index.until \in Nat /\ index.scores[m] \in Nat /\ now \in Nat
      BY DEF CandInv, ServerShape
    <2>2. CASE Strategic!live(m)
      <3>1. cand'[m] = cand[m] /\ Strategic!live(m)'
        BY <1>1, <2>2 DEF Strategic!live
      <3>2. Indexed /\ OneTTL => Strategic!Scored(m) = index.scores[m] /\ Strategic!Scored(m) >= cand[m].until
            /\ Strategic!Scored(m) > now
        BY <2>1, <2>2 DEF Indexes, Strategic!Scored, Strategic!live
      <3>3. Indexed /\ OneTTL => index'.scores[m] = Strategic!Scored(m)
        BY <1>1, <2>2, <3>2 DEF CandInv, ServerShape, Strategic!listed
      <3>4. step'[m].pc = "unindex" => step[m].pc = "unindex"
        BY <1>2
      <3> QED BY <1>1, <1>4, <2>1, <2>2, <3>1, <3>2, <3>3, <3>4 DEF Indexes
    <2>3. CASE ~Strategic!live(m)
      <3>1. cand'[m].until = 0 /\ ~Strategic!live(m)'
        BY <1>1, <2>1, <2>3 DEF Strategic!live, Strategic!Absent
      <3> QED BY <3>1 DEF Indexes
    <2> QED BY <2>2, <2>3
  <1> QED BY <1>2, <1>4, <1>5, <1>6 DEF CandInv, ServerShape

LEMMA ElectCand ==
  ASSUME StrategicAssumption, CandInv, NEW n \in Nodes, Strategic!Elect(n)
  PROVE  CandInv'
  <1>1. /\ step[n].pc = "elect" /\ UNCHANGED <<now, cand, index>>
        /\ \/ step' = [step EXCEPT ![n] = [pc |-> "act", list |-> step[n].list, winner |-> n]]
           \/ step' = [step EXCEPT ![n] = Strategic!NoList]
    BY Zenon DEF Strategic!Elect
  <1>2. StepShape' /\ step'[n].pc \in {"act", "idle"} /\ \A m \in Nodes \ {n} : step'[m] = step[m]
    <2>1. CASE step' = [step EXCEPT ![n] = [pc |-> "act", list |-> step[n].list, winner |-> n]]
      BY <2>1 DEF CandInv, StepShape
    <2>2. CASE step' = [step EXCEPT ![n] = Strategic!NoList]
      BY <2>2 DEF CandInv, StepShape, Strategic!NoList
    <2> QED BY <1>1, <2>1, <2>2, Zenon
  <1>3. ServerShape'
    BY <1>1, Zenon DEF CandInv, ServerShape
  <1>4. ASSUME NEW m \in Nodes PROVE Indexes(m)'
    BY <1>1, <1>2 DEF CandInv, Indexes, Strategic!live
  <1> QED BY <1>2, <1>3, <1>4 DEF CandInv

LEMMA ResultCand ==
  ASSUME StrategicAssumption, CandInv, NEW n \in Nodes, Strategic!UpdateResult(n)
  PROVE  CandInv'
  <1>1. /\ UNCHANGED <<now, index>> /\ step' = [step EXCEPT ![n] = Strategic!NoList]
        /\ cand' = cand \/ cand' = [cand EXCEPT ![n].counted = @ + 1]
    BY Zenon DEF Strategic!UpdateResult
  <1>2. StepShape' /\ step'[n].pc = "idle" /\ \A m \in Nodes \ {n} : step'[m] = step[m]
    BY <1>1 DEF CandInv, StepShape, Strategic!NoList
  <1>3. ServerShape' /\ \A m \in Nodes : cand'[m].until = cand[m].until
    BY <1>1, SMTT(20) DEF CandInv, ServerShape
  <1>4. ASSUME NEW m \in Nodes PROVE Indexes(m)'
    BY <1>1, <1>2, <1>3 DEF CandInv, Indexes, Strategic!live
  <1> QED BY <1>2, <1>3, <1>4 DEF CandInv

LEMMA CandInductive ==
  ASSUME StrategicAssumption
  PROVE  Strategic!Spec => []CandInv
  <1>1. Strategic!Init => CandInv
    BY InitCand, Zenon
  <1>2. CandInv /\ [Strategic!Next]_(Strategic!vars) => CandInv'
    <2> SUFFICES ASSUME CandInv, [Strategic!Next]_(Strategic!vars) PROVE CandInv'
      BY Zenon
    <2>1. CASE UNCHANGED Strategic!vars
      BY <2>1, Zenon DEF CandInv, ServerShape, StepShape, Indexes, Strategic!live, Strategic!vars
    <2>2. CASE Strategic!Next
      BY <2>2, TickCand, RegisterCand, UnregisterCand, UnindexCand, ListCand, ElectCand, ResultCand,
          Zenon DEF Strategic!Next, Strategic!Step
    <2> QED BY <2>1, <2>2, Zenon
  <1> QED BY <1>1, <1>2, PTL DEF Strategic!Spec

\* If every candidate of a strategic elector registers with the same TTL, or there is no index (MongoDB), each one
\* that has not expired is listed.  The index of Redis lives as long as the last registration, which is why
\* LiveCandidatesListed fails for different TTLs.
THEOREM CandidatesListed ==
  ASSUME StrategicAssumption, Indexed => OneTTL
  PROVE  Strategic!Spec => []Strategic!LiveCandidatesListed
  <1>1. ASSUME CandInv PROVE Strategic!LiveCandidatesListed
    <2> SUFFICES ASSUME NEW n \in Nodes, Strategic!live(n) PROVE Strategic!listed(n)
      BY Zenon DEF Strategic!LiveCandidatesListed
    <2>1. Indexes(n) /\ cand[n].until \in Nat /\ index.until \in Nat /\ index.scores[n] \in Nat /\ now \in Nat
      BY <1>1 DEF CandInv, ServerShape
    <2> QED BY <2>1 DEF Indexes, Strategic!live, Strategic!listed, Strategic!Scored
  <1> QED BY <1>1, CandInductive, PTL

\* Only RegisterCandidate prolongs a candidate: listing, electing and a result stored late leave its expiry or end it,
\* whatever TTLs the candidates have (UpdateResult, ListCandidates).
THEOREM CandidatesNeverRevived ==
  ASSUME StrategicAssumption
  PROVE  Strategic!Spec => [][Strategic!NeverRevived]_(Strategic!vars)
  <1>1. ASSUME CandInv, Strategic!Next, NEW n \in Nodes, cand'[n].until > cand[n].until PROVE step[n].pc = "idle"
    <2>1. /\ cand[n].until \in Nat
          /\ \A m \in Nodes : cand[m] \in [until : Nat, at : Nat, score : Scores \cup {0}, counted : Nat]
      BY <1>1 DEF CandInv, ServerShape
    <2>2. cand' # cand
      BY <1>1, <2>1
    <2>3. ASSUME NEW m \in Nodes, Strategic!RegisterCandidate(m) PROVE m = n /\ step[m].pc = "idle"
      BY <1>1, <2>1, <2>3 DEF CandInv, ServerShape, Strategic!RegisterCandidate
    <2>4. ASSUME NEW m \in Nodes, Strategic!UnregisterCandidate(m) PROVE FALSE
      BY <1>1, <2>1, <2>4 DEF CandInv, ServerShape, Strategic!UnregisterCandidate, Strategic!Absent
    <2>5. ASSUME NEW m \in Nodes, Strategic!ListCandidates(m) PROVE FALSE
      <3>1. cand'[n] = cand[n] \/ cand'[n] = Strategic!Absent
        BY <2>5, Zenon DEF Strategic!ListCandidates
      <3> QED BY <1>1, <2>1, <3>1 DEF Strategic!Absent
    <2>6. ASSUME NEW m \in Nodes, Strategic!UpdateResult(m) PROVE FALSE
      BY <1>1, <2>1, <2>6 DEF CandInv, ServerShape, Strategic!UpdateResult
    <2> QED BY <1>1, <2>2, <2>3, <2>4, <2>5, <2>6, Zenon DEF Strategic!Next, Strategic!Tick, Strategic!Step,
        Strategic!UnregisterIndex, Strategic!Elect
  <1>2. CandInv /\ [Strategic!Next]_(Strategic!vars) => [Strategic!NeverRevived]_(Strategic!vars)
    BY <1>1, Zenon DEF Strategic!NeverRevived
  <1> QED BY <1>2, CandInductive, PTL DEF Strategic!Spec

=============================================================================

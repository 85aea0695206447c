--------------------------- MODULE RedisLockProofs ---------------------------
(***************************************************************************)
(* Proofs about the two locks in Redis for any number of clients, attempts  *)
(* and any TTL: the fenced lock of redis/lock (first part), the mutex of    *)
(* lock/redis (second part) and the values of redis/bucket and              *)
(* redis/mapcache (third part).                                             *)
(*                                                                          *)
(* LeaseHoldsLock speaks of leases and of the owner key, which steps of     *)
(* several clients move: the inductive invariant IInv says who may still    *)
(* use a token, that the owner key outlives the lease of its token, and     *)
(* that the counter is the number of the acquisition that wrote the key.    *)
(***************************************************************************)
EXTENDS FencedLock, FiniteSetTheorems, TLAPS

Pcs == {"idle", "acquire", "probe owner", "probe counter", "held"}

\* The types of the variables, without the bounds of a model.
ServerTypes ==
  /\ ttl \in Nat /\ ttl > 0 /\ now \in Nat
  /\ owner \in Nat /\ expiry \in Nat /\ counter \in Nat /\ tokens \in Nat

ClientTypes == pc \in [Clients -> Pcs] /\ token \in [Clients -> Nat]

TokenTypes ==
  /\ since \in [Tokens -> Nat] /\ fence \in [Tokens -> Nat] /\ assigned \in [Tokens -> Nat]
  /\ released \subseteq Tokens

\* Tokens are drawn in order; the owner key holds one of them.
Bounds == tokens <= MaxTokens /\ owner <= tokens

\* A client in a call uses a token it has drawn.
Drawn == \A c \in Clients : token[c] <= tokens /\ (pc[c] # "idle" => token[c] > 0)

\* No two clients use the same token.
Distinct == \A c, d \in Clients : token[c] = token[d] /\ token[c] > 0 => c = d

\* Attempts were dispatched in the past.
Past == \A t \in Tokens : since[t] <= now

\* A token that was not drawn yet has left no trace.
Fresh == \A t \in Tokens : t > tokens => fence[t] = 0 /\ assigned[t] = 0 /\ t \notin released

\* What a client that is about to use its token knows of it.
Call(c) ==
  /\ token[c] \notin released
  /\ pc[c] = "acquire" => assigned[token[c]] = 0
  /\ pc[c] # "held" => fence[token[c]] = 0
  /\ pc[c] \in {"probe counter", "held"} => assigned[token[c]] > 0

Calls == \A c \in Clients : pc[c] # "idle" => Call(c)

\* The owner key outlives the lease of its token.
OwnerKey ==
  owner > 0 => expiry >= since[owner] + ttl /\ expiry > now /\ assigned[owner] = counter /\ counter > 0

\* The key of an acquisition that was not released is there until its lease has ended.
OwnerKept ==
  \A t \in Tokens : assigned[t] > 0 /\ t \notin released /\ now < since[t] + ttl => owner = t

\* Fences are numbers of acquisitions, a reconciled one possibly of a later one than its own.
Fences ==
  \A t \in Tokens : /\ assigned[t] <= counter /\ fence[t] <= counter
                    /\ fence[t] > 0 => assigned[t] > 0 /\ fence[t] >= assigned[t]

Types == ServerTypes /\ ClientTypes /\ TokenTypes

IInv == Types /\ Bounds /\ Drawn /\ Distinct /\ Past /\ Fresh /\ Calls /\ OwnerKey /\ OwnerKept /\ Fences

-----------------------------------------------------------------------------
(* The inductive invariant                                                 *)

\* What membership in Tokens means, as arithmetic.
LEMMA TokensAre == \A t \in Nat : t > 0 /\ t <= MaxTokens => t \in Tokens
  BY FencedAssumption DEF Tokens

\* The same, from the other side.
LEMMA TokensNat == \A t \in Tokens : t \in Nat /\ t > 0 /\ t <= MaxTokens
  BY FencedAssumption DEF Tokens

\* New leaves an empty lock and idle clients.
LEMMA InitIInv == Init => IInv
  BY FencedAssumption, TokensAre DEF Init, IInv, Types, ServerTypes, ClientTypes, TokenTypes, Pcs, Bounds, Drawn, Distinct,
      Past, Fresh, Calls, Call, OwnerKey, OwnerKept, Fences, TTLs, ValidTTL

\* The owner key, and the token of a client in a call, are drawn tokens.
LEMMA OwnerIsToken == IInv => (owner > 0 => owner \in Tokens)
  BY FencedAssumption, TokensAre DEF IInv, Types, ServerTypes, Bounds

\* A client inside TryAcquire, or holding a lease, has a token that was drawn.
LEMMA CallHasToken == ASSUME NEW c \in Clients, IInv, pc[c] # "idle" PROVE token[c] \in Tokens /\ token[c] <= tokens
  BY FencedAssumption, TokensAre DEF IInv, Types, ServerTypes, ClientTypes, Bounds, Drawn

\* An update keeps a function into the numbers one.
LEMMA UpdateTyped ==
  ASSUME NEW S, NEW f \in [S -> Nat], NEW a, NEW b \in Nat
  PROVE  [f EXCEPT ![a] = b] \in [S -> Nat]
  BY Zenon

\* Time passes; the key that expires belongs to a lease that has ended.
LEMMA TickIInv == ASSUME IInv, Tick PROVE IInv'
  <1> USE DEF IInv, Types
  <1>1. now' = now + 1 /\ owner' = (IF expiry <= now + 1 THEN 0 ELSE owner)
    BY Zenon DEF Tick
  <1>2. UNCHANGED <<ttl, expiry, counter, tokens, pc, token, since, fence, assigned, released>>
    BY Zenon DEF Tick, history
  <1>3. ServerTypes' /\ Bounds'
    BY <1>1, <1>2 DEF ServerTypes, Bounds
  <1>4. Past'
    BY <1>1, <1>2 DEF ServerTypes, TokenTypes, Past
  <1>5. OwnerKey'
    BY <1>1, <1>2, OwnerIsToken DEF ServerTypes, TokenTypes, OwnerKey
  <1>6. OwnerKept'
    BY <1>1, <1>2, TokensNat DEF ServerTypes, TokenTypes, OwnerKept, OwnerKey
  <1>7. ClientTypes' /\ TokenTypes' /\ Drawn' /\ Distinct' /\ Fresh' /\ Calls' /\ Fences'
    BY <1>2, Zenon DEF Calls, Call, ClientTypes, Distinct, Drawn, Fences, Fresh, TokenTypes
  <1> QED
    BY <1>3, <1>4, <1>5, <1>6, <1>7, Zenon

\* A new attempt draws a token that no client and no key has used.
LEMMA TryAcquireIInv == ASSUME NEW c \in Clients, IInv, TryAcquire(c) PROVE IInv'
  <1> USE DEF IInv, Types
  <1>1. tokens + 1 \in Tokens /\ tokens' = tokens + 1
    BY TokensAre, FencedAssumption DEF ServerTypes, Bounds, TryAcquire
  <1>2. token' = [token EXCEPT ![c] = tokens + 1] /\ pc' = [pc EXCEPT ![c] = "acquire"]
    BY Zenon DEF TryAcquire, Goto
  <1>3. since' = [since EXCEPT ![tokens + 1] = now]
    BY Zenon DEF TryAcquire
  <1>4. UNCHANGED <<ttl, now, owner, expiry, counter, fence, assigned, released>>
    BY Zenon DEF TryAcquire, server
  <1>5. ServerTypes'
    BY <1>1, <1>4 DEF ServerTypes
  <1>6. pc' \in [Clients -> Pcs]
    BY <1>2, Zenon DEF ClientTypes, Pcs
  <1>7. token' \in [Clients -> Nat]
    BY <1>2 DEF ClientTypes, ServerTypes
  <1>8. since' \in [Tokens -> Nat]
    BY <1>3, Zenon DEF ServerTypes, TokenTypes
  <1>9. \A d \in Clients : /\ token'[d] = IF d = c THEN tokens + 1 ELSE token[d]
                           /\ pc'[d] = IF d = c THEN "acquire" ELSE pc[d]
    BY <1>2, Zenon DEF ClientTypes
  <1>10. \A t \in Tokens : since'[t] = IF t = tokens + 1 THEN now ELSE since[t]
    BY <1>3, Zenon DEF TokenTypes
  <1>11. Bounds'
    BY <1>1, <1>4, TokensNat DEF ServerTypes, Bounds
  <1>12. Drawn'
    BY <1>1, <1>9 DEF ClientTypes, ServerTypes, Drawn
  <1>13. Distinct'
    BY <1>9 DEF ClientTypes, ServerTypes, Distinct, Drawn
  <1>14. Past'
    BY <1>4, <1>10 DEF ServerTypes, TokenTypes, Past
  <1>15. Fresh'
    BY <1>1, <1>4, TokensNat DEF ServerTypes, TokenTypes, Fresh
  <1>16. Calls'
    <2> SUFFICES ASSUME NEW d \in Clients, pc'[d] # "idle" PROVE Call(d)'
      BY Zenon DEF Calls
    <2>1. CASE d = c
      <3>1. fence[tokens + 1] = 0 /\ assigned[tokens + 1] = 0 /\ tokens + 1 \notin released
        BY <1>1 DEF ServerTypes, Fresh
      <3>2. token'[d] = tokens + 1 /\ pc'[d] = "acquire"
        BY <2>1, <1>9, Zenon
      <3> QED
        BY <3>1, <3>2, <1>4, Zenon DEF Call
    <2>2. CASE d # c
      BY <2>2, <1>4, <1>9, Zenon DEF Calls, Call
    <2> QED
      BY <2>1, <2>2, Zenon
  <1>17. OwnerKey'
    BY <1>4, <1>10, OwnerIsToken DEF ServerTypes, TokenTypes, OwnerKey, Bounds
  <1>18. OwnerKept'
    BY <1>1, <1>4, <1>10, TokensNat DEF ServerTypes, TokenTypes, OwnerKept, Fresh
  <1>19. TokenTypes' /\ Fences'
    BY <1>4, <1>8, Zenon DEF Fences, TokenTypes
  <1> QED
    BY <1>5, <1>6, <1>7, <1>11, <1>12, <1>13, <1>14, <1>15, <1>16, <1>17, <1>18, <1>19, Zenon DEF ClientTypes

\* acquireScript run by a client in its call, whatever becomes of the answer.
LEMMA AcquireScriptKeeps ==
  ASSUME NEW c \in Clients, IInv, pc[c] = "acquire", acquireScript(token[c]),
         UNCHANGED <<ttl, now, tokens, token, since, released>>
  PROVE  /\ ServerTypes' /\ Bounds' /\ OwnerKey' /\ OwnerKept' /\ Distinct' /\ Past'
         /\ token' \in [Clients -> Nat] /\ since' \in [Tokens -> Nat] /\ released' \subseteq Tokens
         /\ assigned' \in [Tokens -> Nat]
         /\ \A t \in Tokens : assigned'[t] = IF t = token[c] THEN counter + 1 ELSE assigned[t]
         /\ counter' = counter + 1
  <1> USE DEF IInv, Types
  <1>1. token[c] \in Tokens /\ token[c] <= tokens /\ token[c] \in Nat /\ token[c] > 0
    BY CallHasToken, TokensNat, Zenon
  <1>2. owner = 0 /\ owner' = token[c] /\ expiry' = now + ttl /\ counter' = counter + 1
    BY Zenon DEF acquireScript
  <1>3. assigned' = [assigned EXCEPT ![token[c]] = counter + 1]
    BY Zenon DEF acquireScript
  <1>4. assigned' \in [Tokens -> Nat]
    BY <1>3, UpdateTyped DEF ServerTypes, TokenTypes
  <1>5. \A t \in Tokens : assigned'[t] = IF t = token[c] THEN counter + 1 ELSE assigned[t]
    BY <1>3, Zenon DEF TokenTypes
  <1>6. ServerTypes' /\ Bounds'
    BY <1>1, <1>2 DEF ServerTypes, Bounds
  <1>7. OwnerKey'
    BY <1>1, <1>2, <1>5 DEF ServerTypes, TokenTypes, OwnerKey, Past
  <1>8. OwnerKept'
    BY <1>1, <1>2, <1>5, TokensNat DEF ServerTypes, TokenTypes, OwnerKept
  <1>9. Distinct' /\ Past'
    BY Zenon DEF Distinct, Past
  <1> QED
    BY <1>2, <1>4, <1>5, <1>6, <1>7, <1>8, <1>9, Zenon DEF ClientTypes, TokenTypes

\* acquireScript ran and answered: key, counter and fence are written at once.
LEMMA AcquiredIInv == ASSUME NEW c \in Clients, IInv, Acquired(c) PROVE IInv'
  <1> USE DEF IInv, Types
  <1>1. token[c] \in Tokens /\ token[c] <= tokens /\ token[c] \in Nat /\ token[c] > 0
    BY CallHasToken, TokensNat, Zenon DEF Acquired
  <1>2. /\ pc[c] = "acquire" /\ acquireScript(token[c])
        /\ UNCHANGED <<ttl, now, tokens, token, since, released>>
    BY Zenon DEF Acquired
  <1>3. fence' = [fence EXCEPT ![token[c]] = counter'] /\ pc' = [pc EXCEPT ![c] = "held"]
    BY Zenon DEF Acquired, newLease, Goto
  <1>4. \A t \in Tokens : assigned'[t] = IF t = token[c] THEN counter + 1 ELSE assigned[t]
    BY <1>2, AcquireScriptKeeps, Zenon
  <1>5. counter' = counter + 1
    BY <1>2, Zenon DEF acquireScript
  <1>6. fence' \in [Tokens -> Nat]
    BY <1>3, <1>5, UpdateTyped DEF ServerTypes, TokenTypes
  <1>7. pc' \in [Clients -> Pcs]
    BY <1>3, Zenon DEF ClientTypes, Pcs
  <1>8. \A t \in Tokens : fence'[t] = IF t = token[c] THEN counter + 1 ELSE fence[t]
    BY <1>3, <1>5, Zenon DEF TokenTypes
  <1>9. \A d \in Clients : pc'[d] = IF d = c THEN "held" ELSE pc[d]
    BY <1>3, Zenon DEF ClientTypes
  <1>10. Drawn'
    BY <1>1, <1>2, <1>9, Zenon DEF ClientTypes, ServerTypes, Drawn
  <1>11. Fresh'
    BY <1>1, <1>2, <1>4, <1>8, TokensNat DEF ServerTypes, Fresh
  <1>12. Calls'
    <2> SUFFICES ASSUME NEW d \in Clients, pc'[d] # "idle" PROVE Call(d)'
      BY Zenon DEF Calls
    <2>1. CASE d = c
      <3>1. token[c] \notin released
        BY <1>2, Zenon DEF Calls, Call
      <3>2. assigned'[token[c]] > 0 /\ pc'[c] = "held"
        BY <1>1, <1>4, <1>9 DEF ServerTypes
      <3> QED
        BY <2>1, <3>1, <3>2, <1>2, Zenon DEF Call
    <2>2. CASE d # c
      <3>1. token[d] \in Tokens /\ token[d] # token[c] /\ pc'[d] = pc[d]
        BY <2>2, <1>1, <1>9, CallHasToken, Zenon DEF Distinct
      <3> QED
        BY <3>1, <1>2, <1>4, <1>8, Zenon DEF Calls, Call
    <2> QED
      BY <2>1, <2>2, Zenon
  <1>13. Fences'
    BY <1>4, <1>5, <1>8, SMTT(30) DEF ServerTypes, TokenTypes, Fences
  <1> QED
    BY <1>2, <1>6, <1>7, <1>10, <1>11, <1>12, <1>13, AcquireScriptKeeps, Zenon DEF ClientTypes, TokenTypes

\* AcquireLost when the script was run.
Lost(c) ==
  /\ pc[c] = "acquire"
  /\ acquireScript(token[c])
  /\ Goto(c, "probe owner")
  /\ UNCHANGED <<ttl, now, tokens, token, fence, since, released>>

\* acquireScript may have run, and its answer is lost: TryAcquire goes on to its probes.
LEMMA LostIInv == ASSUME NEW c \in Clients, IInv, Lost(c) PROVE IInv'
  <1> USE DEF IInv, Types
  <1>1. token[c] \in Tokens /\ token[c] <= tokens /\ token[c] \in Nat /\ token[c] > 0
    BY CallHasToken, TokensNat, Zenon DEF Lost
  <1>2. /\ pc[c] = "acquire" /\ acquireScript(token[c])
        /\ UNCHANGED <<ttl, now, tokens, token, since, released>> /\ fence' = fence
    BY Zenon DEF Lost
  <1>3. pc' = [pc EXCEPT ![c] = "probe owner"]
    BY Zenon DEF Lost, Goto
  <1>4. \A t \in Tokens : assigned'[t] = IF t = token[c] THEN counter + 1 ELSE assigned[t]
    BY <1>2, AcquireScriptKeeps, Zenon
  <1>5. counter' = counter + 1
    BY <1>2, Zenon DEF acquireScript
  <1>6. pc' \in [Clients -> Pcs]
    BY <1>3, Zenon DEF ClientTypes, Pcs
  <1>7. \A d \in Clients : pc'[d] = IF d = c THEN "probe owner" ELSE pc[d]
    BY <1>3, Zenon DEF ClientTypes
  <1>8. Drawn'
    BY <1>1, <1>2, <1>7, Zenon DEF ClientTypes, ServerTypes, Drawn
  <1>9. Fresh'
    BY <1>1, <1>2, <1>4, TokensNat DEF ServerTypes, Fresh
  <1>10. fence[token[c]] = 0 /\ token[c] \notin released
    BY <1>2, Zenon DEF Calls, Call
  <1>11. Calls'
    <2> SUFFICES ASSUME NEW d \in Clients, pc'[d] # "idle" PROVE Call(d)'
      BY Zenon DEF Calls
    <2>1. CASE d = c
      BY <2>1, <1>2, <1>7, <1>10, Zenon DEF Call
    <2>2. CASE d # c
      <3>1. token[d] \in Tokens /\ token[d] # token[c] /\ pc'[d] = pc[d]
        BY <2>2, <1>1, <1>7, CallHasToken, Zenon DEF Distinct
      <3> QED
        BY <3>1, <1>2, <1>4, Zenon DEF Calls, Call
    <2> QED
      BY <2>1, <2>2, Zenon
  <1>12. Fences'
    BY <1>2, <1>4, <1>5, <1>10 DEF ServerTypes, TokenTypes, Fences
  <1> QED
    BY <1>2, <1>6, <1>8, <1>9, <1>11, <1>12, AcquireScriptKeeps, Zenon DEF ClientTypes, TokenTypes

\* A client only moves on in its call, or leaves it.
Moves(c, l) ==
  /\ \/ pc[c] # "idle" /\ l = "idle"
     \/ pc[c] = "acquire" /\ l = "probe owner"
     \/ pc[c] = "probe owner" /\ l = "probe counter" /\ owner = token[c]
  /\ Goto(c, l)
  /\ UNCHANGED <<ttl, now, server, tokens, token, fence, history>>

\* A client that only moves on, or gives up, disturbs nothing.
LEMMA MovesIInv == ASSUME NEW c \in Clients, NEW l \in Pcs, IInv, Moves(c, l) PROVE IInv'
  <1> USE DEF IInv, Types
  <1>1. token[c] \in Tokens /\ token[c] \in Nat /\ token[c] > 0 /\ pc[c] # "idle"
    BY CallHasToken, TokensNat, Zenon DEF Moves
  <1>2. pc' = [pc EXCEPT ![c] = l]
    BY Zenon DEF Moves, Goto
  <1>3. UNCHANGED <<ttl, now, owner, expiry, counter, tokens, token, since, fence, assigned, released>>
    BY Zenon DEF Moves, server, history
  <1>4. pc' \in [Clients -> Pcs]
    BY <1>2, Zenon DEF ClientTypes
  <1>5. \A d \in Clients : pc'[d] = IF d = c THEN l ELSE pc[d]
    BY <1>2, Zenon DEF ClientTypes
  <1>6. Drawn'
    BY <1>1, <1>3, <1>5, Zenon DEF ClientTypes, ServerTypes, Drawn
  <1>7. Calls'
    <2> SUFFICES ASSUME NEW d \in Clients, pc'[d] # "idle" PROVE Call(d)'
      BY Zenon DEF Calls
    <2>1. CASE d = c
      <3>1. token[c] \notin released /\ (pc[c] \in {"acquire", "probe owner"} => fence[token[c]] = 0)
        BY <1>1, Zenon DEF Calls, Call
      <3>2. owner = token[c] => assigned[token[c]] > 0
        BY <1>1, Zenon DEF OwnerKey
      <3> QED
        BY <2>1, <3>1, <3>2, <1>3, <1>5, Zenon DEF Moves, Call
    <2>2. CASE d # c
      BY <2>2, <1>3, <1>5, Zenon DEF Calls, Call
    <2> QED
      BY <2>1, <2>2, Zenon
  <1>8. /\ ServerTypes' /\ TokenTypes' /\ Bounds' /\ Distinct' /\ Past' /\ Fresh'
        /\ OwnerKey' /\ OwnerKept' /\ Fences' /\ token' \in [Clients -> Nat]
    BY <1>3, Zenon DEF Bounds, ClientTypes, Distinct, Fences, Fresh, OwnerKept, OwnerKey, Past, ServerTypes, TokenTypes
  <1> QED
    BY <1>4, <1>6, <1>7, <1>8, Zenon DEF ClientTypes

\* ProbeCounter when it finds a counter.
Recover(c) ==
  /\ pc[c] = "probe counter" /\ counter > 0
  /\ newLease(c, counter)
  /\ UNCHANGED <<ttl, now, server, tokens, token, history>>

\* The probes found the owner key with the client's token: the lease is the one the lost answer was about.
LEMMA RecoverIInv == ASSUME NEW c \in Clients, IInv, Recover(c) PROVE IInv'
  <1> USE DEF IInv, Types
  <1>1. token[c] \in Tokens /\ token[c] <= tokens /\ token[c] \in Nat /\ token[c] > 0
    BY CallHasToken, TokensNat, Zenon DEF Recover
  <1>2. fence' = [fence EXCEPT ![token[c]] = counter] /\ pc' = [pc EXCEPT ![c] = "held"]
    BY Zenon DEF Recover, newLease, Goto
  <1>3. UNCHANGED <<ttl, now, owner, expiry, counter, tokens, token, since, assigned, released>>
    BY Zenon DEF Recover, server, history
  <1>4. pc[c] = "probe counter" /\ counter > 0
    BY Zenon DEF Recover
  <1>5. fence' \in [Tokens -> Nat]
    BY <1>2, UpdateTyped, Zenon DEF ServerTypes, TokenTypes
  <1>6. pc' \in [Clients -> Pcs]
    BY <1>2, Zenon DEF ClientTypes, Pcs
  <1>7. \A t \in Tokens : fence'[t] = IF t = token[c] THEN counter ELSE fence[t]
    BY <1>2, Zenon DEF TokenTypes
  <1>8. \A d \in Clients : pc'[d] = IF d = c THEN "held" ELSE pc[d]
    BY <1>2, Zenon DEF ClientTypes
  <1>9. Drawn'
    BY <1>1, <1>3, <1>8, Zenon DEF ClientTypes, ServerTypes, Drawn
  <1>10. Fresh'
    BY <1>1, <1>3, <1>7, TokensNat DEF ServerTypes, Fresh
  <1>11. assigned[token[c]] > 0 /\ token[c] \notin released
    BY <1>4, Zenon DEF Calls, Call
  <1>12. Calls'
    <2> SUFFICES ASSUME NEW d \in Clients, pc'[d] # "idle" PROVE Call(d)'
      BY Zenon DEF Calls
    <2>1. CASE d = c
      BY <2>1, <1>3, <1>8, <1>11, Zenon DEF Call
    <2>2. CASE d # c
      <3>1. token[d] \in Tokens /\ token[d] # token[c] /\ pc'[d] = pc[d]
        BY <2>2, <1>1, <1>8, CallHasToken, Zenon DEF Distinct
      <3> QED
        BY <3>1, <1>3, <1>7, Zenon DEF Calls, Call
    <2> QED
      BY <2>1, <2>2, Zenon
  <1>13. Fences'
    BY <1>3, <1>7, <1>11 DEF ServerTypes, TokenTypes, Fences
  <1>14. /\ ServerTypes' /\ Bounds' /\ Distinct' /\ Past' /\ OwnerKey' /\ OwnerKept'
         /\ token' \in [Clients -> Nat] /\ since' \in [Tokens -> Nat]
         /\ assigned' \in [Tokens -> Nat] /\ released' \subseteq Tokens
    BY <1>3, Zenon DEF Bounds, ClientTypes, Distinct, OwnerKept, OwnerKey, Past, ServerTypes, TokenTypes
  <1> QED
    BY <1>5, <1>6, <1>9, <1>10, <1>12, <1>13, <1>14, Zenon DEF ClientTypes, TokenTypes

\* compareDeleteScript deletes nothing but the key of its token.
LEMMA DeletesOwn == ASSUME NEW c \in Clients, Release(c) PROVE owner' = owner \/ (owner = token[c] /\ owner' = 0)
  <1>1. CASE compareDelete(token[c])
    <2>1. CASE owner = token[c]
      BY <1>1, <2>1, Zenon DEF compareDelete
    <2>2. CASE owner # token[c]
      BY <1>1, <2>2, Zenon DEF compareDelete
    <2> QED
      BY <2>1, <2>2, Zenon
  <1> QED
    BY <1>1, Zenon DEF Release

\* compareDeleteScript deletes the key only if it holds the client's token.
LEMMA ReleaseIInv == ASSUME NEW c \in Clients, IInv, Release(c) PROVE IInv'
  <1> USE DEF IInv, Types
  <1>1. token[c] \in Tokens /\ token[c] <= tokens /\ token[c] \in Nat /\ token[c] > 0
    BY CallHasToken, TokensNat, Zenon DEF Release
  <1>2. owner' = owner \/ (owner = token[c] /\ owner' = 0)
    BY DeletesOwn, Zenon
  <1>3. released' = released \cup {token[c]} /\ pc' = [pc EXCEPT ![c] = "idle"]
    BY Zenon DEF Release, Goto
  <1>4. UNCHANGED <<ttl, now, expiry, counter, tokens, token, since, fence, assigned>>
    BY Zenon DEF Release
  <1>5. pc' \in [Clients -> Pcs]
    BY <1>3, Zenon DEF ClientTypes, Pcs
  <1>6. \A d \in Clients : pc'[d] = IF d = c THEN "idle" ELSE pc[d]
    BY <1>3, Zenon DEF ClientTypes
  <1>7. ServerTypes' /\ Bounds' /\ OwnerKey'
    BY <1>2, <1>4 DEF ServerTypes, Bounds, OwnerKey
  <1>8. TokenTypes'
    BY <1>1, <1>3, <1>4, Zenon DEF TokenTypes
  <1>9. Drawn'
    BY <1>4, <1>6, Zenon DEF ClientTypes, ServerTypes, Drawn
  <1>10. Fresh'
    BY <1>1, <1>3, <1>4, TokensNat DEF ServerTypes, Fresh
  <1>11. Calls'
    <2> SUFFICES ASSUME NEW d \in Clients, pc'[d] # "idle" PROVE Call(d)'
      BY Zenon DEF Calls
    <2>1. token[d] # token[c] /\ pc'[d] = pc[d]
      BY <1>1, <1>6, Zenon DEF Distinct
    <2> QED
      BY <2>1, <1>3, <1>4, Zenon DEF Calls, Call
  <1>12. OwnerKept'
    BY <1>1, <1>2, <1>3, <1>4, Zenon DEF OwnerKept
  <1>13. token' \in [Clients -> Nat] /\ Distinct' /\ Past' /\ Fences'
    BY <1>4, Zenon DEF ClientTypes, Distinct, Past, Fences
  <1> QED
    BY <1>5, <1>7, <1>8, <1>9, <1>10, <1>11, <1>12, <1>13, Zenon DEF ClientTypes

\* Every step keeps the inductive invariant.
LEMMA NextIInv == IInv /\ [Next]_vars => IInv'
  <1> SUFFICES ASSUME IInv, [Next]_vars PROVE IInv'
    BY Zenon
  <1>1. CASE Tick
    BY <1>1, TickIInv, Zenon
  <1>2. ASSUME NEW c \in Clients, Step(c) PROVE IInv'
    <2>1. CASE Busy(c) \/ Abandon(c)
      BY <2>1, MovesIInv, Zenon DEF Busy, Abandon, Moves, Pcs
    <2>2. CASE AcquireLost(c)
      <3>1. CASE acquireScript(token[c])
        BY <2>2, <3>1, LostIInv, Zenon DEF AcquireLost, Lost
      <3>2. CASE UNCHANGED <<server, assigned>>
        BY <2>2, <3>2, MovesIInv, Zenon DEF AcquireLost, Moves, server, history, Pcs
      <3> QED
        BY <2>2, <3>1, <3>2, Zenon DEF AcquireLost
    <2>3. CASE ProbeOwner(c)
      BY <2>3, MovesIInv, Zenon DEF ProbeOwner, Moves, Pcs
    <2>4. CASE ProbeCounter(c)
      BY <2>4, MovesIInv, RecoverIInv, Zenon DEF ProbeCounter, Moves, Recover, Pcs
    <2> QED
      BY <1>2, <2>1, <2>2, <2>3, <2>4, TryAcquireIInv, AcquiredIInv, ReleaseIInv, Zenon DEF Step
  <1>3. CASE UNCHANGED vars
    BY <1>3, Zenon DEF vars, server, history, IInv, Types, ServerTypes, ClientTypes, TokenTypes, Bounds, Drawn, Distinct,
        Past, Fresh, Calls, Call, OwnerKey, OwnerKept, Fences
  <1> QED
    BY <1>1, <1>2, <1>3, Zenon DEF Next

\* The inductive invariant holds in every reachable state of redis/lock.
LEMMA Invariance == Spec => []IInv
  BY InitIInv, NextIInv, PTL DEF Spec

-----------------------------------------------------------------------------
(* What the lock guarantees                                                *)

\* A lease within its TTL whose Release was not called, also one reconciled
\* after a lost answer, is the owner in Redis, whatever the others do.
THEOREM LeaseSafe == Spec => []LeaseHoldsLock
<1>1. IInv => LeaseHoldsLock
  BY DEF IInv, Types, TokenTypes, Fences, OwnerKept, LeaseHoldsLock, Live
<1> QED
  BY <1>1, Invariance, PTL

\* So two leases are never live at once: the lock excludes.
OneLease == \A t, u \in Tokens : Live(t) /\ Live(u) => t = u

\* Two clients never both have a lease of redis/lock whose TTL runs.
THEOREM Exclusion == Spec => []OneLease
<1>1. LeaseHoldsLock => OneLease
  BY Zenon DEF LeaseHoldsLock, OneLease
<1> QED
  BY <1>1, LeaseSafe, PTL

\* The fence of a live lease is at least every fence handed out, so a resource
\* that has seen it refuses every older lease.
THEOREM FenceSafe == Spec => []LiveFenceGreatest
<1>1. IInv => LiveFenceGreatest
  <2> SUFFICES ASSUME IInv, NEW t \in Tokens, Live(t), NEW u \in Tokens PROVE fence[u] <= fence[t]
    BY Zenon DEF LiveFenceGreatest
  <2>1. fence[t] \in Nat /\ fence[u] \in Nat /\ assigned[t] \in Nat /\ counter \in Nat /\ t > 0
    BY TokensNat, Zenon DEF IInv, Types, TokenTypes, ServerTypes
  <2>2. fence[t] >= assigned[t] /\ fence[u] <= counter /\ assigned[t] > 0
    BY <2>1 DEF IInv, Fences, Live
  <2>3. assigned[t] = counter
    BY <2>1, <2>2, Zenon DEF IInv, OwnerKept, OwnerKey, Live
  <2> QED
    BY <2>1, <2>2, <2>3
<1> QED
  BY <1>1, Invariance, PTL

\* An acquisition is numbered above every fence that was handed out before it.
NumberedAbove == [][\A t, u \in Tokens : assigned'[t] # assigned[t] => assigned'[t] > fence[u]]_vars

\* acquireScript increments the fence counter before it hands out the lock: the
\* number of an acquisition is above every fence handed out before it.
THEOREM AcquisitionsNumberedAbove == Spec => NumberedAbove
<1>1. IInv /\ [Next]_vars => [\A t, u \in Tokens : assigned'[t] # assigned[t] => assigned'[t] > fence[u]]_vars
  <2> SUFFICES ASSUME IInv, Next, NEW t \in Tokens, NEW u \in Tokens, assigned'[t] # assigned[t]
               PROVE  assigned'[t] > fence[u]
    BY Zenon DEF vars
  <2>1. PICK c \in Clients : acquireScript(token[c])
    BY Zenon DEF Next, Tick, Step, TryAcquire, Acquired, Busy, AcquireLost, ProbeOwner, ProbeCounter, Release, Abandon,
        history
  <2>2. assigned' = [assigned EXCEPT ![token[c]] = counter + 1]
    BY <2>1, Zenon DEF acquireScript
  <2>3. assigned'[t] = counter + 1
    BY <2>2, Zenon DEF IInv, Types, TokenTypes
  <2> QED
    BY <2>3 DEF IInv, Types, TokenTypes, ServerTypes, Fences
<1> QED
  BY <1>1, Invariance, PTL DEF Spec, NumberedAbove

\* The owner key behaves like the record of the conformance suite's lock:
\* scripts, lost answers, reconciliation and expiry are its acquisitions,
\* releases and ticks, or do not touch it.
THEOREM Refinement == Spec => ImplementsCell
<1>1. Init => Cell!Init
  BY Zenon DEF Init, Cell!Init
<1>2. IInv /\ [Next]_vars => [Cell!Next]_Cell!vars
  <2> SUFFICES ASSUME IInv, [Next]_vars PROVE [Cell!Next]_Cell!vars
    BY Zenon
  <2> USE DEF Cell!vars, Cell!Next, Cell!Tick, Cell!Acquire, Cell!Release, Cell!Expired
  <2>1. ServerTypes /\ (owner > 0 => expiry > now)
    BY Zenon DEF IInv, Types, OwnerKey
  <2>2. CASE Tick
    BY <2>1, <2>2, Zenon DEF Tick, ServerTypes
  <2>3. ASSUME NEW c \in Clients, pc[c] # "idle", acquireScript(token[c]), UNCHANGED <<ttl, now>>
        PROVE  [Cell!Next]_Cell!vars
    <3>1. token[c] \in Tokens /\ token[c] # 0
      BY <2>3, CallHasToken, TokensNat
    <3>2. Cell!Acquire(token[c])
      BY <2>3, <3>1, Zenon DEF acquireScript
    <3> QED
      BY <3>1, <3>2, Zenon
  <2>4. ASSUME NEW c \in Clients, Release(c) PROVE [Cell!Next]_Cell!vars
    <3>1. token[c] \in Tokens /\ token[c] # 0 /\ token[c] > 0
      BY <2>4, CallHasToken, TokensNat DEF Release
    <3>2. UNCHANGED <<ttl, now, expiry>> /\ (owner' = owner \/ (owner = token[c] /\ owner' = 0))
      BY <2>4, DeletesOwn, Zenon DEF Release
    <3>3. CASE owner' = owner
      BY <3>2, <3>3, Zenon
    <3>4. CASE owner = token[c] /\ owner' = 0
      <4>1. Cell!Release(token[c])
        BY <2>1, <3>1, <3>2, <3>4 DEF ServerTypes
      <4> QED
        BY <3>1, <4>1, Zenon
    <3> QED
      BY <3>2, <3>3, <3>4, Zenon
  <2>5. CASE UNCHANGED <<ttl, now, owner, expiry>>
    BY <2>5, Zenon
  <2>6. ASSUME NEW c \in Clients, Step(c) PROVE [Cell!Next]_Cell!vars
    <3>1. CASE Acquired(c) \/ AcquireLost(c)
      BY <3>1, <2>3, <2>5, Zenon DEF Acquired, AcquireLost, server
    <3>2. CASE TryAcquire(c) \/ Busy(c) \/ ProbeOwner(c) \/ ProbeCounter(c) \/ Abandon(c)
      BY <3>2, <2>5, Zenon DEF TryAcquire, Busy, ProbeOwner, ProbeCounter, Abandon, server
    <3> QED
      BY <2>4, <2>6, <3>1, <3>2, SMTT(30) DEF Step
  <2> QED
    BY <2>2, <2>5, <2>6, Zenon DEF Next, vars, server
<1> QED
  BY <1>1, <1>2, Invariance, PTL DEF Spec, ImplementsCell, Cell!Spec

-----------------------------------------------------------------------------
(* The bounds of the types                                                 *)

\* The tokens an acquisition was run for; each is run for once.
Acquisitions == {t \in Tokens : assigned[t] > 0}

Counted == IsFiniteSet(Acquisitions) /\ Cardinality(Acquisitions) = counter

Limits == ttl \in TTLs /\ now <= MaxNow /\ expiry <= MaxNow + MaxTTL

\* acquireScript increments the counter for one token, which it had not numbered before.
LEMMA ScriptCounts ==
  ASSUME NEW c \in Clients, IInv, Counted, pc[c] = "acquire", acquireScript(token[c])
  PROVE  Counted'
  <1>1. token[c] \in Tokens /\ assigned[token[c]] = 0
    BY CallHasToken, Zenon DEF IInv, Calls, Call
  <1>2. assigned' = [assigned EXCEPT ![token[c]] = counter + 1] /\ counter' = counter + 1
    BY Zenon DEF acquireScript
  <1>3. \A t \in Tokens : assigned'[t] = IF t = token[c] THEN counter + 1 ELSE assigned[t]
    BY <1>2, Zenon DEF IInv, Types, TokenTypes
  <1>4. Acquisitions' = Acquisitions \cup {token[c]} /\ token[c] \notin Acquisitions
    BY <1>1, <1>3 DEF Acquisitions, IInv, Types, ServerTypes
  <1> QED
    BY <1>2, <1>4, FS_AddElement, Zenon DEF Counted

\* Every step keeps the counter equal to the number of tokens numbered, within the bounds.
LEMMA NextCounted == IInv /\ Counted /\ Limits /\ [Next]_vars => Counted' /\ Limits'
  <1> SUFFICES ASSUME IInv, Counted, Limits, [Next]_vars PROVE Counted' /\ Limits'
    BY Zenon
  <1>1. ASSUME UNCHANGED <<assigned, counter>> PROVE Counted'
    BY <1>1, Zenon DEF Counted, Acquisitions
  <1>2. ASSUME UNCHANGED <<ttl, now, expiry>> PROVE Limits'
    BY <1>2, Zenon DEF Limits
  <1>3. CASE Tick
    <2>1. Limits'
      BY <1>3, FencedAssumption DEF Tick, Limits, IInv, Types, ServerTypes
    <2> QED
      BY <1>1, <1>3, <2>1, Zenon DEF Tick, history
  <1>4. ASSUME NEW c \in Clients, pc[c] = "acquire", acquireScript(token[c]), UNCHANGED <<ttl, now>>
        PROVE  Counted' /\ Limits'
    <2>1. Limits'
      BY <1>4, FencedAssumption DEF acquireScript, Limits, TTLs, IInv, Types, ServerTypes
    <2> QED
      BY <1>4, <2>1, ScriptCounts, Zenon
  <1>5. ASSUME NEW c \in Clients, Step(c) PROVE Counted' /\ Limits'
    <2>1. CASE Acquired(c) \/ AcquireLost(c)
      BY <2>1, <1>1, <1>2, <1>4, Zenon DEF Acquired, AcquireLost, server
    <2>2. CASE TryAcquire(c) \/ Busy(c) \/ ProbeOwner(c) \/ ProbeCounter(c) \/ Release(c) \/ Abandon(c)
      BY <2>2, <1>1, <1>2, Zenon DEF TryAcquire, Busy, ProbeOwner, ProbeCounter, Release, Abandon, server, history
    <2> QED
      BY <1>5, <2>1, <2>2, Zenon DEF Step
  <1> QED
    BY <1>1, <1>2, <1>3, <1>5, Zenon DEF Next, vars, server, history

\* The variables keep their types: in particular the counter never passes the
\* number of tokens, since no attempt's script is run twice.
THEOREM TypeCorrect == Spec => []TypeOK
<1>1. Init => Counted /\ Limits
  <2> SUFFICES ASSUME Init PROVE Counted /\ Limits
    BY Zenon
  <2>1. Acquisitions = {}
    BY DEF Init, Acquisitions
  <2> QED
    BY <2>1, FS_EmptySet, FencedAssumption DEF Init, Counted, Limits
<1>2. IInv /\ Counted /\ Limits => TypeOK
  <2> SUFFICES ASSUME IInv, Counted, Limits PROVE TypeOK
    BY Zenon
  <2> USE DEF IInv, Types
  <2>1. counter <= MaxTokens
    <3>1. Acquisitions \subseteq Tokens
      BY Zenon DEF Acquisitions
    <3>2. IsFiniteSet(Tokens) /\ Cardinality(Tokens) = MaxTokens
      BY FencedAssumption, FS_Interval DEF Tokens
    <3> QED
      BY <3>1, <3>2, FS_Subset, Zenon DEF Counted
  <2>2. /\ ttl \in TTLs /\ now \in 0..MaxNow /\ owner \in 0..MaxTokens /\ expiry \in 0..(MaxNow + MaxTTL)
        /\ counter \in 0..MaxTokens /\ tokens \in 0..MaxTokens
    BY <2>1, FencedAssumption DEF Limits, ServerTypes, Bounds
  <2>3. pc \in [Clients -> {"idle", "acquire", "probe owner", "probe counter", "held"}]
    BY Zenon DEF ClientTypes, Pcs
  <2>4. token \in [Clients -> 0..MaxTokens]
    BY FencedAssumption DEF ClientTypes, ServerTypes, Bounds, Drawn
  <2>5. \A t \in Tokens : since[t] \in 0..MaxNow
    BY FencedAssumption DEF TokenTypes, ServerTypes, Past, Limits
  <2>6. \A t \in Tokens : fence[t] \in 0..MaxTokens /\ assigned[t] \in 0..MaxTokens
    BY <2>1, FencedAssumption DEF TokenTypes, ServerTypes, Fences
  <2>7. since \in [Tokens -> 0..MaxNow]
    BY <2>5, Zenon DEF TokenTypes
  <2>8. fence \in [Tokens -> 0..MaxTokens] /\ assigned \in [Tokens -> 0..MaxTokens]
    BY <2>6, Zenon DEF TokenTypes
  <2> QED
    BY <2>2, <2>3, <2>4, <2>7, <2>8, Zenon DEF TypeOK, TokenTypes
<1>3. Spec => [](Counted /\ Limits)
  BY <1>1, NextCounted, Invariance, PTL DEF Spec
<1> QED
  BY <1>2, <1>3, Invariance, PTL

-----------------------------------------------------------------------------

VARIABLES opts, clock, key, attempts, call

\* lock/redis
Mutex == INSTANCE RedisMutex

(***************************************************************************)
(* The mutex.  Its key is tied to the attempt that set it: the numbers of   *)
(* the attempts are never used twice, and a call sends its SETNX once       *)
(* (MutexInv).  AmbiguityReported, that every change of the key is one of   *)
(* the lock of the conformance suite, and OthersKept follow.                *)
(***************************************************************************)

\* What the constants of the mutex must be.
MutexAssumption == MaxTTL \in Nat /\ MaxNow \in Nat /\ MaxTokens \in Nat

MutexPcs == {"idle", "set", "probe", "held", "unlock probe"}
Reports == {"ok", "busy", "failed", "unknown", "not sent"}
CallRecords == [pc : MutexPcs, attempt : 0..MaxTokens, report : Reports]

\* The key is the work of one attempt, has its token and has not expired.
KeyInv == key # Mutex!NoKey => key.attempt \in 1..attempts /\ key.token = Mutex!Token(key.attempt) /\ key.expiry > clock

\* A call is made with an attempt of its own, which has set no key before SETNX was sent.
CallInv ==
  \A c \in Clients :
    /\ call[c].attempt \in 0..attempts /\ (call[c].pc # "idle" => call[c].attempt # 0)
    /\ call[c].pc = "set" => key.attempt # call[c].attempt
    /\ \A d \in Clients : call[c].attempt # 0 /\ call[c].attempt = call[d].attempt => c = d

MutexInv == Mutex!TypeOK /\ KeyInv /\ CallInv /\ Mutex!AmbiguityReported

\* What a step may do to the key: SETNX of a fresh attempt, the delete of a client that owns it, or nothing.
KeyStep(c) ==
  \/ key' = key
  \/ /\ key = Mutex!NoKey /\ call[c].pc = "set"
     /\ key' = [token |-> Mutex!Token(call[c].attempt), attempt |-> call[c].attempt, expiry |-> clock + opts.ttl]
  \/ Mutex!Owns(c) /\ call[c].pc = "held" /\ key' = Mutex!NoKey

\* What a step of client c may report.
Reported(c) ==
  \E p \in MutexPcs, r \in Reports :
    /\ call' = [call EXCEPT ![c].pc = p, ![c].report = r]
    /\ p # "set" /\ call[c].pc # "idle"
    /\ p = "idle" /\ r # "unknown" => key' = Mutex!NoKey \/ key'.attempt # call[c].attempt

\* The invariant holds initially.
LEMMA InitMutex ==
  ASSUME MutexAssumption, Mutex!Init
  PROVE  MutexInv
  <1>1. Mutex!TypeOK
    BY DEF Mutex!Init, Mutex!TypeOK, Mutex!NoKey, MutexAssumption
  <1>2. KeyInv
    BY Zenon DEF Mutex!Init, KeyInv
  <1>3. CallInv
    <2>1. \A c \in Clients : call[c].attempt = 0 /\ call[c].pc = "idle"
      BY Zenon DEF Mutex!Init
    <2>2. 0 \in 0..attempts
      BY DEF Mutex!Init
    <2> QED BY <2>1, <2>2, Zenon DEF CallInv
  <1>4. Mutex!AmbiguityReported
    BY Zenon DEF Mutex!Init, Mutex!AmbiguityReported, Mutex!NoKey
  <1> QED BY <1>1, <1>2, <1>3, <1>4, Zenon DEF MutexInv

\* A key has a token exactly if an attempt has set it.
LEMMA TokenOfKey ==
  ASSUME MutexAssumption, MutexInv
  PROVE  /\ key.token = 0 <=> key = Mutex!NoKey
         /\ key.attempt = 0 <=> key = Mutex!NoKey
         /\ key # Mutex!NoKey => key.token \in 1..MaxTokens /\ key.expiry \in Nat /\ key.expiry > clock
  <1>1. Mutex!NoKey.token = 0 /\ Mutex!NoKey.attempt = 0
    BY Zenon DEF Mutex!NoKey
  <1>2. ASSUME key # Mutex!NoKey PROVE key.attempt \in 1..MaxTokens /\ key.token \in 1..MaxTokens /\ key.expiry > clock
        /\ key.expiry \in Nat
    <2>1. key.attempt \in 1..attempts /\ key.token = Mutex!Token(key.attempt) /\ key.expiry > clock
      BY <1>2, Zenon DEF MutexInv, KeyInv
    <2>2. attempts \in 0..MaxTokens /\ key.expiry \in 0..(MaxNow + MaxTTL)
      BY Zenon DEF MutexInv, Mutex!TypeOK
    <2> QED BY <2>1, <2>2 DEF Mutex!Token, MutexAssumption
  <1> QED BY <1>1, <1>2

\* Every step of a client but the first one reports, and does one of these to the key.
LEMMA MutexEffects ==
  ASSUME MutexAssumption, MutexInv, NEW c \in Clients, Mutex!Step(c), ~Mutex!TryLock(c)
  PROVE  UNCHANGED <<opts, clock, attempts>> /\ KeyStep(c) /\ Reported(c)
  <1>1. UNCHANGED <<opts, clock, attempts>>
    BY Zenon DEF Mutex!Step, Mutex!SetAnswered, Mutex!SetLost, Mutex!Reconcile, Mutex!Unlock, Mutex!UnlockLost,
        Mutex!preDispatchCancellation
  <1>2. KeyStep(c)
    BY Zenon DEF KeyStep, Mutex!Step, Mutex!SetAnswered, Mutex!SetLost, Mutex!Reconcile, Mutex!Unlock, Mutex!UnlockLost,
        Mutex!preDispatchCancellation, Mutex!Set, Mutex!CompareDelete
  <1>3. call[c].pc # "idle"
    BY Zenon DEF Mutex!Step, Mutex!SetAnswered, Mutex!SetLost, Mutex!Reconcile, Mutex!Unlock, Mutex!UnlockLost,
        Mutex!preDispatchCancellation
  <1>4. ASSUME NEW k, k = Mutex!NoKey \/ (k = key /\ ~Mutex!Owns(c)) PROVE k = Mutex!NoKey \/ k.attempt # call[c].attempt
    <2>1. CASE key # Mutex!NoKey /\ key.attempt = call[c].attempt
      <3>1. Mutex!Owns(c)
        BY <2>1, TokenOfKey, Zenon DEF Mutex!Owns, MutexInv, KeyInv
      <3> QED BY <1>4, <3>1, Zenon
    <2> QED BY <1>4, <2>1, Zenon
  <1>5. Reported(c)
    <2>1. CASE Mutex!SetAnswered(c)
      <3>1. CASE key = Mutex!NoKey
        BY <1>3, <2>1, <3>1, Zenon DEF Mutex!SetAnswered, Mutex!Becomes, Reported, MutexPcs, Reports
      <3>2. CASE key # Mutex!NoKey
        <4>1. key' = key /\ key'.attempt # call[c].attempt /\ call' = [call EXCEPT ![c].pc = "idle", ![c].report = "busy"]
          BY <2>1, <3>2, Zenon DEF Mutex!SetAnswered, Mutex!Set, Mutex!Becomes, MutexInv, CallInv
        <4> QED BY <1>3, <4>1, Zenon DEF Reported, MutexPcs, Reports
      <3> QED BY <3>1, <3>2, Zenon
    <2>2. CASE Mutex!SetLost(c)
      BY <1>3, <2>2, Zenon DEF Mutex!SetLost, Mutex!Becomes, Reported, MutexPcs, Reports
    <2>3. CASE Mutex!Reconcile(c)
      <3>1. key' = key
        BY <2>3, Zenon DEF Mutex!Reconcile
      <3> QED BY <1>3, <1>4, <2>3, <3>1, Zenon DEF Mutex!Reconcile, Mutex!Becomes, Reported, MutexPcs, Reports
    <2>4. CASE Mutex!Unlock(c)
      <3>1. key' = Mutex!NoKey \/ (key' = key /\ ~Mutex!Owns(c))
        BY <2>4, Zenon DEF Mutex!Unlock, Mutex!CompareDelete
      <3> QED BY <1>3, <1>4, <2>4, <3>1, Zenon DEF Mutex!Unlock, Mutex!Becomes, Reported, MutexPcs, Reports
    <2>5. CASE Mutex!UnlockLost(c) \/ Mutex!preDispatchCancellation(c)
      BY <1>3, <2>5, Zenon DEF Mutex!UnlockLost, Mutex!preDispatchCancellation, Mutex!Becomes, Reported, MutexPcs, Reports
    <2> QED BY <2>1, <2>2, <2>3, <2>4, <2>5, Zenon DEF Mutex!Step
  <1> QED BY <1>1, <1>2, <1>5, Zenon

\* A new attempt has a number that no call and no key has.
LEMMA TryLockMutex ==
  ASSUME MutexAssumption, MutexInv, NEW c \in Clients, Mutex!TryLock(c)
  PROVE  MutexInv'
  <1> DEFINE n == attempts + 1
  <1>1. /\ attempts < MaxTokens /\ attempts \in 0..MaxTokens /\ attempts' = n /\ UNCHANGED <<opts, clock, key>>
        /\ call' = [call EXCEPT ![c] = [pc |-> "set", attempt |-> n, report |-> "ok"]]
        /\ call \in [Clients -> CallRecords]
    BY Zenon DEF Mutex!TryLock, MutexInv, Mutex!TypeOK, CallRecords, MutexPcs, Reports
  <1>2. n \in 1..MaxTokens /\ n \in 0..n /\ n # 0 /\ n \notin 0..attempts /\ \A m \in 0..attempts : m \in 0..n
    BY <1>1 DEF MutexAssumption
  <1> HIDE DEF n
  <1>3. \A d \in Clients : /\ call'[d].attempt = IF d = c THEN n ELSE call[d].attempt
                           /\ call'[d].pc = IF d = c THEN "set" ELSE call[d].pc
                           /\ call'[d].report = IF d = c THEN "ok" ELSE call[d].report
    BY <1>1, Zenon
  <1>4. Mutex!TypeOK'
    <2>1. n \in 0..MaxTokens
      BY <1>2 DEF MutexAssumption
    <2>2. call' \in [Clients -> CallRecords]
      BY <1>1, <2>1, Zenon DEF CallRecords, MutexPcs, Reports
    <2> QED BY <1>1, <2>1, <2>2, Zenon DEF MutexInv, Mutex!TypeOK, CallRecords, MutexPcs, Reports
  <1>5. KeyInv'
    <2>1. KeyInv /\ \A m \in 1..attempts : m \in 1..n
      BY <1>1 DEF MutexInv, n
    <2>2. \A m : Mutex!Token(m)' = Mutex!Token(m)
      BY <1>1, Zenon DEF Mutex!Token
    <2> QED BY <1>1, <2>1, <2>2, Zenon DEF KeyInv
  <1>6. key.attempt # n
    <2>1. key.attempt \in 0..attempts
      <3>1. CASE key = Mutex!NoKey
        BY <1>1, <3>1 DEF Mutex!NoKey
      <3>2. CASE key # Mutex!NoKey
        BY <1>1, <3>2 DEF MutexInv, KeyInv
      <3> QED BY <3>1, <3>2, Zenon
    <2> QED BY <1>2, <2>1, Zenon
  <1>7. CallInv'
    <2>1. \A d \in Clients : call[d].attempt \in 0..attempts
      BY Zenon DEF MutexInv, CallInv
    <2> QED BY <1>1, <1>2, <1>3, <1>6, <2>1, Zenon DEF MutexInv, CallInv
  <1>8. Mutex!AmbiguityReported'
    BY <1>1, <1>3, Zenon DEF MutexInv, Mutex!AmbiguityReported
  <1> QED BY <1>4, <1>5, <1>7, <1>8, Zenon DEF MutexInv

\* The other steps of a client.
LEMMA StepMutex ==
  ASSUME MutexAssumption, MutexInv, NEW c \in Clients,
         UNCHANGED <<opts, clock, attempts>>, KeyStep(c), Reported(c)
  PROVE  MutexInv'
  <1>1. PICK p \in MutexPcs, r \in Reports :
          /\ call' = [call EXCEPT ![c].pc = p, ![c].report = r]
          /\ p # "set" /\ call[c].pc # "idle"
          /\ p = "idle" /\ r # "unknown" => key' = Mutex!NoKey \/ key'.attempt # call[c].attempt
    BY Zenon DEF Reported
  <1>2. /\ call \in [Clients -> CallRecords] /\ opts.ttl \in 1..MaxTTL /\ clock \in 0..MaxNow /\ attempts \in 0..MaxTokens
    <2>1. call \in [Clients -> CallRecords] /\ clock \in 0..MaxNow /\ attempts \in 0..MaxTokens /\ opts \in Mutex!Options
      BY Zenon DEF MutexInv, Mutex!TypeOK, CallRecords, MutexPcs, Reports
    <2>2. opts.ttl \in 1..MaxTTL
      BY <2>1 DEF Mutex!Options, MutexAssumption
    <2> QED BY <2>1, <2>2, Zenon
  <1>3. \A d \in Clients : /\ call'[d].attempt = call[d].attempt
                           /\ call'[d].pc = IF d = c THEN p ELSE call[d].pc
                           /\ call'[d].report = IF d = c THEN r ELSE call[d].report
    BY <1>1, <1>2, Zenon DEF CallRecords
  <1>4. call' \in [Clients -> CallRecords]
    <2> DEFINE x == [call[c] EXCEPT !.pc = p]
               y == [x EXCEPT !.report = r]
    <2>1. call[c] \in CallRecords /\ DOMAIN call = Clients
      BY <1>2, Zenon
    <2>2. x \in CallRecords
      BY <2>1, Zenon DEF CallRecords
    <2>3. y \in CallRecords
      BY <2>2, Zenon DEF CallRecords
    <2>4. call' = [call EXCEPT ![c] = y]
      BY <1>1, <2>1, Zenon
    <2> QED BY <1>2, <2>3, <2>4, Zenon
  <1>5. call[c].attempt \in 1..attempts /\ call[c].attempt \in 1..MaxTokens
    <2>1. call[c].attempt \in 0..attempts /\ call[c].attempt # 0
      BY <1>1, Zenon DEF MutexInv, CallInv
    <2> QED BY <1>2, <2>1 DEF MutexAssumption
  <1> DEFINE k == [token |-> Mutex!Token(call[c].attempt), attempt |-> call[c].attempt, expiry |-> clock + opts.ttl]
             Keys == [token : 0..MaxTokens, attempt : 0..MaxTokens, expiry : 0..(MaxNow + MaxTTL)]
  <1>6. k \in Keys /\ Mutex!NoKey \in Keys /\ k.expiry > clock /\ k.attempt = call[c].attempt
        /\ k.token = Mutex!Token(call[c].attempt)
    <2>1. Mutex!Token(call[c].attempt) \in 0..MaxTokens /\ call[c].attempt \in 0..MaxTokens
      BY <1>5 DEF Mutex!Token, MutexAssumption
    <2>2. clock + opts.ttl \in 0..(MaxNow + MaxTTL) /\ clock + opts.ttl > clock /\ 0 \in 0..(MaxNow + MaxTTL)
          /\ 0 \in 0..MaxTokens
      BY <1>2 DEF MutexAssumption
    <2> QED BY <2>1, <2>2, Zenon DEF Mutex!NoKey
  <1>7. key' = key \/ key' = Mutex!NoKey \/ (key = Mutex!NoKey /\ key' = k /\ call[c].pc = "set")
    BY Zenon DEF KeyStep
  <1> HIDE DEF k, Keys
  <1>8. Mutex!TypeOK'
    <2>1. key' \in Keys
      BY <1>6, <1>7, Zenon DEF MutexInv, Mutex!TypeOK, Keys
    <2> QED BY <1>4, <2>1, Zenon DEF MutexInv, Mutex!TypeOK, CallRecords, MutexPcs, Reports, Keys
  <1>9. KeyInv'
    <2>1. opts' = opts /\ clock' = clock /\ attempts' = attempts
      BY Zenon
    <2>2. \A m : Mutex!Token(m)' = Mutex!Token(m)
      BY <2>1, Zenon DEF Mutex!Token
    <2> QED BY <1>5, <1>6, <1>7, <2>1, <2>2, Zenon DEF MutexInv, KeyInv
  <1>10. Mutex!NoKey.attempt = 0
    BY Zenon DEF Mutex!NoKey
  <1>11. CallInv'
    <2> SUFFICES ASSUME NEW d \in Clients
                 PROVE  /\ call'[d].attempt \in 0..attempts' /\ (call'[d].pc # "idle" => call'[d].attempt # 0)
                        /\ call'[d].pc = "set" => key'.attempt # call'[d].attempt
                        /\ \A f \in Clients : call'[d].attempt # 0 /\ call'[d].attempt = call'[f].attempt => d = f
      BY Zenon DEF CallInv
    <2>1. /\ call[d].attempt \in 0..attempts /\ (call[d].pc # "idle" => call[d].attempt # 0)
          /\ call[d].pc = "set" => key.attempt # call[d].attempt
          /\ \A f \in Clients : call[d].attempt # 0 /\ call[d].attempt = call[f].attempt => d = f
      BY Zenon DEF MutexInv, CallInv
    <2>2. call'[d].pc # "idle" => call'[d].attempt # 0
      <3>1. call[c].attempt # 0
        BY <1>5
      <3> QED BY <1>3, <2>1, <3>1, Zenon
    <2>3. call'[d].pc = "set" => key'.attempt # call'[d].attempt
      BY <1>1, <1>3, <1>6, <1>7, <1>10, <2>1, Zenon
    <2> QED BY <1>3, <2>1, <2>2, <2>3, Zenon
  <1>12. Mutex!AmbiguityReported'
    <2> SUFFICES ASSUME NEW d \in Clients, call'[d].pc = "idle", call'[d].report # "unknown"
                 PROVE  key'.attempt = 0 \/ key'.attempt # call'[d].attempt
      BY Zenon DEF Mutex!AmbiguityReported
    <2>1. CASE d = c
      BY <1>1, <1>3, <1>10, <2>1, Zenon
    <2>2. CASE d # c
      <3>1. key.attempt = 0 \/ key.attempt # call[d].attempt
        BY <1>3, <2>2, Zenon DEF MutexInv, Mutex!AmbiguityReported
      <3>2. call[c].attempt # call[d].attempt
        <4>1. call[c].attempt # 0
          BY <1>5
        <4> QED BY <2>2, <4>1, Zenon DEF MutexInv, CallInv
      <3> QED BY <1>3, <1>6, <1>7, <1>10, <3>1, <3>2, Zenon
    <2> QED BY <2>1, <2>2, Zenon
  <1> QED BY <1>8, <1>9, <1>11, <1>12, Zenon DEF MutexInv

\* Time passes, and takes a key that has expired.
LEMMA TickMutex ==
  ASSUME MutexAssumption, MutexInv, Mutex!Tick
  PROVE  MutexInv'
  <1>1. /\ clock \in 0..MaxNow /\ clock' = clock + 1 /\ clock' \in 0..MaxNow /\ UNCHANGED <<opts, attempts, call>>
        /\ key' = key \/ key' = Mutex!NoKey
        /\ key' # Mutex!NoKey => key.expiry > clock + 1
    <2>1. clock \in 0..MaxNow /\ clock < MaxNow /\ clock' = clock + 1 /\ UNCHANGED <<opts, attempts, call>>
      BY Zenon DEF Mutex!Tick, MutexInv, Mutex!TypeOK
    <2>2. key' = IF key.expiry <= clock + 1 THEN Mutex!NoKey ELSE key
      BY Zenon DEF Mutex!Tick
    <2>3. key.expiry \in 0..(MaxNow + MaxTTL)
      <3>1. key \in [token : 0..MaxTokens, attempt : 0..MaxTokens, expiry : 0..(MaxNow + MaxTTL)]
        BY Zenon DEF MutexInv, Mutex!TypeOK
      <3> QED BY <3>1, Zenon
    <2>4. clock' \in 0..MaxNow
      BY <2>1 DEF MutexAssumption
    <2>5. CASE key.expiry <= clock + 1
      BY <2>1, <2>2, <2>4, <2>5, Zenon
    <2>6. CASE ~(key.expiry <= clock + 1)
      <3>1. key.expiry > clock + 1
        BY <2>1, <2>3, <2>6 DEF MutexAssumption
      <3> QED BY <2>1, <2>2, <2>4, <2>6, <3>1, Zenon
    <2> QED BY <2>5, <2>6, Zenon
  <1>2. /\ Mutex!NoKey \in [token : 0..MaxTokens, attempt : 0..MaxTokens, expiry : 0..(MaxNow + MaxTTL)]
        /\ Mutex!NoKey.attempt = 0
    BY DEF Mutex!NoKey, MutexAssumption
  <1>3. Mutex!TypeOK'
    <2>1. key' \in [token : 0..MaxTokens, attempt : 0..MaxTokens, expiry : 0..(MaxNow + MaxTTL)]
      BY <1>1, <1>2, Zenon DEF MutexInv, Mutex!TypeOK
    <2> QED BY <1>1, <2>1, Zenon DEF MutexInv, Mutex!TypeOK
  <1>4. KeyInv'
    <2>1. \A m : Mutex!Token(m)' = Mutex!Token(m)
      BY <1>1, Zenon DEF Mutex!Token
    <2> QED BY <1>1, <2>1, Zenon DEF MutexInv, KeyInv
  <1>5. CallInv'
    <2>1. \A c \in Clients : call[c].pc = "set" => call[c].attempt # 0
      BY Zenon DEF MutexInv, CallInv
    <2>2. \A c \in Clients : call[c].pc = "set" => key'.attempt # call[c].attempt
      BY <1>1, <1>2, <2>1, Zenon DEF MutexInv, CallInv
    <2> QED BY <1>1, <2>2, Zenon DEF MutexInv, CallInv
  <1>6. Mutex!AmbiguityReported'
    BY <1>1, <1>2, Zenon DEF MutexInv, Mutex!AmbiguityReported
  <1> QED BY <1>3, <1>4, <1>5, <1>6, Zenon DEF MutexInv

\* Every step keeps the invariant.
LEMMA NextMutex ==
  ASSUME MutexAssumption, MutexInv, [Mutex!Next]_(Mutex!vars)
  PROVE  MutexInv'
  <1>1. CASE Mutex!Tick
    BY <1>1, TickMutex, Zenon
  <1>2. ASSUME NEW c \in Clients, Mutex!Step(c) PROVE MutexInv'
    <2>1. CASE Mutex!TryLock(c)
      BY <2>1, TryLockMutex, Zenon
    <2>2. CASE ~Mutex!TryLock(c)
      BY <1>2, <2>2, MutexEffects, StepMutex, Zenon
    <2> QED BY <2>1, <2>2, Zenon
  <1>3. CASE UNCHANGED Mutex!vars
    <2>1. opts' = opts /\ clock' = clock /\ key' = key /\ attempts' = attempts /\ call' = call
      BY <1>3, Zenon DEF Mutex!vars
    <2> QED BY <2>1, Zenon DEF MutexInv, Mutex!TypeOK, KeyInv, CallInv, Mutex!AmbiguityReported, Mutex!Token
  <1> QED BY <1>1, <1>2, <1>3, Zenon DEF Mutex!Next

\* The invariant holds always.
LEMMA MutexInductive ==
  ASSUME MutexAssumption
  PROVE  Mutex!Spec => []MutexInv
  <1>1. Mutex!Init => MutexInv
    BY InitMutex, Zenon
  <1>2. MutexInv /\ [Mutex!Next]_(Mutex!vars) => MutexInv'
    BY NextMutex, Zenon
  <1> QED BY <1>1, <1>2, PTL DEF Mutex!Spec

\* For any clients, TTL and any number of lost answers: a call that did not
\* report an ambiguous outcome and has no lease has left no key behind
\* (TryLock with reconcileOwner, Unlock with preDispatchCancellation).
THEOREM AmbiguityAlwaysReported ==
  ASSUME MutexAssumption
  PROVE  Mutex!Spec => []Mutex!AmbiguityReported
  <1>1. MutexInv => Mutex!AmbiguityReported
    BY Zenon DEF MutexInv
  <1> QED BY <1>1, MutexInductive, PTL

\* Every variable of the mutex keeps its type.
THEOREM MutexTypeCorrect ==
  ASSUME MutexAssumption
  PROVE  Mutex!Spec => []Mutex!TypeOK
  <1>1. MutexInv => Mutex!TypeOK
    BY Zenon DEF MutexInv
  <1> QED BY <1>1, MutexInductive, PTL

\* Every step of the mutex is a step of the lock of the conformance suite, or changes nothing of it.
LEMMA MutexStep ==
  ASSUME MutexAssumption, MutexInv, [Mutex!Next]_(Mutex!vars)
  PROVE  [Mutex!Cell!Next]_(Mutex!Cell!vars)
  <1>1. Mutex!NoKey.token = 0 /\ Mutex!NoKey.expiry = 0
    BY Zenon DEF Mutex!NoKey
  <1>2. CASE Mutex!Tick
    <2>1. clock' = clock + 1 /\ opts' = opts /\ key' = IF key.expiry <= clock + 1 THEN Mutex!NoKey ELSE key
      BY <1>2, Zenon DEF Mutex!Tick
    <2> QED BY <1>1, <2>1, Zenon DEF Mutex!Cell!Next, Mutex!Cell!Tick, Mutex!Cell!Expired
  <1>3. ASSUME NEW c \in Clients, Mutex!TryLock(c) PROVE UNCHANGED Mutex!Cell!vars
    BY <1>3, Zenon DEF Mutex!TryLock, Mutex!Cell!vars
  <1>4. ASSUME NEW c \in Clients, Mutex!Step(c), ~Mutex!TryLock(c) PROVE [Mutex!Cell!Next]_(Mutex!Cell!vars)
    <2>1. UNCHANGED <<opts, clock, attempts>> /\ KeyStep(c)
      BY <1>4, MutexEffects, Zenon
    <2>2. CASE key' = key
      BY <2>1, <2>2, Zenon DEF Mutex!Cell!vars
    <2>3. CASE key = Mutex!NoKey /\ call[c].pc = "set" /\ key' = [token |-> Mutex!Token(call[c].attempt),
          attempt |-> call[c].attempt, expiry |-> clock + opts.ttl]
      <3>1. Mutex!Token(call[c].attempt) \in 1..MaxTokens
        <4>1. call[c].attempt \in 0..attempts /\ call[c].attempt # 0 /\ attempts \in 0..MaxTokens
          BY <2>3, Zenon DEF MutexInv, CallInv, Mutex!TypeOK
        <4> QED BY <4>1 DEF Mutex!Token, MutexAssumption
      <3>2. key'.token = Mutex!Token(call[c].attempt) /\ key'.expiry = clock + opts.ttl
        BY <2>3, Zenon
      <3>3. Mutex!Cell!Acquire(Mutex!Token(call[c].attempt))
        BY <1>1, <2>1, <2>3, <3>2, Zenon DEF Mutex!Cell!Acquire
      <3> QED BY <3>1, <3>3, Zenon DEF Mutex!Cell!Next
    <2>4. CASE Mutex!Owns(c) /\ key' = Mutex!NoKey
      <3>1. key # Mutex!NoKey
        BY <1>1, <2>4, Zenon DEF Mutex!Owns
      <3>2. key.token \in 1..MaxTokens /\ ~(key.expiry <= clock)
        <4>1. key.token \in 1..MaxTokens /\ key.expiry \in Nat /\ key.expiry > clock
          BY <3>1, TokenOfKey, Zenon
        <4>2. clock \in 0..MaxNow
          BY Zenon DEF MutexInv, Mutex!TypeOK
        <4> QED BY <4>1, <4>2 DEF MutexAssumption
      <3>3. Mutex!Cell!Release(key.token)
        BY <1>1, <2>1, <2>4, <3>2, Zenon DEF Mutex!Cell!Release, Mutex!Cell!Expired
      <3> QED BY <3>2, <3>3, Zenon DEF Mutex!Cell!Next
    <2> QED BY <2>1, <2>2, <2>3, <2>4, Zenon DEF KeyStep
  <1>5. CASE UNCHANGED Mutex!vars
    BY <1>5, Zenon DEF Mutex!vars, Mutex!Cell!vars
  <1> QED BY <1>2, <1>3, <1>4, <1>5, Zenon DEF Mutex!Next

\* For any clients and TTL, with random or fixed tokens and whatever answers
\* are lost, lock/redis implements the lock its conformance suite measures it
\* with: SETNX takes the key only while there is none, and only its owner or
\* its expiry removes it.
THEOREM MutexImplementsCell ==
  ASSUME MutexAssumption
  PROVE  Mutex!Spec => Mutex!Cell!Spec
  <1>1. Mutex!Init => Mutex!Cell!Init
    BY DEF Mutex!Init, Mutex!Cell!Init, Mutex!NoKey
  <1>2. MutexInv /\ [Mutex!Next]_(Mutex!vars) => [Mutex!Cell!Next]_(Mutex!Cell!vars)
    BY MutexStep, Zenon
  <1> QED BY <1>1, <1>2, MutexInductive, PTL DEF Mutex!Spec, Mutex!Cell!Spec

\* For any clients: with random tokens an Unlock, however late, deletes the
\* key of its own acquisition or nothing (unlockScript compares the token).
THEOREM UnlockKeepsOthers ==
  ASSUME MutexAssumption
  PROVE  Mutex!Spec => [][Mutex!OthersKept]_(Mutex!vars)
  <1>1. ASSUME MutexInv, [Mutex!Next]_(Mutex!vars), ~UNCHANGED Mutex!vars PROVE Mutex!OthersKept
    <2> SUFFICES ASSUME NEW c \in Clients, call[c].pc = "held", call'[c].pc # "held", key'.attempt # key.attempt,
        ~opts.fixed
                 PROVE  key.attempt = call[c].attempt
      BY Zenon DEF Mutex!OthersKept
    <2>1. call \in [Clients -> CallRecords]
      BY <1>1, Zenon DEF MutexInv, Mutex!TypeOK, CallRecords, MutexPcs, Reports
    <2>2. PICK d \in Clients : Mutex!Step(d)
      BY <1>1, Zenon DEF Mutex!Next, Mutex!Tick
    <2>3. ~Mutex!TryLock(d)
      BY Zenon DEF Mutex!TryLock
    <2>4. KeyStep(d) /\ Reported(d)
      BY <1>1, <2>2, <2>3, MutexEffects, Zenon
    <2>5. d = c
      BY <2>1, <2>4, Zenon DEF Reported, CallRecords
    <2>6. Mutex!Owns(c)
      BY <2>4, <2>5, Zenon DEF KeyStep
    <2>7. key # Mutex!NoKey
      BY <2>6 DEF Mutex!Owns, Mutex!NoKey
    <2>8. key.token = Mutex!Token(key.attempt)
      BY <1>1, <2>7, Zenon DEF MutexInv, KeyInv
    <2> QED BY <2>6, <2>8, Zenon DEF Mutex!Owns, Mutex!Token
  <1>2. MutexInv /\ [Mutex!Next]_(Mutex!vars) => [Mutex!OthersKept]_(Mutex!vars)
    BY <1>1, Zenon
  <1> QED BY <1>2, MutexInductive, PTL DEF Mutex!Spec

-----------------------------------------------------------------------------
(***************************************************************************)
(* redis/bucket and redis/mapcache, for any stores, logical keys, payloads  *)
(* and TTLs.  Every value is distinct: one that is in Redis is there once   *)
(* and was not taken (Untaken), and is of the kind its key names (Kinds).   *)
(***************************************************************************)
INSTANCE Sequences

CONSTANTS Segments, Namespaces, HashTags, Logical, PayloadLimits, MaxSize, MaxValues

VARIABLES db, writes, taken, reply

\* redis/bucket and redis/mapcache
Store == INSTANCE RedisStore WITH Limits <- PayloadLimits

StoreAssumption ==
  /\ Namespaces \subseteq Seq(Segments) /\ HashTags \subseteq Seq(Segments) /\ Logical \subseteq Seq(Segments)
  /\ {"bucket", "map"} \subseteq Segments /\ MaxTTL \in Nat /\ MaxNow \in Nat
  /\ MaxValues \in Nat /\ MaxSize \in Nat /\ PayloadLimits \subseteq Nat

\* The namespaces in use have the same number of segments: a bucket of "a" and a map of "a:bucket" share keys.
SameDepth == \A m, n \in Namespaces : Len(m) = Len(n)

StoreTypes ==
  /\ clock \in 0..MaxNow /\ writes \in 0..MaxValues
  /\ db = [k \in DOMAIN db |-> db[k]]
  /\ DOMAIN db \subseteq Store!Keys /\ \A k \in DOMAIN db : db[k] \in Store!Entries
  /\ taken \in [1..MaxValues -> Nat]

\* A value in Redis was written and not taken, and is there once.
Untaken ==
  /\ \A k \in DOMAIN db : db[k].id <= writes /\ taken[db[k].id] = 0
  /\ \A j, k \in DOMAIN db : db[j].id = db[k].id => j = k
  /\ \A i \in 1..MaxValues : taken[i] <= 1 /\ (i > writes => taken[i] = 0)

\* The value of a key is of the kind of every store that has the key.
Kinds == \A s \in Store!Stores, l \in Logical : Store!KeyOf(s, l) \in DOMAIN db => db[Store!KeyOf(s, l)].kind = s.kind

Replied ==
  /\ reply.outcome \in Store!Outcomes /\ reply.store \in Store!Stores
  /\ SameDepth => Store!KindsSeparate

DataInv == StoreTypes /\ Untaken /\ (SameDepth => Kinds) /\ Store!PersistentIfAsked

StoreInv == DataInv /\ Replied

\* What a call of a store does to a logical key: nothing, a new value, or its removal.
Moved(s, l) ==
  LET k == Store!KeyOf(s, l)
      Given == UNCHANGED taken \/ (k \in DOMAIN db /\ Store!Take(db[k]))
  IN \/ UNCHANGED <<db, taken>> /\ writes' \in {writes, writes + 1} /\ writes' <= MaxValues
     \/ /\ writes < MaxValues /\ writes' = writes + 1 /\ Given
        /\ \E size \in 1..MaxSize, t \in 0..MaxTTL : db' = Store!With(k, Store!Entry(s, size, t))
     \/ UNCHANGED writes /\ db' = Store!Without(k) /\ Given

\* What it reports: nothing read, or the value of that key.
Answered(s, l) ==
  /\ reply'.store = s /\ reply'.outcome \in Store!Outcomes
  /\ reply'.read \in {{}, Store!At(Store!KeyOf(s, l))}

LEMMA Concatenated ==
  \A x, y \in Seq(Segments) :
    /\ x \o y \in Seq(Segments) /\ Len(x) \in Nat /\ Len(x \o y) = Len(x) + Len(y)
    /\ \A i \in 1..Len(y) : (x \o y)[Len(x) + i] = y[i]
  OBVIOUS

LEMMA KindInKey ==
  ASSUME StoreAssumption, NEW s \in Store!Stores, NEW l \in Logical
  PROVE  /\ Len(s.namespace) \in Nat /\ s.kind[1] \in {"bucket", "map"} /\ s.kind = <<s.kind[1]>>
         /\ Store!KeyOf(s, l)[Len(s.namespace) + 1] = s.kind[1]
  <1>1. s.namespace \in Seq(Segments) /\ s.tag \in Seq(Segments) /\ l \in Seq(Segments)
    BY Zenon DEF Store!Stores, StoreAssumption
  <1>2. s.kind \in Seq(Segments) /\ Len(s.kind) = 1 /\ s.kind[1] \in {"bucket", "map"} /\ s.kind = <<s.kind[1]>>
    <2>1. s.kind \in {<<"bucket">>, <<"map">>}
      BY Zenon DEF Store!Stores
    <2>2. \A x \in Segments : <<x>> \in Seq(Segments) /\ Len(<<x>>) = 1 /\ <<x>>[1] = x
      OBVIOUS
    <2> QED BY <2>1, <2>2, Zenon DEF StoreAssumption
  <1> DEFINE a == s.namespace \o s.kind
             b == a \o s.tag
             n == Len(s.namespace)
  <1>3. n \in Nat /\ a \in Seq(Segments) /\ Len(a) = n + 1 /\ a[n + 1] = s.kind[1]
    <2>1. 1 \in 1..Len(s.kind)
      BY <1>2
    <2> QED BY <1>1, <1>2, <2>1, Concatenated, Zenon
  <1> HIDE DEF a, n
  <1>4. b \in Seq(Segments) /\ Len(b) >= n + 1 /\ b[n + 1] = s.kind[1]
    BY <1>1, <1>3
  <1> HIDE DEF b
  <1>5. (b \o l)[n + 1] = s.kind[1]
    BY <1>1, <1>3, <1>4
  <1> QED BY <1>2, <1>3, <1>5 DEF a, b, n, Store!KeyOf

\* With namespaces of one depth a key has one kind.
LEMMA OneKind ==
  ASSUME StoreAssumption, SameDepth, NEW s \in Store!Stores, NEW l \in Logical, NEW t \in Store!Stores, NEW m \in Logical,
         Store!KeyOf(s, l) = Store!KeyOf(t, m)
  PROVE  s.kind = t.kind
  <1>1. Len(s.namespace) = Len(t.namespace)
    BY DEF SameDepth, Store!Stores
  <1>2. s.kind[1] = t.kind[1]
    BY <1>1, KindInKey
  <1> QED BY <1>2, KindInKey, Zenon

LEMMA TakeKeeps ==
  ASSUME StoreAssumption, StoreTypes, Untaken, NEW k \in DOMAIN db, Store!Take(db[k])
  PROVE  /\ taken' \in [1..MaxValues -> Nat] /\ db[k].id \in 1..MaxValues /\ taken'[db[k].id] = 1
         /\ \A i \in 1..MaxValues : i # db[k].id => taken'[i] = taken[i]
  <1>1. db[k].id \in 1..MaxValues
    BY DEF StoreTypes, Store!Entries
  <1> QED BY <1>1 DEF Store!Take, StoreTypes, Untaken

LEMMA EntryTyped ==
  ASSUME StoreAssumption, StoreTypes, NEW s \in Store!Stores, NEW size \in 1..MaxSize, NEW t \in 0..MaxTTL,
         writes < MaxValues
  PROVE  LET e == Store!Entry(s, size, t)
         IN e \in Store!Entries /\ e.id = writes + 1 /\ e.kind = s.kind /\ (e.expiry = 0 => e.asked = 0)
  <1>1. s.kind \in {<<"bucket">>, <<"map">>}
    BY Zenon DEF Store!Stores
  <1>2. Store!normalizeTTL(t) \in 0..t /\ (Store!normalizeTTL(t) = 0 => t = 0)
    BY DEF Store!normalizeTTL, StoreAssumption
  <1>3. clock + Store!normalizeTTL(t) \in 0..(MaxNow + MaxTTL) /\ 0 \in 0..(MaxNow + MaxTTL)
        /\ (Store!normalizeTTL(t) # 0 => clock + Store!normalizeTTL(t) # 0)
    BY <1>2 DEF StoreTypes, StoreAssumption
  <1>4. writes + 1 \in 1..MaxValues /\ size \in 0..MaxSize
    BY DEF StoreTypes, StoreAssumption
  <1> QED BY <1>1, <1>2, <1>3, <1>4, Zenon DEF Store!Entry, Store!Entries

LEMMA MovedKeeps ==
  ASSUME StoreAssumption, DataInv, NEW s \in Store!Stores, NEW l \in Logical, Moved(s, l), clock' = clock
  PROVE  DataInv'
  <1> USE DEF DataInv
  <1> DEFINE k == Store!KeyOf(s, l)
  <1>k. k \in Store!Keys
    BY DEF Store!Keys
  <1>o. ASSUME SameDepth, NEW u \in Store!Stores, NEW m \in Logical, Store!KeyOf(u, m) = k PROVE u.kind = s.kind
    BY <1>o, OneKind, Zenon
  <1>n. writes \in Nat /\ writes' \in 0..MaxValues /\ writes <= writes'
    BY SMTT(20) DEF Moved, StoreTypes, StoreAssumption
  <1>1. CASE UNCHANGED <<db, taken>>
    <2>1. StoreTypes' /\ Untaken'
      BY <1>1, <1>n DEF StoreTypes, Untaken, Store!Entries
    <2>2. (SameDepth => Kinds)' /\ Store!PersistentIfAsked'
      BY <1>1, Zenon DEF Kinds, SameDepth, Store!PersistentIfAsked
    <2> QED BY <2>1, <2>2
  <1>2. ASSUME UNCHANGED taken \/ (k \in DOMAIN db /\ Store!Take(db[k]))
        PROVE  /\ taken' \in [1..MaxValues -> Nat]
               /\ \A i \in 1..MaxValues : taken'[i] <= 1 /\ (i > writes => taken'[i] = 0)
               /\ \A j \in DOMAIN db : j # k => taken'[db[j].id] = 0
    <2>1. CASE UNCHANGED taken
      BY <2>1 DEF StoreTypes, Untaken
    <2>2. CASE k \in DOMAIN db /\ Store!Take(db[k])
      <3>1. db[k].id <= writes /\ \A j \in DOMAIN db : db[j].id \in 1..MaxValues /\ (j # k => db[j].id # db[k].id)
        BY <2>2 DEF StoreTypes, Untaken, Store!Entries
      <3> QED BY <2>2, <3>1, <1>n, TakeKeeps DEF Untaken
    <2> QED BY <1>2, <2>1, <2>2
  <1>3. ASSUME NEW size \in 1..MaxSize, NEW t \in 0..MaxTTL, writes < MaxValues, writes' = writes + 1,
               db' = Store!With(k, Store!Entry(s, size, t)), UNCHANGED taken \/ (k \in DOMAIN db /\ Store!Take(db[k]))
        PROVE  DataInv'
    <2> DEFINE e == Store!Entry(s, size, t)
    <2>1. e \in Store!Entries /\ e.id = writes + 1 /\ e.kind = s.kind /\ (e.expiry = 0 => e.asked = 0)
      BY <1>3, EntryTyped, Zenon
    <2> HIDE DEF e, k
    <2>2. /\ DOMAIN db' = DOMAIN db \cup {k} /\ db'[k] = e /\ db' = [j \in DOMAIN db' |-> db'[j]]
          /\ \A j \in DOMAIN db : j # k => db'[j] = db[j]
      BY <1>3, Zenon DEF Store!With, e, k
    <2>3. StoreTypes'
      BY <1>2, <1>3, <1>k, <1>n, <2>1, <2>2, Zenon DEF StoreTypes, k
    <2>4. Untaken'
      <3>1. \A j \in DOMAIN db : db[j].id \in Nat /\ db[j].id <= writes
        BY DEF StoreTypes, Untaken, Store!Entries
      <3>2. \A j \in DOMAIN db' : j = k \/ (j \in DOMAIN db /\ j # k /\ db'[j] = db[j])
        BY <2>2, Zenon
      <3>3. taken'[writes + 1] = 0
        BY <1>2, <1>3, <1>n, SMTT(20) DEF StoreTypes, StoreAssumption, k
      <3>4. \A j \in DOMAIN db' : db'[j].id <= writes' /\ taken'[db'[j].id] = 0
        BY <1>2, <1>3, <1>n, <2>1, <2>2, <3>1, <3>2, <3>3, SMTT(20) DEF k
      <3>5. \A i, j \in DOMAIN db' : db'[i].id = db'[j].id => i = j
        BY <1>n, <2>1, <2>2, <3>1, <3>2, SMTT(20) DEF Untaken
      <3>6. \A i \in 1..MaxValues : taken'[i] <= 1 /\ (i > writes' => taken'[i] = 0)
        BY <1>2, <1>3, <1>n DEF k
      <3> QED BY <3>4, <3>5, <3>6 DEF Untaken
    <2>5. (SameDepth => Kinds)'
      <3> SUFFICES ASSUME SameDepth, NEW u \in Store!Stores, NEW m \in Logical, Store!KeyOf(u, m) \in DOMAIN db'
                   PROVE  db'[Store!KeyOf(u, m)].kind = u.kind
        BY Zenon DEF Kinds, SameDepth
      <3>1. CASE Store!KeyOf(u, m) = k
        BY <3>1, <1>o, <2>1, <2>2, Zenon DEF k
      <3>2. CASE Store!KeyOf(u, m) # k
        BY <3>2, <2>2, Zenon DEF Kinds
      <3> QED BY <3>1, <3>2, Zenon
    <2>6. Store!PersistentIfAsked'
      BY <2>1, <2>2, Zenon DEF Store!PersistentIfAsked
    <2> QED BY <2>3, <2>4, <2>5, <2>6, Zenon
  <1>4. ASSUME UNCHANGED writes, db' = Store!Without(k), UNCHANGED taken \/ (k \in DOMAIN db /\ Store!Take(db[k]))
        PROVE  DataInv'
    <2> HIDE DEF k
    <2>1. /\ DOMAIN db' = DOMAIN db \ {k} /\ db' = [j \in DOMAIN db' |-> db'[j]]
          /\ \A j \in DOMAIN db' : j # k /\ db'[j] = db[j]
      BY <1>4, Zenon DEF Store!Without, k
    <2>2. StoreTypes'
      BY <1>2, <1>4, <2>1, Zenon DEF StoreTypes, k
    <2>3. Untaken'
      BY <1>2, <1>4, <2>1 DEF Untaken, k
    <2>4. (SameDepth => Kinds)' /\ Store!PersistentIfAsked'
      BY <2>1, Zenon DEF Kinds, SameDepth, Store!PersistentIfAsked
    <2> QED BY <2>2, <2>3, <2>4, Zenon
  <1> QED BY <1>1, <1>3, <1>4, Zenon DEF Moved

\* A command takes effect or not, and the caller is told what it read or nothing.
LEMMA FinishAnswers ==
  ASSUME NEW s, NEW l, NEW op, NEW read \in {{}, Store!At(Store!KeyOf(s, l))}, NEW ACTION effect,
         NEW outcome \in Store!Outcomes, Store!finishMutation(s, op, read, effect, outcome)
  PROVE  (effect \/ UNCHANGED <<db, taken>>) /\ Answered(s, l) /\ reply'.op = op
  <1>1. "unknown" \in Store!Outcomes /\ "cancelled" \in Store!Outcomes
    BY Zenon DEF Store!Outcomes
  <1> QED BY <1>1 DEF Store!finishMutation, Store!Report, Answered

LEMMA CallMoves ==
  ASSUME StoreAssumption, StoreTypes, NEW s \in Store!Stores, NEW l \in Logical, Store!Call(s, l)
  PROVE  clock' = clock /\ Moved(s, l) /\ Answered(s, l)
  <1> DEFINE k == Store!KeyOf(s, l)
  <1>n. writes \in 0..MaxValues /\ (writes < MaxValues => writes + 1 <= MaxValues) /\ writes <= MaxValues
    BY DEF StoreTypes, StoreAssumption
  <1>o. {"ok", "false", "too large", "unknown"} \subseteq Store!Outcomes
    BY DEF Store!Outcomes
  <1>1. CASE Store!Get(s, l)
    <2>1. UNCHANGED <<clock, db, writes, taken>>
      BY <1>1, Zenon DEF Store!Get
    <2>2. Answered(s, l)
      <3>1. PICK read \in {{}, Store!At(k)}, out \in Store!Outcomes : Store!Report(s, "get", read, out)
        BY <1>1, <1>o, Zenon DEF Store!Get
      <3> QED BY <3>1 DEF Store!Report, Answered
    <2> QED BY <1>n, <2>1, <2>2, Zenon DEF Moved
  <1>2. CASE Store!GetAndDelete(s, l)
    <2>1. UNCHANGED <<clock, writes>>
      BY <1>2, Zenon DEF Store!GetAndDelete
    <2>2. CASE Store!finishMutation(s, "get-and-delete", Store!At(k), Store!getAndDeleteScript(s, k), "ok")
      <3>1. Store!getAndDeleteScript(s, k) \/ UNCHANGED <<db, taken>>
        BY <2>2, Zenon DEF Store!finishMutation
      <3>2. Answered(s, l)
        <4>1. PICK read \in {{}, Store!At(k)}, out \in {"ok", "unknown", "cancelled"} :
                Store!Report(s, "get-and-delete", read, out)
          BY <2>2, Zenon DEF Store!finishMutation
        <4> QED BY <4>1, Zenon DEF Store!Report, Answered, Store!Outcomes
      <3> QED BY <1>n, <2>1, <3>1, <3>2, Zenon DEF Moved, Store!getAndDeleteScript
    <2>3. CASE \E out \in Store!Outcomes : Store!finishMutation(s, "get-and-delete", {}, UNCHANGED <<db, taken>>, out)
      <3>1. UNCHANGED <<db, taken>> /\ Answered(s, l)
        BY <2>3, FinishAnswers, Zenon
      <3> QED BY <1>n, <2>1, <3>1, Zenon DEF Moved
    <2> QED BY <1>2, <1>o, <2>2, <2>3, Zenon DEF Store!GetAndDelete
  <1>3. CASE Store!Delete(s, l)
    <2>1. UNCHANGED <<clock, writes>>
      BY <1>3, Zenon DEF Store!Delete
    <2>2. ((db' = Store!Without(k) /\ UNCHANGED taken) \/ UNCHANGED <<db, taken>>) /\ Answered(s, l)
      BY <1>3, <1>o, FinishAnswers, Zenon DEF Store!Delete
    <2> QED BY <1>n, <2>1, <2>2, Zenon DEF Moved
  <1>4. ASSUME NEW size \in 1..MaxSize, NEW t \in 0..MaxTTL, Store!Set(s, l, size, t)
        PROVE  clock' = clock /\ Moved(s, l) /\ Answered(s, l)
    <2>1. clock' = clock /\ writes < MaxValues /\ writes' = writes + 1
      BY <1>4, Zenon DEF Store!Set, Store!prepareWrite
    <2>2. /\ (db' = Store!With(k, Store!Entry(s, size, t)) /\ UNCHANGED taken) \/ UNCHANGED <<db, taken>>
          /\ Answered(s, l)
      BY <1>4, <1>o, FinishAnswers, Zenon DEF Store!Set
    <2> QED BY <1>n, <2>1, <2>2, Zenon DEF Moved
  <1>5. ASSUME NEW size \in 1..MaxSize, NEW t \in 0..MaxTTL, Store!SetIfAbsent(s, l, size, t)
        PROVE  clock' = clock /\ Moved(s, l) /\ Answered(s, l)
    <2>1. clock' = clock /\ writes < MaxValues /\ writes' = writes + 1
      BY <1>5, Zenon DEF Store!SetIfAbsent, Store!prepareWrite
    <2>2. /\ (db' = Store!With(k, Store!Entry(s, size, t)) /\ UNCHANGED taken) \/ UNCHANGED <<db, taken>>
          /\ Answered(s, l)
      BY <1>5, <1>o, FinishAnswers, Zenon DEF Store!SetIfAbsent
    <2> QED BY <1>n, <2>1, <2>2, Zenon DEF Moved
  <1>6. ASSUME NEW id \in 1..writes, NEW size \in 1..MaxSize, NEW t \in 0..MaxTTL, Store!CompareAndSet(s, l, id, size, t)
        PROVE  clock' = clock /\ Moved(s, l) /\ Answered(s, l)
    <2>1. clock' = clock /\ writes < MaxValues /\ writes' = writes + 1
      BY <1>6, Zenon DEF Store!CompareAndSet, Store!prepareWrite
    <2>2. CASE /\ k \in DOMAIN db
               /\ Store!finishMutation(s, "compare-and-set", Store!At(k),
                                       db' = Store!With(k, Store!Entry(s, size, t)) /\ Store!Take(db[k]), "ok")
      <3>1. /\ (db' = Store!With(k, Store!Entry(s, size, t)) /\ Store!Take(db[k])) \/ UNCHANGED <<db, taken>>
            /\ Answered(s, l)
        BY <2>2, <1>o, FinishAnswers, Zenon
      <3> QED BY <1>n, <2>1, <2>2, <3>1, Zenon DEF Moved
    <2>3. CASE \E out \in Store!Outcomes : Store!finishMutation(s, "compare-and-set", {}, UNCHANGED <<db, taken>>, out)
      <3>1. UNCHANGED <<db, taken>> /\ Answered(s, l)
        BY <2>3, FinishAnswers, Zenon
      <3> QED BY <1>n, <2>1, <3>1, Zenon DEF Moved
    <2> QED BY <1>6, <1>o, <2>2, <2>3, Zenon DEF Store!CompareAndSet
  <1> QED BY <1>1, <1>2, <1>3, <1>4, <1>5, <1>6, Zenon DEF Store!Call

LEMMA TickKeepsStore ==
  ASSUME StoreAssumption, StoreInv, Store!Tick
  PROVE  StoreInv'
  <1> USE DEF StoreInv, DataInv
  <1>1. clock' \in 0..MaxNow /\ UNCHANGED <<writes, taken, reply>>
    BY DEF Store!Tick, StoreTypes, StoreAssumption
  <1>2. /\ DOMAIN db' \subseteq DOMAIN db /\ db' = [k \in DOMAIN db' |-> db'[k]]
        /\ \A k \in DOMAIN db' : db'[k] = db[k]
    BY Zenon DEF Store!Tick
  <1>3. StoreTypes'
    BY <1>1, <1>2, Zenon DEF StoreTypes
  <1>u. Untaken'
    BY <1>1, <1>2 DEF Untaken
  <1>4. (SameDepth => Kinds)' /\ Store!PersistentIfAsked' /\ Replied'
    BY <1>1, <1>2, Zenon DEF Kinds, SameDepth, Store!PersistentIfAsked, Replied, Store!KindsSeparate
  <1> QED BY <1>3, <1>u, <1>4, Zenon

LEMMA CallKeeps ==
  ASSUME StoreAssumption, StoreInv, NEW s \in Store!Stores, NEW l \in Logical, Store!Call(s, l)
  PROVE  StoreInv'
  <1>1. clock' = clock /\ Moved(s, l) /\ Answered(s, l)
    BY CallMoves, Zenon DEF StoreInv, DataInv
  <1>2. DataInv'
    BY <1>1, MovedKeeps, Zenon DEF StoreInv
  <1>3. SameDepth => \A e \in Store!At(Store!KeyOf(s, l)) : e.kind = s.kind
    BY Zenon DEF StoreInv, DataInv, Kinds, Store!At
  <1>4. Replied'
    BY <1>1, <1>3, Zenon DEF Replied, Answered, SameDepth, Store!KindsSeparate
  <1> QED BY <1>2, <1>4, Zenon DEF StoreInv

LEMMA StoreInductive ==
  ASSUME StoreAssumption
  PROVE  Store!Spec => []StoreInv
  <1>1. Store!Init => StoreInv
    <2> SUFFICES ASSUME Store!Init PROVE StoreInv
      BY Zenon
    <2>1. DOMAIN db = {} /\ db = [k \in DOMAIN db |-> db[k]]
      BY DEF Store!Init
    <2>2. StoreTypes /\ Untaken
      BY <2>1 DEF Store!Init, StoreTypes, Untaken, StoreAssumption
    <2>3. Kinds /\ Store!PersistentIfAsked
      BY <2>1, Zenon DEF Kinds, Store!PersistentIfAsked
    <2>4. Replied
      BY Zenon DEF Store!Init, Replied, Store!KindsSeparate, Store!Outcomes
    <2> QED BY <2>2, <2>3, <2>4, Zenon DEF StoreInv, DataInv
  <1>2. StoreInv /\ [Store!Next]_(Store!vars) => StoreInv'
    <2> SUFFICES ASSUME StoreInv, [Store!Next]_(Store!vars) PROVE StoreInv'
      BY Zenon
    <2>1. CASE UNCHANGED Store!vars
      BY <2>1, Zenon DEF StoreInv, DataInv, StoreTypes, Untaken, Kinds, SameDepth, Store!PersistentIfAsked, Replied,
         Store!KindsSeparate, Store!vars
    <2>2. CASE Store!Next
      BY <2>2, TickKeepsStore, CallKeeps, Zenon DEF Store!Next
    <2> QED BY <2>1, <2>2, Zenon
  <1> QED BY <1>1, <1>2, PTL DEF Store!Spec

\* For any stores, keys, sizes and TTLs and whatever answers are lost: GetAndDelete and CompareAndSet of redis/bucket and
\* redis/mapcache hand out every written value at most once.
THEOREM ValuesTakenOnce ==
  ASSUME StoreAssumption
  PROVE  Store!Spec => []Store!TakenOnce
  <1>1. StoreInv => Store!TakenOnce
    BY Zenon DEF StoreInv, DataInv, Untaken, Store!TakenOnce
  <1> QED BY <1>1, StoreInductive, PTL

\* Buckets and maps whose namespaces have the same number of segments never return each other's values, whatever
\* segments the logical keys contain: the structural segment of KeyBuilder stands at one place of all keys.
THEOREM KindsKeptApart ==
  ASSUME StoreAssumption, SameDepth
  PROVE  Store!Spec => []Store!KindsSeparate
  <1>1. StoreInv => Store!KindsSeparate
    BY Zenon DEF StoreInv, Replied
  <1> QED BY <1>1, StoreInductive, PTL

\* No TTL that normalizeTTL rounds makes a value persistent: only a TTL of 0 does.
THEOREM PersistentOnlyIfAsked ==
  ASSUME StoreAssumption
  PROVE  Store!Spec => []Store!PersistentIfAsked
  <1>1. StoreInv => Store!PersistentIfAsked
    BY Zenon DEF StoreInv, DataInv
  <1> QED BY <1>1, StoreInductive, PTL

\* A GetAndDelete or CompareAndSet never changes a value over the limit of its store, whatever it reports; only time may
\* end it.
THEOREM OversizeAlwaysKept ==
  ASSUME StoreAssumption
  PROVE  Store!Spec => [][clock' = clock => Store!OversizeKept]_(Store!vars)
  <1>1. ASSUME StoreInv, Store!Next, clock' = clock PROVE Store!OversizeKept
    <2>1. ~Store!Tick
      BY <1>1 DEF Store!Tick, StoreInv, DataInv, StoreTypes, StoreAssumption
    <2>2. PICK s \in Store!Stores, l \in Logical : Store!Call(s, l)
      BY <1>1, <2>1, Zenon DEF Store!Next
    <2> DEFINE k == Store!KeyOf(s, l)
    <2>3. reply'.store = s
      BY <1>1, <2>2, CallMoves, Zenon DEF StoreInv, DataInv, Answered
    <2>s. s.limit \in Int /\ \A j \in DOMAIN db : db[j].size \in Int
      BY <1>1 DEF StoreInv, DataInv, StoreTypes, Store!Entries, Store!Stores, StoreAssumption
    <2>4. ASSUME UNCHANGED db PROVE Store!OversizeKept
      BY <2>4, Zenon DEF Store!OversizeKept
    <2>5. ASSUME k \in DOMAIN db, db[k].size <= s.limit, \A j \in DOMAIN db : j # k => j \in DOMAIN db' /\ db'[j] = db[j]
          PROVE  Store!OversizeKept
      BY <2>3, <2>s, <2>5 DEF Store!OversizeKept
    <2>6. ASSUME reply'.op \notin {"get-and-delete", "compare-and-set"} PROVE Store!OversizeKept
      BY <2>6, Zenon DEF Store!OversizeKept
    <2>7. CASE Store!Get(s, l)
      BY <2>7, <2>4, Zenon DEF Store!Get
    <2>8. CASE Store!GetAndDelete(s, l)
      <3>1. UNCHANGED db \/ Store!getAndDeleteScript(s, k)
        BY <2>8, Zenon DEF Store!GetAndDelete, Store!finishMutation
      <3>2. CASE Store!getAndDeleteScript(s, k)
        BY <3>2, <2>5, Zenon DEF Store!getAndDeleteScript, Store!Without
      <3> QED BY <3>1, <3>2, <2>4, Zenon
    <2>9. CASE Store!Delete(s, l)
      <3>1. PICK r, o : Store!Report(s, "delete", r, o)
        BY <2>9, Zenon DEF Store!Delete, Store!finishMutation
      <3> QED BY <3>1, <2>6 DEF Store!Report
    <2>10. ASSUME NEW size, NEW t, Store!Set(s, l, size, t) \/ Store!SetIfAbsent(s, l, size, t) PROVE Store!OversizeKept
      <3>1. PICK op \in {"set", "set-if-absent"} : \E r, o : Store!Report(s, op, r, o)
        BY <2>10, Zenon DEF Store!Set, Store!SetIfAbsent, Store!finishMutation
      <3> QED BY <3>1, <2>6 DEF Store!Report
    <2>11. ASSUME NEW id, NEW size, NEW t, Store!CompareAndSet(s, l, id, size, t) PROVE Store!OversizeKept
      <3>1. UNCHANGED db \/ (k \in DOMAIN db /\ db[k].size <= s.limit /\ db' = Store!With(k, Store!Entry(s, size, t)))
        BY <2>11, Zenon DEF Store!CompareAndSet, Store!finishMutation
      <3>2. CASE k \in DOMAIN db /\ db[k].size <= s.limit /\ db' = Store!With(k, Store!Entry(s, size, t))
        BY <3>2, <2>5, Zenon DEF Store!With
      <3> QED BY <3>1, <3>2, <2>4, Zenon
    <2> QED BY <2>2, <2>7, <2>8, <2>9, <2>10, <2>11, Zenon DEF Store!Call
  <1>2. StoreInv /\ [Store!Next]_(Store!vars) => [clock' = clock => Store!OversizeKept]_(Store!vars)
    BY <1>1, Zenon
  <1> QED BY <1>2, StoreInductive, PTL DEF Store!Spec

\* The types of the clock, of the values in Redis and of what a call reports.
THEOREM StoreTypeCorrect ==
  ASSUME StoreAssumption
  PROVE  Store!Spec => []Store!TypeOK
  <1>1. ASSUME StoreInv PROVE Store!TypeOK
    <2>1. taken \in [1..MaxValues -> 0..2]
      <3>1. \A i \in 1..MaxValues : taken[i] \in 0..2
        BY <1>1 DEF StoreInv, DataInv, StoreTypes, Untaken
      <3> QED BY <1>1, <3>1, Zenon DEF StoreInv, DataInv, StoreTypes
    <2> QED BY <1>1, <2>1, Zenon DEF StoreInv, DataInv, StoreTypes, Replied, Store!TypeOK
  <1> QED BY <1>1, StoreInductive, PTL

=============================================================================

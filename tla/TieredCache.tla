---------------------------- MODULE TieredCache ----------------------------
(***************************************************************************)
(* cache/redisvalue: TieredCache, a process-local first level (L1) in      *)
(* front of a Redis second level (L2), for one key and one decorator used  *)
(* by several goroutines.                                                  *)
(*                                                                         *)
(* Every call on the key takes the key coordinator's token; GetOrLoad also *)
(* shares one load between the callers that arrive while it is unpublished.*)
(* Whole-cache repairs (ClearLocal, Clear) and the fail-closed blocked     *)
(* state are kept by localState.  Its generation and epoch only grow and   *)
(* are only compared for equality with an earlier reading, so a call       *)
(* carries in cur whether the generation it read is still the generation,  *)
(* and store.repairer is the call whose epoch is the epoch.  A lease that  *)
(* spans only an L1 read, or only a mandatory L1 delete, is taken and      *)
(* returned within the step that uses it; the one that spans an L1 write   *)
(* is counted in store.active.  Entries do not expire here (the TTLs are   *)
(* in ValueCaches), and no other decorator writes the key.                  *)
(***************************************************************************)
EXTENDS Integers, FiniteSets

CONSTANTS
    Callers,     \* goroutines using the decorator
    Values,      \* cached values, numbers above 0
    Ops,         \* the operations every caller uses
    LateCancel   \* a caller may cancel between the check after SET and the L1 write

VARIABLES
    store,  \* remote, local, localState, the coordinators of the key
    proc,   \* what every caller is doing
    seen    \* a Clear that skipped its L1 clear has happened

vars == <<store, proc, seen>>

Nobody == 0
Ids == 1 .. 2

Coordinator == [refs : 0 .. Cardinality(Callers), users : 0 .. Cardinality(Callers),
                token : BOOLEAN, flight : Callers \cup {Nobody}]

newKeyCoordinator == [refs |-> 0, users |-> 0, token |-> TRUE, flight |-> Nobody]

Idle == [pc |-> "idle", op |-> "none", id |-> 0, val |-> 0, cur |-> FALSE, err |-> FALSE]

Pcs == {"idle", "enter", "token", "waiting", "admit", "await", "remote", "load", "loading", "store",
        "populate", "filling", "cleanup", "leave", "drop", "wipe", "begin", "drain", "clear"}

TypeOK ==
    /\ store \in [remote : Values \cup {Nobody}, local : Values \cup {Nobody},
                  phase : {"healthy", "blocked", "repairing"}, origin : {"healthy", "blocked"},
                  active : 0 .. Cardinality(Callers), repairer : Callers \cup {Nobody},
                  item : Ids \cup {0}, coord : [Ids -> Coordinator]]
    /\ proc \in [Callers -> [pc : Pcs, op : UNION {Ops[p] : p \in Callers} \cup {"none"}, id : Ids \cup {0},
                             val : Values \cup {Nobody}, cur : BOOLEAN, err : BOOLEAN]]
    /\ seen \in BOOLEAN

Init ==
    /\ store = [remote |-> Nobody, local |-> Nobody, phase |-> "healthy", origin |-> "healthy",
                active |-> 0, repairer |-> Nobody, item |-> 0, coord |-> [i \in Ids |-> newKeyCoordinator]]
    /\ proc = [p \in Callers |-> Idle]
    /\ seen = FALSE

At(p, pc) == proc[p].pc = pc
Goto(p, pc) == proc' = [proc EXCEPT ![p].pc = pc]
Fail(p, pc) == proc' = [proc EXCEPT ![p].pc = pc, ![p].err = TRUE]

-----------------------------------------------------------------------------
(* localState *)

Blocked == store.phase = "blocked" \/ (store.phase = "repairing" /\ store.origin = "blocked")
Pausing == store.phase = "repairing" /\ store.origin = "healthy"

\* A new generation: no reading of the old one is current any more.
Stale(ps) == [p \in Callers |-> [ps[p] EXCEPT !.cur = FALSE]]

\* block: a blocked state stays as it is, any other gets a new generation and epoch.
blocked(s) == IF s.phase = "blocked" THEN s
              ELSE [s EXCEPT !.phase = "blocked", !.origin = "blocked", !.repairer = Nobody]
Block(ps) == /\ store' = blocked(store)
             /\ proc' = IF store.phase = "blocked" THEN ps ELSE Stale(ps)

\* classify: what has become of the generation a call started from.
classify(p) == IF store.phase = "healthy" /\ proc[p].cur THEN "current"
               ELSE IF Blocked THEN "blocked" ELSE "newer"

-----------------------------------------------------------------------------
(* keyCoordinator and its registry *)

\* The coordinator a call on the key gets: the registered one, or a new one.
Registered == IF store.item # 0 THEN store.item
              ELSE CHOOSE i \in Ids : \A p \in Callers : proc[p].id # i

acquire == [store EXCEPT !.item = Registered, !.coord[Registered].refs = @ + 1]

\* acquireToken counts the call among the users of the token before it waits for it.
queued(s, i) == [s EXCEPT !.coord[i].users = @ + 1]

\* A mutant registry, which retires a coordinator once nobody uses its token.
idleUnreferenced(c) == c.users = 0 /\ c.flight = Nobody

idleLocked(c) == c.refs = 0 /\ c.users = 0 /\ c.flight = Nobody

\* release: the last user of an idle coordinator takes it out of the registry.
release(s, i) ==
    LET t == [s EXCEPT !.coord[i].refs = @ - 1]
    IN  IF s.item # i THEN s
        ELSE IF idleLocked(t.coord[i]) THEN [t EXCEPT !.item = 0, !.coord[i] = newKeyCoordinator] ELSE t

releaseToken(s, i) == [s EXCEPT !.coord[i].token = TRUE, !.coord[i].users = @ - 1]

\* The end of a call of p: publish the flight it leads, return the token (held) and the reference.
leave(p, held) ==
    LET i == proc[p].id
        s == [store EXCEPT !.coord[i].flight = IF @ = p THEN Nobody ELSE @]
    IN  release(IF held THEN releaseToken(s, i) ELSE s, i)

\* The callers that share the flight p leads.
Followers(p) == {q \in Callers : At(q, "waiting") /\ proc[q].id = proc[p].id
                                 /\ store.coord[proc[p].id].flight = p}

\* A mutant end of a call, whose error never reaches the callers that share its flight.
publishOnlyValues(p) ==
    [q \in Callers |-> IF q = p THEN Idle
                       ELSE IF q \in Followers(p) /\ ~proc[p].err
                       THEN [proc[q] EXCEPT !.pc = "drop", !.val = proc[p].val]
                       ELSE proc[q]]

\* publishFlight hands the leader's value and error to every caller that shares the flight.
publishFlight(p) ==
    [q \in Callers |-> IF q = p THEN Idle
                       ELSE IF q \in Followers(p)
                       THEN [proc[q] EXCEPT !.pc = "drop", !.val = proc[p].val, !.err = proc[p].err]
                       ELSE proc[q]]

-----------------------------------------------------------------------------
(* Calls on the key *)

\* Set, Delete and InvalidateLocal go to the registry and queue for the token.
Call(p) ==
    /\ At(p, "idle")
    /\ \E op \in Ops[p] \cap {"Set", "Delete", "InvalidateLocal"} :
       \E v \in (IF op = "Set" THEN Values ELSE {Nobody}) :
          proc' = [proc EXCEPT ![p] = [Idle EXCEPT !.pc = "token", !.op = op, !.val = v, !.id = Registered]]
    /\ store' = queued(acquire, Registered)
    /\ UNCHANGED seen

\* localGet: a hit, or any failure, ends Get and GetOrLoad; a miss goes to the registry.  A repair
\* of a healthy state is waited for.
Lookup(p) ==
    /\ At(p, "idle")
    /\ store.phase = "healthy"
    /\ store.local = Nobody
    /\ \E op \in Ops[p] \cap {"Get", "GetOrLoad"} :
          proc' = [proc EXCEPT ![p] = [Idle EXCEPT !.pc = "enter", !.op = op]]
    /\ UNCHANGED <<store, seen>>

\* Get queues for the token; GetOrLoad leads a flight, or follows the one that is unpublished.
Enter(p) ==
    /\ At(p, "enter")
    /\ LET led == store.coord[Registered].flight
           i == Registered
       IN  IF proc[p].op = "GetOrLoad" /\ led # Nobody
           THEN /\ store' = acquire
                /\ proc' = [proc EXCEPT ![p].pc = "waiting", ![p].id = i]
           ELSE /\ store' = IF proc[p].op = "Get" THEN queued(acquire, i)
                            ELSE [queued(acquire, i) EXCEPT !.coord[i].flight = p]
                /\ proc' = [proc EXCEPT ![p].pc = "token", ![p].id = i]
    /\ UNCHANGED seen

acquireToken(p) ==
    /\ At(p, "token")
    /\ store.coord[proc[p].id].token
    /\ store' = [store EXCEPT !.coord[proc[p].id].token = FALSE]
    /\ Goto(p, IF proc[p].op = "InvalidateLocal" THEN "cleanup" ELSE "admit")
    /\ UNCHANGED seen

\* The caller's context ends while the call waits for the token, for a flight or for a repair.
\* InvalidateLocal, which cannot tell that the entry is gone, blocks the decorator.
Cancel(p) ==
    /\ proc[p].pc \in {"token", "waiting", "await"}
    /\ LET s == IF At(p, "token") THEN [store EXCEPT !.coord[proc[p].id].users = @ - 1] ELSE store
           ps == [proc EXCEPT ![p].pc = "drop", ![p].err = TRUE]
           shut == proc[p].op = "InvalidateLocal"
       IN  /\ store' = IF shut THEN blocked(s) ELSE s
           /\ proc' = IF shut /\ s.phase # "blocked" THEN Stale(ps) ELSE ps
    /\ UNCHANGED seen

\* acquireHealthyForLeader while a healthy state is repaired: the call gives the token back, waits
\* and starts again.
Pause(p) ==
    /\ proc[p].pc \in {"admit", "load"}
    /\ Pausing
    /\ store' = releaseToken(store, proc[p].id)
    /\ Goto(p, "await")
    /\ UNCHANGED seen

Resume(p) ==
    /\ At(p, "await")
    /\ ~Pausing
    /\ store' = queued(store, proc[p].id)
    /\ Goto(p, "token")
    /\ UNCHANGED seen

\* The token holder's admission: refused when blocked; a read looks at L1 again; then the call has
\* the generation its ticket is good for.
Admit(p) ==
    /\ At(p, "admit")
    /\ ~Pausing
    /\ IF Blocked THEN Fail(p, "leave")
       ELSE IF proc[p].op \in {"Get", "GetOrLoad"} /\ store.local # Nobody
       THEN proc' = [proc EXCEPT ![p].pc = "leave", ![p].val = store.local]
       ELSE proc' = [proc EXCEPT ![p].pc = "remote", ![p].cur = TRUE]
    /\ UNCHANGED <<store, seen>>

\* The read of L2 by Get and GetOrLoad, and what its answer is good for by then.
RemoteGet(p) ==
    /\ At(p, "remote") /\ proc[p].op \in {"Get", "GetOrLoad"}
    /\ \/ Fail(p, "leave")
       \/ CASE classify(p) = "blocked" -> Fail(p, "leave")
            [] classify(p) = "newer" /\ store.remote = Nobody ->
                  IF proc[p].op = "Get" THEN Fail(p, "leave") ELSE Goto(p, "admit")
            [] classify(p) = "newer" /\ store.remote # Nobody ->
                  proc' = [proc EXCEPT ![p].pc = "leave", ![p].val = store.remote]
            [] classify(p) = "current" /\ store.remote = Nobody ->
                  IF proc[p].op = "Get" THEN Fail(p, "leave") ELSE Goto(p, "load")
            [] OTHER -> proc' = [proc EXCEPT ![p].pc = "populate", ![p].val = store.remote]
    /\ UNCHANGED <<store, seen>>

\* The SET and DEL of L2.  A failed command, or a context that ended meanwhile, leaves the outcome
\* unknown: L1 is then cleaned up, as it is after every Delete.
RemoteWrite(p) ==
    /\ At(p, "remote") /\ proc[p].op \in {"Set", "Delete"}
    /\ \E done, failed \in BOOLEAN :
          /\ done \/ failed
          /\ store' = IF done THEN [store EXCEPT !.remote = proc[p].val] ELSE store
          /\ IF failed \/ proc[p].op = "Delete" \/ classify(p) = "blocked"
             THEN proc' = [proc EXCEPT ![p].pc = "cleanup", ![p].err = failed]
             ELSE Goto(p, IF classify(p) = "newer" THEN "leave" ELSE "populate")
    /\ UNCHANGED seen

\* The leader's second admission, before the loader: a repair since the L2 read starts it over.
Load(p) ==
    /\ At(p, "load")
    /\ ~Pausing
    /\ IF Blocked THEN Fail(p, "leave") ELSE Goto(p, IF proc[p].cur THEN "loading" ELSE "admit")
    /\ UNCHANGED <<store, seen>>

\* The loader answers: its value is stored only if the generation is still the one it began in.
Loaded(p) ==
    /\ At(p, "loading")
    /\ \/ Fail(p, "leave")
       \/ \E v \in Values :
             CASE classify(p) = "blocked" -> Fail(p, "leave")
               [] classify(p) = "newer" -> proc' = [proc EXCEPT ![p].pc = "leave", ![p].val = v]
               [] OTHER -> proc' = [proc EXCEPT ![p].pc = "store", ![p].val = v]
    /\ UNCHANGED <<store, seen>>

\* The leader's SET of the loaded value.
Store(p) ==
    /\ At(p, "store")
    /\ \E done, failed \in BOOLEAN :
          /\ done \/ failed
          /\ store' = IF done THEN [store EXCEPT !.remote = proc[p].val] ELSE store
          /\ IF failed \/ classify(p) = "blocked" THEN Fail(p, "leave")
             ELSE Goto(p, IF classify(p) = "newer" THEN "leave" ELSE "populate")
    /\ UNCHANGED seen

\* populateLocalHeld takes a lease for the L1 write; a repair since then makes the write pointless.
\* A context that has ended by now ends the call here.
Lease(p) ==
    /\ At(p, "populate")
    /\ \/ /\ classify(p) = "current"
          /\ store' = [store EXCEPT !.active = @ + 1]
          /\ Goto(p, "filling")
       \/ /\ classify(p) # "current"
          /\ store' = store
          /\ IF classify(p) = "blocked" THEN Fail(p, "leave") ELSE Goto(p, "leave")
       \/ /\ classify(p) = "current"
          /\ LateCancel \/ proc[p].op # "Set"
          /\ store' = store
          /\ Fail(p, "leave")
    /\ UNCHANGED seen

\* The L1 write under the lease; unless it succeeded in the current generation it is undone.
Fill(p) ==
    /\ At(p, "filling")
    /\ \E done, failed \in BOOLEAN :
          /\ done \/ failed
          /\ store' = [store EXCEPT !.active = @ - 1, !.local = IF done THEN proc[p].val ELSE @]
          /\ IF failed \/ classify(p) # "current"
             THEN proc' = [proc EXCEPT ![p].pc = "cleanup", ![p].err = failed]
             ELSE Goto(p, "leave")
    /\ UNCHANGED seen

\* A mutant cleanup, which does not fail closed.
CleanupOrGiveUp(p) ==
    /\ At(p, "cleanup")
    /\ \/ /\ store.phase # "repairing"
          /\ store' = [store EXCEPT !.local = Nobody]
          /\ Goto(p, "leave")
       \/ Fail(p, "leave") /\ UNCHANGED store
    /\ UNCHANGED seen

\* invalidateLocalHeld: the entry is deleted, waiting for a repair to end; when that takes too long
\* or the delete fails, the decorator is blocked.
Cleanup(p) ==
    /\ At(p, "cleanup")
    /\ \/ /\ store.phase # "repairing"
          /\ store' = [store EXCEPT !.local = Nobody]
          /\ Goto(p, "leave")
       \/ Block([proc EXCEPT ![p].pc = "leave", ![p].err = TRUE])
    /\ UNCHANGED seen

\* The call returns.
Leave(p) ==
    /\ proc[p].pc \in {"leave", "drop"}
    /\ store' = leave(p, At(p, "leave"))
    /\ proc' = publishFlight(p)
    /\ UNCHANGED seen

-----------------------------------------------------------------------------
(* Calls on the whole cache *)

\* ClearLocal starts a repair; Clear first reads the generation and clears L2.
ClearCall(p) ==
    /\ At(p, "idle")
    /\ \E op \in Ops[p] \cap {"ClearLocal", "Clear"} :
          proc' = [proc EXCEPT ![p] = [Idle EXCEPT !.pc = IF op = "Clear" THEN "wipe" ELSE "begin",
                                                   !.op = op, !.cur = TRUE]]
    /\ UNCHANGED <<store, seen>>

RemoteClear(p) ==
    /\ At(p, "wipe")
    /\ \E done, failed \in BOOLEAN :
          /\ done \/ failed
          /\ store' = IF done THEN [store EXCEPT !.remote = Nobody] ELSE store
          /\ proc' = [proc EXCEPT ![p].pc = "begin", ![p].err = failed]
    /\ UNCHANGED seen

\* beginRepairAtGeneration: one repair at a time.  The mandatory one of Clear is skipped when the
\* generation is no longer the one Clear read.
BeginRepair(p) ==
    /\ At(p, "begin")
    /\ store.phase # "repairing"
    /\ IF proc[p].op = "Clear" /\ ~proc[p].cur
       THEN /\ proc' = [proc EXCEPT ![p] = Idle]
            /\ seen' = (seen \/ store.phase = "healthy")
            /\ UNCHANGED store
       ELSE /\ store' = [store EXCEPT !.phase = "repairing", !.repairer = p, !.origin = store.phase]
            /\ proc' = Stale([proc EXCEPT ![p].pc = "drain"])
            /\ UNCHANGED seen

\* The repair waits until every lease is returned; one overtaken by block ends blocked.
Drain(p) ==
    /\ At(p, "drain")
    /\ IF store.repairer = p
       THEN store.active = 0 /\ Goto(p, "clear") /\ UNCHANGED store
       ELSE Block([proc EXCEPT ![p] = Idle])
    /\ UNCHANGED seen

\* The cleanup budget runs out before the repair begins or before the leases are returned.
RepairTimeout(p) ==
    /\ proc[p].pc \in {"begin", "drain"}
    /\ Block([proc EXCEPT ![p] = Idle])
    /\ UNCHANGED seen

\* A mutant finishRepair, which heals after the mandatory repair too.
healsAlways(p) == TRUE

\* finishRepair: only ClearLocal heals a blocked decorator.
heals(p) == store.origin = "healthy" \/ proc[p].op = "ClearLocal"

\* L1 is cleared and the repair finished, unless block has overtaken it.
FinishRepair(p) ==
    /\ At(p, "clear")
    /\ \E done, failed \in BOOLEAN :
          /\ done \/ failed
          /\ LET s == IF done THEN [store EXCEPT !.local = Nobody] ELSE store
             IN  store' = IF store.repairer # p THEN s
                          ELSE IF ~failed /\ heals(p)
                          THEN [s EXCEPT !.phase = "healthy", !.origin = "healthy", !.repairer = Nobody]
                          ELSE [s EXCEPT !.phase = "blocked", !.origin = "blocked", !.repairer = Nobody]
    /\ proc' = [proc EXCEPT ![p] = Idle]
    /\ UNCHANGED seen

Step(p) ==
    \/ Call(p) \/ Lookup(p) \/ Enter(p) \/ acquireToken(p) \/ Cancel(p) \/ Pause(p) \/ Resume(p)
    \/ Admit(p) \/ RemoteGet(p) \/ RemoteWrite(p) \/ Load(p) \/ Loaded(p) \/ Store(p)
    \/ Lease(p) \/ Fill(p) \/ Cleanup(p) \/ Leave(p)
    \/ ClearCall(p) \/ RemoteClear(p) \/ BeginRepair(p) \/ Drain(p) \/ RepairTimeout(p) \/ FinishRepair(p)

Next == \E p \in Callers : Step(p)

Spec == Init /\ [][Next]_vars

-----------------------------------------------------------------------------
(* Properties *)

\* The calls that have yet to bring L1 in line with what they did to L2.
Reconciling == {p \in Callers : \/ proc[p].pc \in {"populate", "filling", "cleanup"}
                                \/ proc[p].op = "Clear" /\ proc[p].pc \in {"begin", "drain", "clear"}}

\* Whatever the calls, failures, repairs and cancellations of the decorator were, an entry that a
\* healthy L1 serves is the one in Redis as soon as no call is still reconciling the two: a failed or
\* cancelled SET or DEL is cleaned up, a value loaded or read before a repair does not come back
\* after it, and a cleanup that cannot be proved blocks L1 (tiered_cache.go, Set, Delete, Clear).
Coherent == store.phase = "healthy" /\ store.local # Nobody /\ Reconciling = {} /\ ~seen
                => store.local = store.remote

Holding == {"admit", "remote", "load", "loading", "store", "populate", "filling", "cleanup", "leave"}

\* The token of the key has one holder at a time, whichever coordinator objects the registry has
\* retired and created (coordination.go, release): no two loaders of the key run together.
OneHolder == Cardinality({p \in Callers : proc[p].pc \in Holding}) <= 1

\* Every caller that shares a flight shares one that its leader will still publish: no follower is
\* left behind by a leader that failed or was cancelled (GetOrLoad, publishFlight).
FlightIsLed == \A p \in Callers : At(p, "waiting") =>
                  LET led == store.coord[proc[p].id].flight
                  IN  led # Nobody /\ proc[led].id = proc[p].id /\ proc[led].pc # "idle"

\* A blocked decorator serves again only through an explicit ClearLocal, which leaves L1 empty
\* (finishRepair); README: "Only a successful explicit ClearLocal heals that state."
HealedByClearLocal == (Blocked /\ store'.phase = "healthy") =>
                         store'.local = Nobody /\ \E p \in Callers : proc[p].op = "ClearLocal" /\ At(p, "clear")

=============================================================================

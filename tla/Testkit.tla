------------------------------- MODULE Testkit -------------------------------
(*********************************************************************************)
(* What the conformance suites measure with, and the helpers of package testing. *)
(*********************************************************************************)
EXTENDS Integers, FiniteSets, Sequences, SequencesExt

VARIABLES store, proc, seen   \* what they hold is said in each part

vars == <<store, proc, seen>>

-----------------------------------------------------------------------------
(***************************************************************************)
(* )                                                                       *)
(***************************************************************************)
CONSTANTS
    Kinds,            \* subset of {"elector", "lock", "limiter"}
    Users, electorOf, \* [Users -> electors]: whose Campaign and Resign a user calls
    Lease, Burst, UnitsPerToken,  \* the bucket gains one unit for each tick
    MaxNow, MaxLoops, MaxInjected

(* Packages leadertest, locktest and ratelimittest: the in-memory elector,     *)
(* lock and limiter that the conformance suites are themselves checked with,   *)
(* and the controls that hold a call at a gate, make the next one fail after   *)
(* it took effect, or replace the owner of the record.                         *)
(***************************************************************************)

Electors == {electorOf[u] : u \in Users}
Outsider == 0
NoOwner == -1

Idle == [pc |-> "idle", op |-> "", cancelled |-> FALSE, loop |-> 0, failure |-> FALSE, holds |-> FALSE, error |-> "", tokens |-> 0, retryAfter |-> 0, allowed |-> FALSE]
NoLoop == [of |-> 0, pc |-> "none", cancelled |-> FALSE, err |-> FALSE]
Fresh == [owned |-> FALSE, campaigning |-> FALSE, cleanup |-> FALSE, loop |-> 0]

InitFixtures ==
    /\ \E k \in Kinds : store = [kind |-> k, now |-> 0, owner |-> NoOwner, until |-> 0, failures |-> {}, gates |-> {}, injected |-> 0,
                                 electors |-> [e \in Electors |-> Fresh], loops |-> [l \in 1 .. MaxLoops |-> NoLoop], started |-> 0,
                                 tokens |-> Burst * UnitsPerToken, updatedAt |-> 0, filled |-> FALSE]
    /\ proc = [u \in Users |-> Idle]
    /\ seen = [until |-> [x \in Electors \cup Users |-> 0], charged |-> 0, abandoned |-> {}]

TypeOKFixtures ==
    /\ store.now \in 0 .. MaxNow /\ store.owner \in Electors \cup Users \cup {Outsider, NoOwner} /\ store.tokens \in 0 .. Burst * UnitsPerToken
    /\ \A u \in Users : proc[u].pc \in {"idle", "campaign", "retry", "wait", "resign", "before", "after", "linearize", "returned"}

call(u, p) == proc' = [proc EXCEPT ![u] = p]
returned(p, error) == [p EXCEPT !.pc = "returned", !.error = error, !.cancelled = FALSE, !.loop = 0, !.failure = FALSE]
Again(u) == proc[u].pc = "returned" /\ call(u, [Idle EXCEPT !.holds = proc[u].holds]) /\ UNCHANGED <<store, seen>>

Cancel(u) == proc[u].pc \in {"retry", "wait", "before"} /\ ~proc[u].cancelled /\ call(u, [proc[u] EXCEPT !.cancelled = TRUE]) /\ UNCHANGED <<store, seen>>
Tick == store.now < MaxNow /\ store' = [store EXCEPT !.now = @ + 1] /\ UNCHANGED <<proc, seen>>

\* FailNext: the next such operation takes effect and then fails, once.
FailNext(op) == op \notin store.failures /\ store.injected < MaxInjected /\ store' = [store EXCEPT !.failures = @ \cup {op}, !.injected = @ + 1] /\ UNCHANGED <<proc, seen>>
takeFailure(op) == op \in store.failures

-----------------------------------------------------------------------------
(* leadertest: the record                                                  *)

unexpired == store.until > store.now

\* ReplaceOwner: a control takes the record away from whoever has it.
ReplaceOwner ==
    /\ store.injected < MaxInjected
    /\ store' = [store EXCEPT !.owner = Outsider, !.until = store.now + Lease, !.injected = @ + 1]
    /\ seen' = [seen EXCEPT !.until = [x \in DOMAIN @ |-> 0]]
    /\ UNCHANGED proc

\* Owner: a record that has run out is cleared by whoever looks at it.
Owner ==
    /\ store.kind \in {"elector", "lock"} /\ store.owner # NoOwner /\ ~unexpired
    /\ store' = [store EXCEPT !.owner = NoOwner, !.until = 0]
    /\ UNCHANGED <<proc, seen>>

campaignAnyway(e) == TRUE

campaign(e) == ~(store.owner # NoOwner /\ store.owner # e /\ unexpired)

renew(e) == store.owner = e /\ unexpired

resign(e) == store.owner = e

-----------------------------------------------------------------------------
(* leadertest: the elector                                                 *)

Campaign(u) ==
    LET e == electorOf[u]
        s == store.electors[e]
    IN  /\ proc[u].pc = "idle"
        /\ call(u, CASE s.cleanup                                  -> returned(Idle, "ErrCleanupPending")
                     [] ~s.cleanup /\ s.owned                      -> returned(Idle, "ErrAlreadyLeader")
                     [] ~s.cleanup /\ ~s.owned /\ s.campaigning    -> returned(Idle, "ErrCampaignInProgress")
                     [] OTHER                                      -> [Idle EXCEPT !.pc = "campaign", !.op = "campaign"])
        /\ store' = IF s.cleanup \/ s.owned THEN store ELSE [store EXCEPT !.electors[e].campaigning = TRUE]
        /\ UNCHANGED seen

\* One attempt. The record was taken before a failure is reported, so the elector has something to clean up.
Attempt(u) ==
    LET e == electorOf[u]
    IN  /\ proc[u].pc = "campaign"
        /\ IF ~campaign(e) THEN call(u, [proc[u] EXCEPT !.pc = "retry"]) /\ UNCHANGED <<store, seen>>
           ELSE LET taken == [store EXCEPT !.owner = e, !.until = store.now + Lease, !.failures = @ \ {"campaign"}, !.electors[e].campaigning = FALSE]
                IN  /\ IF takeFailure("campaign")
                       THEN store' = [taken EXCEPT !.electors[e].cleanup = TRUE] /\ call(u, returned(Idle, "ErrCommitUnknown"))
                       ELSE /\ store.started < MaxLoops
                            /\ store' = [taken EXCEPT !.electors[e] = [owned |-> TRUE, campaigning |-> FALSE, cleanup |-> FALSE, loop |-> store.started + 1],
                                                      !.loops[store.started + 1] = [NoLoop EXCEPT !.of = e, !.pc = "select"], !.started = @ + 1]
                            /\ call(u, returned(Idle, ""))
                    /\ seen' = [seen EXCEPT !.until[e] = store.now + Lease]

Retry(u) ==
    /\ proc[u].pc = "retry"
    /\ IF proc[u].cancelled THEN call(u, returned(Idle, "context")) /\ store' = [store EXCEPT !.electors[electorOf[u]].campaigning = FALSE]
       ELSE call(u, [proc[u] EXCEPT !.pc = "campaign"]) /\ UNCHANGED store
    /\ UNCHANGED seen

\* Resign first takes the loop out of the elector and stops it.
Resign(u) ==
    LET e == electorOf[u]
        s == store.electors[e]
    IN  /\ proc[u].pc = "idle"
        /\ IF ~(s.owned \/ s.cleanup) THEN call(u, returned(Idle, "")) ELSE call(u, [Idle EXCEPT !.pc = IF s.loop = 0 THEN "resign" ELSE "wait", !.op = "resign", !.loop = s.loop])
        /\ store' = [store EXCEPT !.electors[e] = [s EXCEPT !.owned = FALSE, !.loop = 0],
                                  !.loops = [l \in DOMAIN @ |-> IF l = s.loop /\ (s.owned \/ s.cleanup) THEN [@[l] EXCEPT !.cancelled = TRUE] ELSE @[l]]]
        /\ UNCHANGED seen

\* It waits for the loop; when the context ends first, the record is left to a later Resign.
waitDone(u) ==
    \/ store.loops[proc[u].loop].pc = "done" /\ call(u, [proc[u] EXCEPT !.pc = "resign"]) /\ UNCHANGED <<store, seen>>
    \/ /\ proc[u].cancelled
       /\ call(u, returned(Idle, "context"))
       /\ store' = [store EXCEPT !.electors[electorOf[u]].cleanup = TRUE]
       /\ seen' = [seen EXCEPT !.abandoned = @ \cup {electorOf[u]}]

Wait(u) == proc[u].pc = "wait" /\ waitDone(u)

ResignRecord(u) ==
    LET e == electorOf[u]
    IN  /\ proc[u].pc = "resign"
        /\ store' = [store EXCEPT !.owner = IF resign(e) THEN NoOwner ELSE @, !.until = IF resign(e) THEN 0 ELSE @, !.failures = @ \ {"resign"},
                                  !.electors[e].cleanup = takeFailure("resign")]
        /\ call(u, returned(Idle, IF takeFailure("resign") THEN "ErrCommitUnknown" ELSE ""))
        /\ seen' = [seen EXCEPT !.until[e] = 0]

-----------------------------------------------------------------------------
(* leadertest: renewLoop                                                   *)

setLoop(l, loop) == [store EXCEPT !.loops[l] = loop]

LoopStops(l) == store.loops[l].pc = "select" /\ store.loops[l].cancelled /\ store' = setLoop(l, [store.loops[l] EXCEPT !.pc = "done"]) /\ UNCHANGED <<proc, seen>>

\* The select may take the ticker although the context has ended as well.
LoopRenews(l) ==
    LET e == store.loops[l].of
        fails == renew(e) /\ takeFailure("renew")
    IN  /\ store.loops[l].pc = "select"
        /\ store' = [setLoop(l, IF renew(e) /\ ~fails THEN store.loops[l] ELSE [store.loops[l] EXCEPT !.pc = "lost", !.err = fails])
                       EXCEPT !.until = IF renew(e) THEN store.now + Lease ELSE @, !.failures = IF fails THEN @ \ {"renew"} ELSE @]
        /\ seen' = IF renew(e) THEN [seen EXCEPT !.until[e] = store.now + Lease] ELSE seen
        /\ UNCHANGED proc

forgetLost(s, l) == [s EXCEPT !.owned = FALSE, !.loop = 0]

\* The end of a loop writes to its elector, even when another loop has begun since.
lost(s, l) == [s EXCEPT !.owned = FALSE, !.cleanup = store.loops[l].err, !.loop = 0]

LoopLost(l) ==
    LET e == store.loops[l].of
    IN  /\ store.loops[l].pc = "lost"
        /\ store' = [setLoop(l, [store.loops[l] EXCEPT !.pc = "done"]) EXCEPT !.electors[e] = lost(@, l)]
        /\ UNCHANGED <<proc, seen>>

-----------------------------------------------------------------------------
(* locktest: a lock whose calls stop at gates                                *)

GateNext(u, op, phase) ==
    /\ store.injected < MaxInjected
    /\ store' = [store EXCEPT !.gates = {g \in @ : g[1] # u \/ g[2] # op} \cup {<<u, op, phase>>}, !.injected = @ + 1]
    /\ UNCHANGED <<proc, seen>>

\* passGate: a gate of this phase is used up and holds the call until Resume, or until its context ends before it took effect.
gated(u, op, phase) == <<u, op, phase>> \in store.gates

LockCall(u, op) ==
    /\ proc[u].pc = "idle" /\ (op = "release" => proc[u].holds)
    /\ call(u, [proc[u] EXCEPT !.op = op, !.pc = IF gated(u, op, "before") THEN "before" ELSE "linearize"])
    /\ store' = [store EXCEPT !.gates = @ \ {<<u, op, "before">>}]
    /\ UNCHANGED seen

\* Once the call has taken effect a gate holds it under a context that never ends.
Resume(u) ==
    /\ proc[u].pc \in {"before", "after"}
    /\ call(u, IF proc[u].pc = "before" THEN [proc[u] EXCEPT !.pc = "linearize"] ELSE returned(proc[u], IF proc[u].failure THEN "fixtureError" ELSE proc[u].error))
    /\ UNCHANGED <<store, seen>>
GateCancelled(u) == proc[u].pc = "before" /\ proc[u].cancelled /\ call(u, returned(proc[u], "context")) /\ UNCHANGED <<store, seen>>

leaves(u, p, op) == call(u, IF gated(u, op, "after") THEN [p EXCEPT !.pc = "after"] ELSE returned(p, IF p.failure THEN "fixtureError" ELSE p.error))

held == store.owner # NoOwner /\ unexpired

\* The release function is returned with a failure too: the lock was taken.
Acquire(u) ==
    LET failure == <<u, "acquire">> \in store.failures
    IN  /\ proc[u].pc = "linearize" /\ proc[u].op = "acquire"
        /\ IF held THEN call(u, returned(proc[u], "fixtureError")) /\ UNCHANGED <<store, seen>>
           ELSE /\ store' = [store EXCEPT !.owner = u, !.until = store.now + Lease, !.failures = @ \ {<<u, "acquire">>}, !.gates = @ \ {<<u, "acquire", "after">>}]
                /\ leaves(u, [proc[u] EXCEPT !.holds = TRUE, !.failure = failure], "acquire")
                /\ seen' = [seen EXCEPT !.until[u] = store.now + Lease]

releases(u) == store.owner = u /\ unexpired

Release(u) ==
    LET failure == <<u, "release">> \in store.failures
    IN  /\ proc[u].pc = "linearize" /\ proc[u].op = "release"
        /\ store' = [store EXCEPT !.owner = IF releases(u) THEN NoOwner ELSE @, !.until = IF releases(u) THEN 0 ELSE @,
                                  !.failures = @ \ {<<u, "release">>}, !.gates = @ \ {<<u, "release", "after">>}]
        /\ leaves(u, [proc[u] EXCEPT !.failure = failure], "release")
        /\ seen' = [seen EXCEPT !.until[u] = 0]

-----------------------------------------------------------------------------
(* ratelimittest: a token bucket whose calls stop at gates                   *)

Full == Burst * UnitsPerToken

refillFromStart == LET sum == store.tokens + store.now IN IF ~store.filled THEN Full ELSE IF sum > Full THEN Full ELSE sum

\* The tokens now: as many units more as ticks have passed, and no more than the burst.
refilled == LET sum == store.tokens + (store.now - store.updatedAt) IN IF ~store.filled THEN Full ELSE IF sum > Full THEN Full ELSE sum

durationFor(units) == IF units <= 0 THEN 0 ELSE units

Allow(u, tokens) ==
    /\ proc[u].pc = "idle"
    /\ IF tokens > Burst THEN call(u, returned(Idle, "errInvalidInput")) /\ UNCHANGED store
       ELSE /\ call(u, [Idle EXCEPT !.op = "allow", !.tokens = tokens, !.pc = IF gated(0, "allow", "before") THEN "before" ELSE "linearize"])
            /\ store' = [store EXCEPT !.gates = @ \ {<<0, "allow", "before">>}]
    /\ UNCHANGED seen

\* The charge is made whether or not the call is then made to fail.
Charge(u) ==
    LET units == proc[u].tokens * UnitsPerToken
        enough == refilled >= units
    IN  /\ proc[u].pc = "linearize" /\ proc[u].op = "allow"
        /\ store' = [store EXCEPT !.tokens = IF enough THEN refilled - units ELSE refilled, !.updatedAt = store.now, !.filled = TRUE,
                                  !.failures = @ \ {"allow"}, !.gates = @ \ {<<0, "allow", "after">>}]
        /\ call(u, LET p == [proc[u] EXCEPT !.allowed = enough, !.retryAfter = IF enough THEN 0 ELSE durationFor(units - refilled), !.failure = takeFailure("allow")]
                   IN  IF gated(0, "allow", "after") THEN [p EXCEPT !.pc = "after"] ELSE returned(p, IF p.failure THEN "fixtureError" ELSE ""))
        /\ seen' = [seen EXCEPT !.charged = IF enough THEN @ + units ELSE @]

NextFixtures ==
    \/ Tick \/ \E u \in Users : Again(u) \/ Cancel(u)
    \/ store.kind = "elector" /\ (\/ ReplaceOwner \/ Owner \/ \E op \in {"campaign", "renew", "resign"} : FailNext(op)
                                  \/ \E u \in Users : Campaign(u) \/ Attempt(u) \/ Retry(u) \/ Resign(u) \/ Wait(u) \/ ResignRecord(u)
                                  \/ \E l \in 1 .. MaxLoops : LoopStops(l) \/ LoopRenews(l) \/ LoopLost(l))
    \/ store.kind = "lock" /\ (\/ Owner
                               \/ \E u \in Users, op \in {"acquire", "release"} : FailNext(<<u, op>>) \/ LockCall(u, op) \/ \E ph \in {"before", "after"} : GateNext(u, op, ph)
                               \/ \E u \in Users : Resume(u) \/ GateCancelled(u) \/ Acquire(u) \/ Release(u))
    \/ store.kind = "limiter" /\ (\/ FailNext("allow") \/ \E ph \in {"before", "after"} : GateNext(0, "allow", ph)
                                  \/ \E u \in Users : Resume(u) \/ GateCancelled(u) \/ Charge(u) \/ \E t \in 1 .. Burst + 1 : Allow(u, t))

-----------------------------------------------------------------------------
(* Properties                                                              *)

single(e) == Cardinality({u \in Users : electorOf[u] = e}) = 1
alive(e) == {l \in 1 .. MaxLoops : store.loops[l].of = e /\ store.loops[l].pc # "done"}

\* Whoever was last granted the record, or the lock, for a time that has not run out, and has neither given it up nor had
\* it taken away by ReplaceOwner, is still its owner: no other elector or caller gets in between.
GrantsKept == \A x \in DOMAIN seen.until : seen.until[x] > store.now => store.owner = x

\* An elector with one user whose record is still its own, and has not run out, has a loop that renews it, a call that is dealing with it, or
\* remembers that it must be cleaned up, as long as no Resign of it has given up waiting for its loop.
RecordTended ==
    \A u \in Users : LET e == electorOf[u] IN
        store.kind = "elector" /\ single(e) /\ store.owner = e /\ unexpired /\ e \notin seen.abandoned =>
            alive(e) # {} \/ store.electors[e].cleanup \/ proc[u].pc \in {"campaign", "wait", "resign"}

\* However calls are gated, cancelled and made to fail, the limiter charges no more than the burst and what the time
\* since has given.
ChargesBounded == seen.charged <= Full + store.now

-----------------------------------------------------------------------------
(***************************************************************************)
(* )                                                                       *)
(***************************************************************************)
CONSTANTS
    KindsHelpers, Timeout, MaxNowHelpers, MaxAttempts,
    Runs, Values     \* concurrent captures; values of the environment variable, one of them "unset"

(* Package bttesting: the helpers that judge whether an operation under test   *)
(* honours cancellation, deadlines and cleanup, that poll until something       *)
(* holds, and that borrow the process' environment and its output streams.     *)
(* The operation under test is free to do anything at any time.                *)
(***************************************************************************)

Checks == {"canceled", "deadline", "waiter", "cleanup", "await"}
Errors == {"nil", "canceled", "deadline", "other"}

Probe == [ready |-> FALSE, cleaned |-> FALSE, done |-> ""]
Check == [pc |-> "start", due |-> 0, cancelled |-> FALSE, cleanup |-> FALSE, ran |-> "", attempts |-> 0, last |-> "", verdict |-> ""]

InitHelpers ==
    /\ \E k \in KindsHelpers, v \in Values : /\ store = [kind |-> k, now |-> 0, probe |-> Probe, ctx |-> "", stdout |-> 0, mutex |-> 0, pipe |-> [r \in Runs |-> <<>>], env |-> v, cleanups |-> <<>>]
                                  /\ seen = [early |-> FALSE, wrote |-> [r \in Runs |-> 0], before |-> v]
    /\ proc = [check |-> Check, runs |-> [r \in Runs |-> [pc |-> "idle", panicked |-> FALSE, text |-> <<>>]]]

TypeOKHelpers == /\ proc.check.pc \in {"start", "running", "ready", "return", "loop", "probe", "select", "judged"} /\ store.now \in 0 .. MaxNowHelpers
          /\ store.mutex \in Runs \cup {0} /\ Len(store.cleanups) <= MaxAttempts

c == proc.check
become(check) == proc' = [proc EXCEPT !.check = check]
judged(verdict) == [c EXCEPT !.pc = "judged", !.verdict = verdict]
late == store.now >= c.due
TickHelpers == store.kind \in Checks /\ c.pc \notin {"start", "judged"} /\ store.now < MaxNowHelpers /\ store' = [store EXCEPT !.now = @ + 1] /\ UNCHANGED <<proc, seen>>

-----------------------------------------------------------------------------
(* The operation under test                                                *)

under == c.pc \in {"running", "ready", "return", "loop"} /\ store.probe.done = ""
Ready == under /\ ~store.probe.ready /\ store' = [store EXCEPT !.probe.ready = TRUE] /\ UNCHANGED <<proc, seen>>
Cleaned == under /\ ~store.probe.cleaned /\ store' = [store EXCEPT !.probe.cleaned = TRUE] /\ UNCHANGED <<proc, seen>>
Returns(err) ==
    /\ under
    /\ store' = [store EXCEPT !.probe.done = err]
    /\ seen' = [seen EXCEPT !.early = ~c.cancelled]
    /\ UNCHANGED proc

-----------------------------------------------------------------------------
(* The checks                                                              *)

\* The context is cancelled before the operation is called.
CheckContextCanceled ==
    /\ store.kind = "canceled" /\ UNCHANGED <<store, seen>>
    /\ \/ c.pc = "start" /\ become([c EXCEPT !.pc = "running", !.cancelled = TRUE])
       \/ c.pc = "running" /\ store.probe.done # "" /\ become(judged(IF store.probe.done = "canceled" THEN "" ELSE "expected"))

\* Twice the timeout is allowed for; a select with two ready cases may take either.
CheckDeadlineExceeded ==
    /\ store.kind = "deadline" /\ UNCHANGED <<store, seen>>
    /\ \/ c.pc = "start" /\ become([c EXCEPT !.pc = "running", !.due = 2 * Timeout])
       \/ c.pc = "running" /\ store.probe.done # "" /\ become(judged(IF store.probe.done = "deadline" THEN "" ELSE "expected"))
       \/ c.pc = "running" /\ late /\ become(judged("timeout"))

awaitReadyOrDone(next) ==
    \/ c.pc = "ready" /\ (store.probe.ready \/ store.probe.done # "") /\ become([c EXCEPT !.pc = next, !.cancelled = TRUE, !.due = store.now + Timeout])
    \/ c.pc = "ready" /\ late /\ become(judged("timeout"))

\* The first select: the probe is ready, has returned too soon, or takes too long. Then its context is cancelled.
awaitReady(next) ==
    \/ c.pc = "ready" /\ store.probe.ready /\ become([c EXCEPT !.pc = next, !.cancelled = TRUE, !.due = store.now + Timeout])
    \/ c.pc = "ready" /\ store.probe.done # "" /\ become(judged("early"))
    \/ c.pc = "ready" /\ late /\ become(judged("timeout"))

CheckWaiterReleased ==
    /\ store.kind = "waiter" /\ UNCHANGED <<store, seen>>
    /\ \/ c.pc = "start" /\ become([c EXCEPT !.pc = "ready", !.due = Timeout])
       \/ awaitReady("return")
       \/ c.pc = "return" /\ store.probe.done # "" /\ become(judged(IF store.probe.done = "canceled" THEN "" ELSE "expected"))
       \/ c.pc = "return" /\ late /\ become(judged("timeout"))

loopsEither(check) == ~check.cleanup /\ check.ran = ""

\* The loop goes on until both the cleanup and the return have been observed.
loops(check) == ~check.cleanup \/ check.ran = ""

observed(check) == IF loops(check) THEN check ELSE [check EXCEPT !.pc = "judged", !.verdict = IF check.ran = "canceled" THEN "" ELSE "expected"]

CheckCleanupOnCancel ==
    /\ store.kind = "cleanup" /\ UNCHANGED <<store, seen>>
    /\ \/ c.pc = "start" /\ become([c EXCEPT !.pc = "ready", !.due = Timeout])
       \/ awaitReady("loop")
       \/ c.pc = "loop" /\ ~c.cleanup /\ store.probe.cleaned /\ become(observed([c EXCEPT !.cleanup = TRUE]))
       \/ c.pc = "loop" /\ c.ran = "" /\ store.probe.done # "" /\ become(observed([c EXCEPT !.ran = store.probe.done]))
       \/ c.pc = "loop" /\ late /\ become(judged("timeout"))

-----------------------------------------------------------------------------
(* CheckAwait                                                              *)

EndContext == store.kind = "await" /\ c.pc \in {"start", "probe", "select"} /\ store.ctx = "" /\ store' = [store EXCEPT !.ctx = "canceled"] /\ UNCHANGED <<proc, seen>>

isContextCancellation(err) == err \in {"canceled", "deadline"}

\* CheckAwaitValue and CheckAwaitError: what was wanted was seen, without an error or as one.
successStatus(value, err, want) == IF (want = "other" /\ err = "other") \/ (want = "value" /\ err = "nil" /\ value = "value") THEN "success" ELSE "continue"
\* A check of the caller's own may also give up.
checkStatus(value, err, want) == IF want = "never" THEN "failure" ELSE successStatus(value, err, want)

awaitErrorLate == "await timed out"

\* When the wait ends, the caller's own context is blamed before the timeout is.
awaitError == IF store.ctx # "" THEN "await context ended" ELSE "await timed out"

CheckAwait ==
    /\ store.kind = "await"
    /\ \/ /\ c.pc = "start"
          /\ become(IF store.ctx # "" THEN judged("await context ended") ELSE [c EXCEPT !.pc = "probe", !.due = Timeout])
          /\ UNCHANGED <<store, seen>>
       \/ /\ c.pc = "probe" /\ c.attempts < MaxAttempts
          /\ \E value \in {"value", "none"}, err \in Errors, want \in {"value", "other", "never"} :
               LET tried == [c EXCEPT !.attempts = @ + 1, !.last = checkStatus(value, err, want)]
               IN  become(CASE isContextCancellation(err)                                   -> [tried EXCEPT !.pc = "judged", !.verdict = "await probe returned context cancellation"]
                            [] ~isContextCancellation(err) /\ tried.last = "success"        -> [tried EXCEPT !.pc = "judged"]
                            [] ~isContextCancellation(err) /\ tried.last = "failure"        -> [tried EXCEPT !.pc = "judged", !.verdict = "await failed"]
                            [] OTHER                                                        -> [tried EXCEPT !.pc = "select"])
          /\ UNCHANGED <<store, seen>>
       \/ c.pc = "select" /\ (late \/ store.ctx # "") /\ become(judged(awaitError)) /\ UNCHANGED <<store, seen>>
       \/ c.pc = "select" /\ become([c EXCEPT !.pc = "probe"]) /\ UNCHANGED <<store, seen>>

-----------------------------------------------------------------------------
(* Output and environment                                                  *)

run(r) == proc.runs[r]
setRun(r, s) == proc' = [proc EXCEPT !.runs[r] = s]

\* os.Stdout is the process' own; a capture is the only one to replace it, and for as long as the function runs.
CaptureStart(r) ==
    /\ store.kind = "capture" /\ run(r).pc = "idle" /\ store.mutex = 0
    /\ \E opened \in BOOLEAN :
         /\ store' = IF opened THEN [store EXCEPT !.mutex = r, !.stdout = r, !.pipe[r] = <<>>] ELSE store
         /\ setRun(r, [run(r) EXCEPT !.pc = IF opened THEN "run" ELSE "failed"])
    /\ UNCHANGED seen

\* The captured function, or anyone else in the process, writes to whatever os.Stdout is.
Write(r) ==
    /\ store.kind = "capture" /\ seen.wrote[r] < 2
    /\ store' = IF store.stdout = 0 THEN store ELSE [store EXCEPT !.pipe[store.stdout] = Append(@, r)]
    /\ seen' = [seen EXCEPT !.wrote[r] = @ + 1]
    /\ UNCHANGED proc

restoreOnSuccess(panicked) == IF panicked THEN store.stdout ELSE 0

\* The streams are put back before the readers are waited for and before a panic goes on.
restoreCapturedFiles(panicked) == 0

CaptureEnd(r, panicked) ==
    /\ store.kind = "capture" /\ run(r).pc = "run"
    /\ store' = [store EXCEPT !.stdout = restoreCapturedFiles(panicked), !.mutex = 0, !.pipe[r] = <<>>]
    /\ setRun(r, [run(r) EXCEPT !.pc = "idle", !.panicked = panicked, !.text = IF panicked THEN <<>> ELSE store.pipe[r]])
    /\ UNCHANGED seen

RunAgain(r) == run(r).pc = "failed" /\ setRun(r, [run(r) EXCEPT !.pc = "idle"]) /\ UNCHANGED <<store, seen>>

setenvAlways(previous) == IF previous = "unset" THEN "" ELSE previous

\* The cleanup that snapshotEnv returns sets the variable again, or unsets one that did not exist.
snapshotEnv(previous) == previous

SetEnv(value) ==
    /\ store.kind = "env" /\ Len(store.cleanups) < MaxAttempts /\ value # "unset"
    /\ store' = [store EXCEPT !.env = value, !.cleanups = Append(@, snapshotEnv(store.env))]
    /\ UNCHANGED <<proc, seen>>
UnsetEnv ==
    /\ store.kind = "env" /\ Len(store.cleanups) < MaxAttempts
    /\ store' = [store EXCEPT !.env = "unset", !.cleanups = Append(@, snapshotEnv(store.env))]
    /\ UNCHANGED <<proc, seen>>

\* Code under test writes the variable as well, once a helper has taken care of it; the cleanups run last to first.
Overwrite(value) == store.kind = "env" /\ store.cleanups # <<>> /\ store' = [store EXCEPT !.env = value] /\ UNCHANGED <<proc, seen>>
Cleanup ==
    /\ store.kind = "env" /\ store.cleanups # <<>>
    /\ store' = [store EXCEPT !.env = Last(store.cleanups), !.cleanups = Front(@)]
    /\ UNCHANGED <<proc, seen>>

NextHelpers ==
    \/ TickHelpers \/ Ready \/ Cleaned \/ \E e \in Errors : Returns(e)
    \/ CheckContextCanceled \/ CheckDeadlineExceeded \/ CheckWaiterReleased \/ CheckCleanupOnCancel \/ CheckAwait \/ EndContext
    \/ \E r \in Runs : CaptureStart(r) \/ Write(r) \/ RunAgain(r) \/ \E p \in BOOLEAN : CaptureEnd(r, p)
    \/ \E v \in Values : SetEnv(v) \/ Overwrite(v)
    \/ UnsetEnv \/ Cleanup

-----------------------------------------------------------------------------
(* Properties                                                              *)

\* An operation that a check lets pass did what the check is about: it returned the error of its context, it had said
\* that it was ready where that is asked, and it had cleaned up; and the last attempt of an await had succeeded.
VerdictsSound ==
    c.pc = "judged" /\ c.verdict = "" =>
        /\ store.kind \in {"canceled", "waiter", "cleanup"} => store.probe.done = "canceled"
        /\ store.kind = "deadline" => store.probe.done = "deadline"
        /\ store.kind \in {"waiter", "cleanup"} => store.probe.ready
        /\ store.kind = "cleanup" => store.probe.cleaned
        /\ store.kind = "await" => c.last = "success" /\ c.attempts > 0

\* A probe that returns the error of its context only after that was cancelled is failed for nothing but being late, and
\* an await whose context was cancelled never says that it timed out.
VerdictsFair ==
    c.pc = "judged" =>
        /\ store.kind \in {"waiter", "cleanup"} /\ ~seen.early /\ store.probe.done \in {"", "canceled"} => c.verdict \in {"", "timeout"}
        /\ store.kind = "await" /\ store.ctx # "" => c.verdict # "await timed out"

\* However captures overlap, fail and panic, the process has its own output back once none of them runs, and once
\* every cleanup has run the variable is as it was before the test, set or unset.
BorrowedReturned ==
    /\ (\A r \in Runs : run(r).pc # "run") => store.stdout = 0
    /\ store.kind = "env" /\ store.cleanups = <<>> => store.env = seen.before

=============================================================================

----------------------------- MODULE WorkRunners -----------------------------
(******************************************************************************)
(* What runs the work of its callers: workflow, state, concurrency and rules. *)
(******************************************************************************)
EXTENDS Integers, Sequences, SequencesExt, FiniteSets, FiniteSetsExt, Functions

VARIABLES store, proc, seen   \* what they hold is said in each part

vars == <<store, proc, seen>>

-----------------------------------------------------------------------------
(***************************************************************************)
(* )                                                                       *)
(***************************************************************************)
CONSTANTS
    Works,                   \* 1 .. n
    Kinds, FailurePolicies, FalseBranches

\* store: the runner, its contexts, the works' reports, the cause that stopped it and its report.
\* proc: per work: "new", "running", "returned" or "ended".
\* seen: history: works whose report was not a consequence of the runner's cancellation.

(* workflow.Sequential, Conditional and Parallel with the aggregation of     *)
(* workreport: works run (the parallel ones as goroutines under one context  *)
(* that the first stopping report cancels), and their reports become the     *)
(* runner's.                                                                 *)
(***************************************************************************)

StopOnFailure == "stop"
ContinueOnFailure == "continue"
Statuses == {"completed", "failed", "partial", "aborted", "cancelled"}

IsTerminal(status) == status \in Statuses
validPolicy(policy) == policy \in {StopOnFailure, ContinueOnFailure}

-----------------------------------------------------------------------------
(* workreport                                                              *)

\* The children through the first that did not complete, whose status is the parent's.
aggregateStopOnFailure(children) ==
    LET bad == {i \in DOMAIN children : children[i] # "completed"}
        first == Min(bad)
    IN  IF bad = {} THEN [status |-> "completed", children |-> children]
        ELSE [status |-> children[first], children |-> SubSeq(children, 1, first)]

aggregateContinueOnFailure(children) ==
    [status |-> IF \E i \in DOMAIN children : children[i] # "completed" THEN "partial" ELSE "completed", children |-> children]

\* aggregate: an unknown policy is a failed report.
Aggregate(policy, children) ==
    IF ~ validPolicy(policy) THEN [status |-> "failed", children |-> <<>>]
    ELSE IF policy = StopOnFailure THEN aggregateStopOnFailure(children)
    ELSE aggregateContinueOnFailure(children)

Single(status) == [status |-> status, children |-> <<>>]

-----------------------------------------------------------------------------
Nothing == [status |-> "", children |-> <<>>]

InitFlows ==
    /\ \E kind \in Kinds, policy \in FailurePolicies, branches \in FalseBranches :
          store = [kind |-> kind, policy |-> policy, branches |-> branches, caller |-> "live", run |-> "live",
                   results |-> [w \in Works |-> ""], cause |-> 0, at |-> "new", report |-> Nothing]
    /\ proc = [w \in Works |-> "new"]
    /\ seen = {}

\* A work that has not returned has no report, and a runner that stopped for a work has that work's report.
TypeOKFlows ==
    /\ \A w \in Works : (proc[w] \in {"new", "running"}) = (store.results[w] = "")
    /\ store.cause \in {0} \cup Works /\ (store.cause # 0 => IsTerminal(store.results[store.cause]))
    /\ store.report.status \in Statuses \cup {""}

return(report) == store' = [store EXCEPT !.at = "done", !.report = report]
keep == UNCHANGED <<proc, seen>>

\* runWork ends with a report: the context's error, or what the work returned; an unknown status is a failure.
runWork(status) == IF IsTerminal(status) THEN status ELSE "failed"

\* What a work may return; its own cancellation may also come from a context of its own.
Outcomes == Statuses \cup {"unknown"}

\* A work's context is done when the caller's or the runner's is.
Done == store.caller = "done" \/ store.run = "done"

Cancel == store.at # "done" /\ store.caller = "live" /\ store' = [store EXCEPT !.caller = "done"] /\ keep

\* Run: the policy and the context are checked first, and for a condition its branches.
Run ==
    /\ store.at = "new" /\ keep
    /\ \/ /\ store.kind # "conditional" /\ ~ validPolicy(store.policy) /\ return(Single("failed"))
       \/ /\ store.kind = "conditional" /\ store.branches > 1 /\ return(Single("failed"))
       \/ /\ (IF store.kind = "conditional" THEN store.branches <= 1 ELSE validPolicy(store.policy))
          /\ IF store.caller = "done" THEN return(Single("cancelled"))
             ELSE store' = [store EXCEPT !.at = IF store.kind = "conditional" THEN "predicate" ELSE "works"]

\* The predicate answers, or fails; a context error is a cancelled report.
Predicate ==
    /\ store.at = "predicate" /\ keep
    /\ \/ return(Single("failed"))
       \/ return(Single("cancelled"))
       \/ /\ store.caller = "live" /\ store' = [store EXCEPT !.at = "branch1"]
       \/ /\ store.caller = "live"
          /\ IF store.branches = 0 THEN return(Single("completed")) ELSE store' = [store EXCEPT !.at = "branch2"]

-----------------------------------------------------------------------------
(* Works                                                                   *)

\* Which work may start: a branch, the next of a sequence, or any of the parallel ones.
Ready(w) ==
    \/ store.kind = "conditional" /\ <<w, store.at>> \in {<<1, "branch1">>, <<2, "branch2">>}
    \/ store.kind = "sequential" /\ store.at = "works" /\ \A x \in 1 .. w - 1 : proc[x] = "ended"
    \/ store.kind = "parallel" /\ store.at = "works"

\* A work that finds its context done does not run; a nil work is a failure.
Start(w) ==
    /\ proc[w] = "new" /\ Ready(w)
    /\ \/ /\ Done /\ proc' = [proc EXCEPT ![w] = "returned"]
          /\ store' = [store EXCEPT !.results[w] = "cancelled"]
          /\ seen' = IF store.run = "done" THEN seen ELSE seen \cup {w}
       \/ /\ ~ Done /\ proc' = [proc EXCEPT ![w] = "running"] /\ UNCHANGED <<store, seen>>

Finish(w) ==
    /\ proc[w] = "running"
    /\ \E status \in Outcomes :
          /\ proc' = [proc EXCEPT ![w] = "returned"]
          /\ store' = [store EXCEPT !.results[w] = runWork(status)]
          /\ seen' = IF status = "cancelled" /\ store.run = "done" THEN seen ELSE seen \cup {w}

shouldStopOnlyFailure(policy, status) == policy = StopOnFailure /\ status # "completed"

\* shouldStopSequential and shouldCancelParallel.
shouldStop(policy, status) == status \in {"aborted", "cancelled"} \/ (policy = StopOnFailure /\ status # "completed")

\* The goroutine of a parallel work: the first stopping report becomes the cause and cancels the others.
Stop(w) ==
    /\ store.kind = "parallel" /\ proc[w] = "returned"
    /\ proc' = [proc EXCEPT ![w] = "ended"] /\ UNCHANGED seen
    /\ store' = IF shouldStop(store.policy, store.results[w]) /\ store.cause = 0
                THEN [store EXCEPT !.cause = w, !.run = "done"] ELSE store

\* A sequence goes on, or stops with the reports so far.
Continue(w) ==
    /\ store.kind = "sequential" /\ proc[w] = "returned"
    /\ proc' = [proc EXCEPT ![w] = "ended"] /\ UNCHANGED seen
    /\ IF shouldStop(store.policy, store.results[w])
       THEN return(Aggregate(StopOnFailure, SubSeq(store.results, 1, w)))
       ELSE IF w = Cardinality(Works) THEN return(Aggregate(store.policy, store.results)) ELSE UNCHANGED store

Branch(w) ==
    /\ store.kind = "conditional" /\ proc[w] = "returned"
    /\ proc' = [proc EXCEPT ![w] = "ended"] /\ UNCHANGED seen
    /\ return(Aggregate(StopOnFailure, <<store.results[w]>>))

\* parentFrom: the cause's status, with every child.
parentFirst(cause) == Aggregate(store.policy, store.results)

parentFrom(cause) ==
    IF cause # 0 THEN [status |-> store.results[cause], children |-> store.results]
    ELSE Aggregate(store.policy, store.results)

\* All goroutines are waited for.
Wait ==
    /\ store.kind = "parallel" /\ store.at = "works" /\ \A w \in Works : proc[w] = "ended"
    /\ return(parentFrom(store.cause)) /\ keep

NextFlows == Cancel \/ Run \/ Predicate \/ Wait \/ \E w \in Works : Start(w) \/ Finish(w) \/ Stop(w) \/ Continue(w) \/ Branch(w)

-----------------------------------------------------------------------------
(* Properties                                                              *)

\* A report blames what happened: it is completed only when every child is, a stopped parallel runner reports a failure
\* that a work had on its own and not the cancellation that the failure caused, and no work runs once it is returned.
CauseReported ==
    store.report.status # "" =>
        /\ store.report.status = "completed" => \A i \in DOMAIN store.report.children : store.report.children[i] = "completed"
        /\ store.kind = "parallel" /\ store.report.children # <<>> /\ store.report.status # "completed" =>
              \E w \in seen : store.results[w] # "completed" /\ (store.report.status \in {"partial", store.results[w]})
        /\ (store.report.status = "cancelled" /\ store.kind = "parallel" => store.caller = "done" \/ \E w \in seen : store.results[w] = "cancelled")
        /\ \A w \in Works : proc[w] # "running"

\* Aborted and cancelled works stop a sequence under both policies: no work starts after one.
StopsAfterAbort ==
    store.kind = "sequential" =>
        \A w \in Works : store.results[w] \in {"aborted", "cancelled"} => \A x \in Works : x > w => proc[x] = "new"

-----------------------------------------------------------------------------
(***************************************************************************)
(* )                                                                       *)
(***************************************************************************)
CONSTANTS
    Callers, Events, Tables,  \* Tables: sequences of transitions [from, event, to, guarded]
    FinalStates, InitialState, MaxCommits

\* store: the machine: its table and current state.
\* proc: per caller: where it is, the event, from, target and context.
\* seen: history: the results returned, in the order they were committed.

(* state.Machine: transitions whose guards run without the lock, so that the *)
(* state may change between the lookup and the commit.                       *)
(***************************************************************************)

Idle == [pc |-> "idle", event |-> "", from |-> "", to |-> "", asks |-> FALSE, ctx |-> "live"]

Keys(table) == {<<table[i].from, table[i].event>> : i \in DOMAIN table}
States(table) == FinalStates \cup {table[i].from : i \in DOMAIN table} \cup {table[i].to : i \in DOMAIN table}

\* NewMachine refuses two transitions for one state and event, and an initial state that nothing mentions.
NewMachine(table) == Cardinality(Keys(table)) = Len(table) /\ InitialState \in States(table)

InitMachine ==
    /\ \E table \in Tables : NewMachine(table) /\ store = [table |-> table, current |-> InitialState]
    /\ proc = [c \in Callers |-> Idle]
    /\ seen = <<>>

\* The machine is in a known state, and callers hold transitions of the table.
TypeOKMachine ==
    /\ store.current \in States(store.table)
    /\ \A c \in Callers : proc[c].pc \in {"guard", "commit"} => <<proc[c].from, proc[c].event>> \in Keys(store.table)

setMachine(c, with) == proc' = [proc EXCEPT ![c] = with]
returnMachine(c) == setMachine(c, Idle)

Target(from, event) == store.table[CHOOSE i \in DOMAIN store.table : store.table[i].from = from /\ store.table[i].event = event]

\* lookup, under the read lock.
refused(event) == store.current \in FinalStates \/ <<store.current, event>> \notin Keys(store.table)

lookupFinal(event) == <<store.current, event>> \in Keys(store.table)

lookup(event) == ~ refused(event)

\* Transition and CanTransition begin alike; what they find is kept while the guard runs.
begin(c, event, asks) ==
    /\ proc[c].pc = "idle" /\ Len(seen) < MaxCommits /\ UNCHANGED <<store, seen>>
    /\ lookup(event)
    /\ LET t == Target(store.current, event)
       IN  setMachine(c, [pc |-> IF t.guarded THEN "guard" ELSE "commit", event |-> event, from |-> store.current, to |-> t.to,
                   asks |-> asks, ctx |-> "live"])

Transition(c, event) == begin(c, event, FALSE)
CanTransition(c, event) == begin(c, event, TRUE)

\* The guard rejects or accepts, and may take as long as it likes.
Guard(c) ==
    /\ proc[c].pc = "guard" /\ UNCHANGED <<store, seen>>
    /\ returnMachine(c) \/ setMachine(c, [proc[c] EXCEPT !.pc = "commit"])

CancelMachine(c) == proc[c].pc # "idle" /\ proc[c].ctx = "live" /\ setMachine(c, [proc[c] EXCEPT !.ctx = "done"]) /\ UNCHANGED <<store, seen>>

\* The context is checked again, and then, under the lock, that the state is still the one that was looked up.
blind(c) == TRUE

unchangedState(c) == store.current = proc[c].from

Commit(c) ==
    /\ proc[c].pc = "commit" /\ returnMachine(c)
    /\ IF proc[c].ctx = "live" /\ ~ proc[c].asks /\ unchangedState(c)
       THEN /\ store' = [store EXCEPT !.current = proc[c].to]
            /\ seen' = Append(seen, [previous |-> proc[c].from, event |-> proc[c].event, current |-> proc[c].to])
       ELSE UNCHANGED <<store, seen>>

NextMachine == \E c \in Callers : Guard(c) \/ CancelMachine(c) \/ Commit(c) \/ \E e \in Events : Transition(c, e) \/ CanTransition(c, e)

-----------------------------------------------------------------------------
(* Properties                                                              *)

\* The results that Transition returned chain up in commit order, from the initial state to the current one, each along
\* a registered transition, and none leaves a final state, however many guards ran at once.
ResultsChain ==
    LET from(i) == IF i = 1 THEN InitialState ELSE seen[i - 1].current
    IN  /\ \A i \in DOMAIN seen : /\ seen[i].previous = from(i) /\ seen[i].previous \notin FinalStates
                                  /\ <<seen[i].previous, seen[i].event>> \in Keys(store.table)
        /\ store.current = from(Len(seen) + 1)

-----------------------------------------------------------------------------
(***************************************************************************)
(* )                                                                       *)
(***************************************************************************)
CONSTANTS
    Tasks,                   \* 1 .. n: the values, jobs or units in order
    KindsTasks, Limits,           \* "foreach", "map", "pool", "stress" or "robin"; the group's limit, or the number of workers
    Robins, Maximum, MaxNexts

\* store: the call: its kind, contexts, the next task to hand over, its error and its answer.
\* proc: per task: "new", "running" or how it ended; round robin callers: what they loaded.
\* seen: history: how often each task ran, and the indexes that RoundRobin gave.

(* Package concurrency (Group, ForEach, Map, WorkerPool, RoundRobin) and the *)
(* runner of testing/concurrency: tasks run under one context that the first *)
(* error cancels, jobs are handed over on a channel, and Wait answers.       *)
(***************************************************************************)

Running == {t \in Tasks : proc.task[t] = "running"}

InitTasks ==
    /\ \E kind \in KindsTasks, limit \in Limits :
          store = [kind |-> kind, limit |-> limit, caller |-> "live", group |-> "live", next |-> 1, closed |-> FALSE,
                   left |-> {}, err |-> "", started |-> 0, completed |-> 0, failures |-> 0, max |-> 0,
                   answer |-> "", counter |-> 0]
    /\ proc = [task |-> [t \in Tasks |-> "new"], robin |-> [r \in Robins |-> Maximum]]
    /\ seen = [ran |-> [t \in Tasks |-> 0], given |-> [i \in 0 .. Maximum - 1 |-> 0]]

\* Counters agree with the tasks, and the round robin's counter is an index.
TypeOKTasks ==
    /\ store.counter \in 0 .. Maximum - 1 /\ store.next \in 1 .. Cardinality(Tasks) + 1
    /\ (store.kind = "stress" => store.started = Cardinality({t \in Tasks : proc.task[t] # "new"}))
    /\ store.completed + store.failures <= Cardinality(Tasks) + 1
    /\ store.answer \in {"", "nil", "error"}

DoneTasks == store.caller = "done" \/ store.group = "done"
Waiting == store.answer = "" /\ store.kind # "robin"

CancelTasks == Waiting /\ store.caller = "live" /\ store' = [store EXCEPT !.caller = "done"] /\ UNCHANGED <<proc, seen>>

\* errgroup (external): the first error is kept and cancels the group's context.
failed(s, err) == IF s.kind = "stress" \/ s.err # "" THEN s ELSE [s EXCEPT !.err = err, !.group = "done"]

-----------------------------------------------------------------------------
(* ForEach and Map                                                         *)

\* Go blocks while the limit is reached; runTask does not call the task when the context is done.
Go(t) ==
    /\ Waiting /\ t = store.next /\ Cardinality(Running) < store.limit
    /\ \/ /\ DoneTasks /\ proc' = [proc EXCEPT !.task[t] = "skipped"] /\ UNCHANGED seen
          /\ store' = failed([store EXCEPT !.next = @ + 1], "context")
       \/ /\ ~ DoneTasks /\ proc' = [proc EXCEPT !.task[t] = "running"]
          /\ store' = [store EXCEPT !.next = @ + 1]
          /\ seen' = [seen EXCEPT !.ran[t] = @ + 1]

ForEach(t) == store.kind = "foreach" /\ Go(t)

\* Map keeps the result of task t at its index; an error discards the results.
Map(t) == store.kind = "map" /\ Go(t)

\* A task returns nil or an error, or panics, which capturePanic makes an error.
finishSilently(t, how) ==
    /\ t \in Running /\ proc' = [proc EXCEPT !.task[t] = how] /\ UNCHANGED seen
    /\ store' = [store EXCEPT !.completed = @ + 1]

finish(t, how) ==
    /\ t \in Running /\ proc' = [proc EXCEPT !.task[t] = how] /\ UNCHANGED seen
    /\ store' = IF how = "ok" THEN [store EXCEPT !.completed = @ + 1] ELSE failed([store EXCEPT !.failures = @ + 1], how)

-----------------------------------------------------------------------------
(* WorkerPool and the stress runner                                        *)

\* A worker that is neither running a task nor gone takes the next job.  It is a choice of select whether a worker whose
\* context is done leaves or takes another job.
IdleTasks == store.limit - Cardinality(store.left) - Cardinality(Running)

Take(t) ==
    /\ store.kind = "pool" /\ Waiting /\ ~ store.closed /\ t = store.next /\ IdleTasks > 0
    /\ proc' = [proc EXCEPT !.task[t] = "running"]
    /\ seen' = [seen EXCEPT !.ran[t] = @ + 1]
    /\ store' = [store EXCEPT !.next = @ + 1]

\* recorder.start
start == [store EXCEPT !.next = @ + 1, !.started = @ + 1, !.max = Max({@, Cardinality(Running) + 1})]

\* recorder.finish and recorder.addError
finishUnit(s, how) == IF how = "ok" THEN [s EXCEPT !.completed = @ + 1] ELSE [s EXCEPT !.failures = @ + 1, !.err = how]
addError(s) == [s EXCEPT !.failures = @ + 1, !.err = "context"]

\* A worker of the stress runner; runSafely does not call a task when the context is done.
TakeUnit(t) ==
    /\ store.kind = "stress" /\ Waiting /\ ~ store.closed /\ t = store.next /\ IdleTasks > 0
    /\ \/ /\ DoneTasks /\ proc' = [proc EXCEPT !.task[t] = "skipped"] /\ UNCHANGED seen
          /\ store' = finishUnit(start, "context")
       \/ /\ ~ DoneTasks /\ proc' = [proc EXCEPT !.task[t] = "running"]
          /\ seen' = [seen EXCEPT !.ran[t] = @ + 1]
          /\ store' = start

runSafely(t) ==
    /\ store.kind = "stress" /\ t \in Running /\ UNCHANGED seen
    /\ \E how \in {"ok", "failed", "panicked"} :
          proc' = [proc EXCEPT !.task[t] = how] /\ store' = finishUnit(store, how)

\* A worker leaves: its context is done, a task of its failed (pool), or the channel is closed and empty.
Leave ==
    /\ store.kind \in {"pool", "stress"} /\ Waiting /\ IdleTasks > 0
    /\ \/ DoneTasks /\ store' = failed([store EXCEPT !.left = @ \cup {Cardinality(@) + 1}], "context")
       \/ store.closed /\ store' = [store EXCEPT !.left = @ \cup {Cardinality(@) + 1}]
    /\ UNCHANGED <<proc, seen>>

\* In a pool the worker of a task that failed leaves with the error.
FailWorker(t, how) ==
    /\ store.kind = "pool" /\ t \in Running /\ UNCHANGED seen
    /\ proc' = [proc EXCEPT !.task[t] = how]
    /\ store' = failed([store EXCEPT !.failures = @ + 1, !.left = @ \cup {Cardinality(@) + 1}], how)

\* The jobs' owner closes the channel when all were taken (pool); the stress runner also when its context is done.
CloseJobs ==
    /\ store.kind \in {"pool", "stress"} /\ Waiting /\ ~ store.closed /\ UNCHANGED <<proc, seen>>
    /\ \/ store.next > Cardinality(Tasks) /\ store' = [store EXCEPT !.closed = TRUE]
       \/ /\ store.kind = "stress" /\ DoneTasks /\ store.next <= Cardinality(Tasks)
          /\ store' = addError([store EXCEPT !.closed = TRUE])

FinishTasks(t) ==
    \/ store.kind = "pool" /\ (finish(t, "ok") \/ FailWorker(t, "failed") \/ FailWorker(t, "panicked"))
    \/ store.kind \in {"foreach", "map"} /\ \E how \in {"ok", "failed", "panicked"} : finish(t, how)

\* Wait: all tasks or all workers have ended.
WaitTasks ==
    /\ Waiting /\ Running = {} /\ UNCHANGED <<proc, seen>>
    /\ IF store.kind \in {"foreach", "map"} THEN store.next > Cardinality(Tasks)
       ELSE Cardinality(store.left) = store.limit /\ (store.kind = "stress" => store.closed)
    /\ store' = [store EXCEPT !.answer = IF store.err = "" THEN "nil" ELSE "error"]

-----------------------------------------------------------------------------
(* RoundRobin                                                              *)

Load(r) ==
    /\ store.kind = "robin" /\ proc.robin[r] = Maximum /\ SumFunction(seen.given) < MaxNexts
    /\ proc' = [proc EXCEPT !.robin[r] = store.counter] /\ UNCHANGED <<store, seen>>

next(current) == IF current + 1 >= Maximum THEN 0 ELSE current + 1

swapBlindly(r) ==
    /\ proc.robin[r] # Maximum /\ proc' = [proc EXCEPT !.robin[r] = Maximum]
    /\ store' = [store EXCEPT !.counter = next(proc.robin[r])]
    /\ seen' = [seen EXCEPT !.given[next(proc.robin[r])] = @ + 1]

\* CompareAndSwap; when it fails the loop loads again.
compareAndSwap(r) ==
    /\ proc.robin[r] # Maximum /\ proc' = [proc EXCEPT !.robin[r] = Maximum]
    /\ IF store.counter = proc.robin[r]
       THEN /\ store' = [store EXCEPT !.counter = next(proc.robin[r])]
            /\ seen' = [seen EXCEPT !.given[next(proc.robin[r])] = @ + 1]
       ELSE UNCHANGED <<store, seen>>

NextTasks ==
    \/ CancelTasks \/ Leave \/ CloseJobs \/ WaitTasks
    \/ \E t \in Tasks : ForEach(t) \/ Map(t) \/ Take(t) \/ TakeUnit(t) \/ runSafely(t) \/ FinishTasks(t)
    \/ \E r \in Robins : Load(r) \/ compareAndSwap(r)

-----------------------------------------------------------------------------
(* Properties                                                              *)

\* A call that answers nil has run every task to its end, exactly once and without an error (so that Map's results are
\* all set), and never more tasks at a time than its limit, whoever cancels and whichever case select chooses.
NilMeansAllRan ==
    /\ Cardinality(Running) <= store.limit /\ store.max <= store.limit
    /\ \A t \in Tasks : seen.ran[t] <= 1
    /\ store.answer = "nil" => \A t \in Tasks : proc.task[t] = "ok"

\* Concurrent calls of RoundRobin.Next give every index equally often.
RoundsAreEven == \A i, j \in 0 .. Maximum - 1 : seen.given[i] - seen.given[j] \in -1 .. 1

-----------------------------------------------------------------------------
(***************************************************************************)
(* )                                                                       *)
(***************************************************************************)
CONSTANTS
    Documents,               \* sequences of rules: [name, priority, kind, children, when, then, fails]
    Configs,                 \* engine settings: [applied, failed, notTriggered, threshold, cycles], cycles 0 for a plain Engine
    KeysRules, FactValues,
    MaxOutside               \* bound: the calls of other goroutines

(* Package rules and rules/exprreader: an Engine, or an InferenceEngine that *)
(* runs it in cycles, applies the rules of a RuleSet to shared Facts, while  *)
(* other goroutines set facts, change the rule set or cancel the context.    *)
(* A leaf rule tests one fact and sets facts; a composite rule evaluates and *)
(* executes its children one call at a time.                                 *)
(***************************************************************************)

NoThreshold == 99
Result == [applied |-> 0, failed |-> 0, notTriggered |-> 0, skipped |-> 0, details |-> <<>>, stop |-> ""]

-----------------------------------------------------------------------------
(* Loading: exprreader and RuleSet                                         *)

\* A document needs a rule; each has a name and a condition, actions only set a fact, and an expression must not call.
validateDocument(doc) == doc # <<>> /\ \A i \in DOMAIN doc : doc[i].name # 0 /\ \A j \in DOMAIN doc[i].then : doc[i].then[j][1] # ""

compiles(doc) == \A i \in DOMAIN doc : doc[i].when[1] # "call()"

\* Names are unique, and a composite has children, the guard among them; the guard of a conditional group is its first.
addable(doc) ==
    /\ \A i, j \in DOMAIN doc : doc[i].name = doc[j].name => i = j
    /\ \A i \in DOMAIN doc : doc[i].kind # "leaf" => doc[i].children # <<>>

LoadRules(doc) == IF validateDocument(doc) /\ compiles(doc) /\ addable(doc) THEN doc ELSE <<>>

NewInferenceEngine(c) == c.cycles > 0 => ~c.notTriggered

before(a, b) == a.priority < b.priority \/ (a.priority = b.priority /\ a.name < b.name)

\* The snapshot that a run works through: the children of composites are kept in sets of their own.
entries(doc, present) == SortSeq(SelectSeq(doc, LAMBDA r : r.name \in present), before)

InitRules ==
    /\ store \in {[doc |-> LoadRules(d), facts |-> [k \in KeysRules |-> 0], present |-> {LoadRules(d)[i].name : i \in DOMAIN LoadRules(d)}, cancelled |-> FALSE] : d \in Documents}
    /\ proc \in {[pc |-> IF NewInferenceEngine(c) THEN "cycle" ELSE "returned", config |-> c, entries |-> <<>>, i |-> 0, child |-> 0,
                  doing |-> "", ran |-> FALSE, cycle |-> 0, result |-> Result, total |-> 0,
                  error |-> IF NewInferenceEngine(c) THEN "" ELSE "config", converged |-> FALSE] : c \in Configs}
    /\ seen = [outside |-> 0, touched |-> FALSE]

TypeOKRules ==
    /\ store.facts \in [KeysRules -> FactValues \cup {0}]
    /\ proc.pc \in {"cycle", "take", "evaluate", "execute", "returned"}
    /\ proc.result.applied + proc.result.failed + proc.result.notTriggered + proc.result.skipped = Len(proc.result.details)

-----------------------------------------------------------------------------
(* Other goroutines                                                        *)

Outside == seen.outside < MaxOutside /\ proc' = proc /\ seen' = [seen EXCEPT !.outside = @ + 1, !.touched = TRUE]

Set(k, v) == Outside /\ store.facts[k] # v /\ store' = [store EXCEPT !.facts[k] = v]
RemoveRule(n) == Outside /\ n \in store.present /\ store' = [store EXCEPT !.present = @ \ {n}]
AddRule(r) == Outside /\ r.name \notin store.present /\ store' = [store EXCEPT !.present = @ \cup {r.name}]
CancelRules == Outside /\ ~store.cancelled /\ store' = [store EXCEPT !.cancelled = TRUE]

-----------------------------------------------------------------------------
(* Engine.Run                                                              *)

Rule == proc.entries[proc.i]

\* The leaf called: the rule itself, or the child of a composite.
Called == IF Rule.kind = "leaf" THEN Rule ELSE Rule.children[proc.child]
AtLast == Rule.kind = "leaf" \/ proc.child = Len(Rule.children)

\* A compiled rule returns the context's error before it looks at the facts.
Evaluate(r) ==
    IF store.cancelled THEN "canceled"
    ELSE IF r.fails = "evaluate" THEN "error"
    ELSE IF store.facts[r.when[1]] = r.when[2] THEN "yes" ELSE "no"

Execute(r) == IF store.cancelled THEN "canceled" ELSE IF r.fails = "execute" THEN "error" ELSE "done"

factsAfter(r) == IF Execute(r) = "done" THEN FoldLeft(LAMBDA f, set : [f EXCEPT ![set[1]] = set[2]], store.facts, r.then) ELSE store.facts

stopped(result, why, error) == [proc EXCEPT !.pc = "cycle", !.result = [result EXCEPT !.stop = why], !.error = error]
onward(result) == [proc EXCEPT !.pc = "take", !.result = result]
detail(field, what) ==
    [proc.result EXCEPT ![field] = @ + 1, !.details = Append(@, <<Rule.name, what>>)]

\* What the engine notes about a rule that failed, or that the context stopped.
afterFailure(how, what) ==
    IF how = "canceled" THEN stopped(detail("failed", what), "cancelled", "canceled")
    ELSE IF proc.config.failed THEN stopped(detail("failed", what), what, "rule")
    ELSE onward(detail("failed", what))

afterNo == IF proc.config.notTriggered THEN stopped(detail("notTriggered", "not_triggered"), "not_triggered", "")
           ELSE onward(detail("notTriggered", "not_triggered"))
afterApplied == IF proc.config.applied THEN stopped(detail("applied", "applied"), "applied", "") ELSE onward(detail("applied", "applied"))

\* Before executing a rule that triggered, the engine looks at the context once more.
toExecute ==
    IF store.cancelled THEN stopped(proc.result, "cancelled", "canceled")
    ELSE [proc EXCEPT !.pc = "execute", !.child = 1, !.doing = IF Rule.kind = "leaf" THEN "execute" ELSE "evaluate", !.ran = FALSE]

TakeRules ==
    /\ proc.pc = "take" /\ proc.i < Len(proc.entries)
    /\ LET r == proc.entries[proc.i + 1]
           at == [proc EXCEPT !.i = @ + 1]
       IN  proc' = IF r.priority > proc.config.threshold
                   THEN [at EXCEPT !.result.skipped = @ + 1, !.result.details = Append(@, <<r.name, "skipped">>)]
                   ELSE IF store.cancelled THEN [stopped(proc.result, "cancelled", "canceled") EXCEPT !.i = @ + 1]
                   ELSE [at EXCEPT !.pc = "evaluate", !.child = 1]
    /\ UNCHANGED <<store, seen>>

more == [proc EXCEPT !.child = @ + 1]

\* One call of a leaf's Evaluate, made by the engine or by the composite that the engine evaluates.
EvaluateRule ==
    /\ proc.pc = "evaluate"
    /\ LET how == Evaluate(Called)
       IN  proc' = IF how \in {"error", "canceled"} THEN afterFailure(how, "evaluation_failed")
                   ELSE IF Rule.kind = "activation" /\ how = "no" /\ ~AtLast THEN more
                   ELSE IF Rule.kind = "unit" /\ how = "yes" /\ ~AtLast THEN more
                   ELSE IF how = "yes" THEN toExecute
                   ELSE afterNo
    /\ UNCHANGED <<store, seen>>

runChild == [proc EXCEPT !.doing = "execute"]
noMatch == afterFailure("error", "execution_failed")

\* A composite's Execute evaluates its children again: what triggered it may be gone.
executeFirstMatchingRule(how) == IF how = "yes" THEN runChild ELSE IF AtLast THEN noMatch ELSE more

executeUnitGroup(how) == IF how = "no" THEN noMatch ELSE IF AtLast THEN [runChild EXCEPT !.child = 1] ELSE more

\* The guard is the first child; at least one of the others must run.
executeConditionalGroup(how) ==
    IF proc.child = 1 THEN (IF how = "no" \/ AtLast THEN noMatch ELSE more)
    ELSE IF how = "yes" THEN runChild
    ELSE IF ~AtLast THEN more
    ELSE IF proc.ran THEN afterApplied ELSE noMatch

executeAgain(how) ==
    CASE Rule.kind = "activation"  -> executeFirstMatchingRule(how)
      [] Rule.kind = "unit"        -> executeUnitGroup(how)
      [] Rule.kind = "conditional" -> executeConditionalGroup(how)

EvaluateAgain ==
    /\ proc.pc = "execute" /\ proc.doing = "evaluate"
    /\ proc' = IF Evaluate(Called) \in {"error", "canceled"} THEN afterFailure(Evaluate(Called), "execution_failed") ELSE executeAgain(Evaluate(Called))
    /\ UNCHANGED <<store, seen>>

ExecuteRule ==
    /\ proc.pc = "execute" /\ proc.doing = "execute"
    /\ proc' = IF Execute(Called) # "done" THEN afterFailure(Execute(Called), "execution_failed")
               ELSE IF Rule.kind \in {"leaf", "activation"} \/ AtLast THEN afterApplied
               ELSE [proc EXCEPT !.child = @ + 1, !.ran = TRUE, !.doing = IF Rule.kind = "unit" THEN "execute" ELSE "evaluate"]
    /\ store' = [store EXCEPT !.facts = factsAfter(Called)]
    /\ UNCHANGED seen

joinedLast(result) == IF result.details # <<>> /\ result.details[Len(result.details)][2] = "execution_failed" THEN "rule" ELSE ""

\* At the end of the rules, the errors of those that failed are joined.
resultError(result) == IF result.failed > 0 THEN "rule" ELSE ""

EndRun ==
    /\ proc.pc = "take" /\ proc.i = Len(proc.entries)
    /\ proc' = [proc EXCEPT !.pc = "cycle", !.error = resultError(proc.result)]
    /\ UNCHANGED <<store, seen>>

-----------------------------------------------------------------------------
(* InferenceEngine.Run                                                     *)

returnRules(p, error, converged) == [p EXCEPT !.pc = "returned", !.error = error, !.converged = converged]

anotherCycle == [proc EXCEPT !.pc = "take", !.entries = entries(store.doc, store.present), !.i = 0, !.cycle = @ + 1, !.result = Result]

afterCycleUnchecked(p) ==
    IF proc.error # "" THEN returnRules(p, proc.error, FALSE)
    ELSE IF proc.config.cycles = 0 THEN returnRules(p, "", FALSE)
    ELSE IF proc.result.failed = 0 /\ proc.cycle > 1 THEN returnRules(p, "", TRUE)
    ELSE p

\* A cycle that applied nothing has converged; an engine without cycles returns its first.
afterCycle(p) ==
    IF proc.error # "" THEN returnRules(p, proc.error, FALSE)
    ELSE IF proc.config.cycles = 0 THEN returnRules(p, "", FALSE)
    ELSE IF proc.result.applied = 0 THEN returnRules(p, "", TRUE)
    ELSE p

Cycle ==
    /\ proc.pc = "cycle"
    /\ LET totalled == [proc EXCEPT !.total = @ + proc.result.applied]
           ended == IF proc.cycle = 0 THEN totalled ELSE afterCycle(totalled)
       IN  proc' = IF ended.pc = "returned" THEN ended
                   ELSE IF proc.config.cycles > 0 /\ proc.cycle = proc.config.cycles THEN returnRules(totalled, "non_converged", FALSE)
                   ELSE IF proc.config.cycles > 0 /\ store.cancelled THEN returnRules(totalled, "canceled", FALSE)
                   ELSE [anotherCycle EXCEPT !.total = totalled.total]
    /\ seen' = [seen EXCEPT !.touched = @ /\ proc'.pc = "returned"]
    /\ UNCHANGED store

NextRules ==
    \/ \E k \in KeysRules, v \in FactValues : Set(k, v)
    \/ \E i \in DOMAIN store.doc : RemoveRule(store.doc[i].name) \/ AddRule(store.doc[i])
    \/ CancelRules
    \/ TakeRules \/ EvaluateRule \/ EvaluateAgain \/ ExecuteRule \/ EndRun \/ Cycle

-----------------------------------------------------------------------------
(* Properties                                                              *)

\* What an evaluation of the rule says of the facts as they are.
Triggers(r) ==
    CASE r.kind = "leaf"        -> Evaluate(r) = "yes"
      [] r.kind = "activation"  -> \E i \in DOMAIN r.children : Evaluate(r.children[i]) = "yes"
      [] r.kind = "unit"        -> \A i \in DOMAIN r.children : Evaluate(r.children[i]) = "yes"
      [] r.kind = "conditional" -> Evaluate(r.children[1]) = "yes"

\* A fixpoint: when an inference run returned converged and nobody else touched facts or rules since its last cycle
\* began, no rule within the priority threshold triggers any more.
ConvergedIsFixpoint ==
    proc.pc = "returned" /\ proc.converged /\ ~seen.touched =>
        \A i \in DOMAIN proc.entries : proc.entries[i].priority <= proc.config.threshold => ~Triggers(proc.entries[i])

\* The result accounts for every rule: a run that was not stopped has one detail per rule of its snapshot, in priority
\* order, and a rule's failure is returned unless a configured stop
\* ended the run first.
ResultAccounts ==
    /\ proc.pc = "returned" => /\ (proc.result.stop = "" /\ proc.cycle > 0 /\ proc.error # "canceled") =>
                                     [i \in DOMAIN proc.result.details |-> proc.result.details[i][1]] = [i \in DOMAIN proc.entries |-> proc.entries[i].name]
                               /\ (proc.result.failed > 0 /\ proc.result.stop \notin {"applied", "not_triggered"}) => proc.error # ""

=============================================================================

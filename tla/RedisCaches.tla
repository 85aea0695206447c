----------------------------- MODULE RedisCaches -----------------------------
(*****************************************************************************)
(* Caches over Redis without a loader of their own: cache/redisnear, and the *)
(* values of cache/redisvalue and cache/redisfory.                           *)
(*****************************************************************************)
EXTENDS Integers, Sequences, FiniteSets

VARIABLES store, proc, seen   \* what they hold is said in each part

vars == <<store, proc, seen>>

-----------------------------------------------------------------------------
(***************************************************************************)
(* )                                                                       *)
(***************************************************************************)
CONSTANTS
    Nodes,       \* processes with a near cache
    Closers,     \* the nodes that close theirs
    MaxVersion   \* bound: versions of the source

\* store: the source's version and the messages on their way to every node.
\* proc: the near cache of every node and the call it is in.
\* seen: per node, why its copy may be behind: a lost message, a call overtaken by one.

(* cache/redisnear: NearCache, process-local caches kept in line by        *)
(* invalidation messages over Redis Pub/Sub, for one key.  The values come *)
(* from a source outside the package that every node reads with its loader *)
(* and writes before it calls Set, Delete or Clear.  Redis Pub/Sub is      *)
(* external: a message reaches the nodes subscribed when it is published,  *)
(* in order; a broken connection loses what it had not delivered, and      *)
(* everything until the receiver has subscribed again.                     *)
(***************************************************************************)

Versions == 1 .. MaxVersion
\* Delete and Clear do the same to the one key.
Operations == {"set", "delete"}

TypeOKNear ==
    /\ store \in [source : Versions, queue : [Nodes -> Seq([origin : Nodes, op : Operations])]]
    /\ proc \in [Nodes -> [local : Versions \cup {0}, conn : {"up", "broken", "down"},
                           pc : {"idle", "load", "mutate", "publish"}, op : Operations \cup {"none"},
                           val : Versions \cup {0}, closed : {"open", "closing", "closed", "timeout"},
                           receiving : BOOLEAN]]
    /\ seen \in [missed : [Nodes -> BOOLEAN], raced : [Nodes -> BOOLEAN]]

InitNear ==
    /\ store = [source |-> 1, queue |-> [n \in Nodes |-> <<>>]]
    /\ proc = [n \in Nodes |-> [local |-> 0, conn |-> "up", pc |-> "idle", op |-> "none", val |-> 0,
                                closed |-> "open", receiving |-> TRUE]]
    /\ seen = [missed |-> [n \in Nodes |-> FALSE], raced |-> [n \in Nodes |-> FALSE]]

\* A mutant enter, which looks at closed before it takes the lock.
enterAnyway(n) == proc[n].pc = "idle"

\* enter: a call begins unless the cache is closed.
enter(n) == proc[n].pc = "idle" /\ proc[n].closed = "open"

\* The node's copy is dropped: what it missed no longer matters, a call under way may bring it back.
dropped(s, n) == [s EXCEPT !.missed[n] = FALSE, !.raced[n] = proc[n].pc \in {"load", "mutate"}]

\* GetOrLoad on a miss: the loader reads the source; the copy is filled in a later step.
Load(n) ==
    /\ enter(n)
    /\ proc[n].local = 0
    /\ proc' = [proc EXCEPT ![n].pc = "load", ![n].val = store.source]
    /\ seen' = [seen EXCEPT !.raced[n] = FALSE]
    /\ UNCHANGED store

Fill(n) ==
    /\ proc[n].pc = "load"
    /\ proc' = [proc EXCEPT ![n].pc = "idle", ![n].val = 0, ![n].local = proc[n].val]
    /\ UNCHANGED <<store, seen>>

\* The application has written the source and calls Set with the new value, Delete or Clear.
Write(n) ==
    /\ enter(n)
    /\ store.source < MaxVersion
    /\ \E op \in Operations :
          proc' = [proc EXCEPT ![n].pc = "mutate", ![n].op = op, ![n].val = IF op = "set" THEN store.source + 1 ELSE 0]
    /\ store' = [store EXCEPT !.source = @ + 1]
    /\ seen' = [seen EXCEPT !.raced[n] = FALSE]

\* Set, Delete and Clear change the local cache first.
Mutate(n) ==
    /\ proc[n].pc = "mutate"
    /\ proc' = [proc EXCEPT ![n].pc = "publish", ![n].local = proc[n].val, ![n].val = 0]
    /\ UNCHANGED <<store, seen>>

\* publish: the message goes to the subscribed nodes; the local change stays when it fails.
publish(n) ==
    /\ proc[n].pc = "publish"
    /\ \E sent \in BOOLEAN :
       LET lost == {m \in Nodes \ {n} : ~sent \/ proc[m].conn = "down"}
       IN  /\ store' = [store EXCEPT !.queue =
                           [m \in Nodes |-> IF sent /\ proc[m].conn = "up" /\ proc[m].receiving
                                            THEN Append(@[m], [origin |-> n, op |-> proc[n].op]) ELSE @[m]]]
           /\ seen' = [seen EXCEPT !.missed = [m \in Nodes |-> @[m] \/ m \in lost]]
    /\ proc' = [proc EXCEPT ![n].pc = "idle", ![n].op = "none"]

\* applyMessage: a message of another node drops the copy.
invalidates(n, m) == m.origin # n

\* receive: the next message is applied.
Receive(n) ==
    /\ proc[n].receiving /\ proc[n].conn = "up"
    /\ store.queue[n] # <<>>
    /\ store' = [store EXCEPT !.queue[n] = Tail(@)]
    /\ IF invalidates(n, Head(store.queue[n]))
       THEN proc' = [proc EXCEPT ![n].local = 0] /\ seen' = dropped(seen, n)
       ELSE UNCHANGED <<proc, seen>>

\* The connection of the subscription breaks.
Break(n) ==
    /\ proc[n].conn = "up" /\ proc[n].receiving
    /\ proc' = [proc EXCEPT ![n].conn = "broken"]
    /\ store' = [store EXCEPT !.queue[n] = <<>>]
    /\ UNCHANGED seen

\* A mutant receive, which only reports the error.
ReceiveErrorReported(n) ==
    /\ proc[n].conn = "broken" /\ proc[n].receiving
    /\ proc[n].closed = "open"
    /\ proc' = [proc EXCEPT ![n].conn = "down"]
    /\ UNCHANGED <<store, seen>>

\* receive sees the error: the whole local cache is cleared, then it backs off.
ReceiveError(n) ==
    /\ proc[n].conn = "broken" /\ proc[n].receiving
    /\ proc[n].closed = "open"
    /\ proc' = [proc EXCEPT ![n].conn = "down", ![n].local = 0]
    /\ seen' = dropped(seen, n)
    /\ UNCHANGED store

\* The next ReceiveMessage connects and subscribes again, or fails again and clears again.
Reconnect(n) ==
    /\ proc[n].conn = "down" /\ proc[n].receiving
    /\ \/ proc' = [proc EXCEPT ![n].conn = "up"] /\ UNCHANGED seen
       \/ proc' = [proc EXCEPT ![n].conn = "broken"] /\ UNCHANGED seen
    /\ UNCHANGED store

\* Close: no call begins from here on; the subscription is closed.
Close(n) ==
    /\ n \in Closers /\ proc[n].closed = "open"
    /\ proc' = [proc EXCEPT ![n].closed = "closing"]
    /\ UNCHANGED <<store, seen>>

\* The receiver ends at its next receive.
Stop(n) ==
    /\ proc[n].closed # "open" /\ proc[n].receiving
    /\ proc' = [proc EXCEPT ![n].receiving = FALSE]
    /\ store' = [store EXCEPT !.queue[n] = <<>>]
    /\ UNCHANGED seen

\* Close waits for the calls and for the receiver, each for receiverShutdownBudget.
Closed(n) ==
    /\ proc[n].closed = "closing"
    /\ proc' = [proc EXCEPT ![n].closed = IF proc[n].pc = "idle" /\ ~proc[n].receiving THEN "closed" ELSE "timeout"]
    /\ UNCHANGED <<store, seen>>

NextNear == \E n \in Nodes :
    \/ Load(n) \/ Fill(n) \/ Write(n) \/ Mutate(n) \/ publish(n) \/ Receive(n) \/ Break(n) \/ ReceiveError(n)
    \/ Reconnect(n) \/ Close(n) \/ Stop(n) \/ Closed(n)

SpecNear == InitNear /\ [][NextNear]_vars

-----------------------------------------------------------------------------
(* Properties *)

\* Nothing is on its way to the node, and no node has a call under way.
Quiet(n) == store.queue[n] = <<>> /\ proc[n].conn # "broken" /\ \A m \in Nodes : proc[m].pc = "idle"

\* A node that has missed no message, and none of whose calls was overtaken by one, has no copy
\* older than the source once the messages are in: the messages lost with a connection are made up
\* for by clearing, and peers drop what a node has set (receive, applyMessage, publish).
CopiesFresh == \A n \in Nodes :
    Quiet(n) /\ proc[n].closed = "open" /\ proc[n].local # 0 /\ ~seen.missed[n] /\ ~seen.raced[n]
        => proc[n].local = store.source

\* After a Close that reported no error nothing works on the local cache any more: no call that
\* entered before it, and not the receiver (enter, waitInflight).
ClosedIsQuiet == \A n \in Nodes : proc[n].closed = "closed" => proc[n].pc = "idle" /\ ~proc[n].receiving

-----------------------------------------------------------------------------
(***************************************************************************)
(* )                                                                       *)
(***************************************************************************)
CONSTANTS
    MaxBytes,      \* MaxValueBytes, MaxPayloadBytes
    TTLs,          \* remote TTLs used, 0 for none
    LocalTTL,      \* Tiered.LocalTTL
    MaxClock,      \* bound on the clock
    MaxWrites      \* bound: states of the key during one read

\* store: the key, the clock and the expiry of both levels.
\* proc: the read and the write under way.
\* seen: the states of the key since the read began.

(* cache/redisvalue (ValueCache) and cache/redisfory (ValueCache): the     *)
(* serialized values of one Redis key, read by one cache of either kind    *)
(* while other caches write it; and, apart from that, the TTLs of a write  *)
(* through both levels of redisvalue.                                      *)
(***************************************************************************)

\* The clock counts quarters of a millisecond, and a second is short.
Millisecond == 4
Second == 8

\* normalizeWireTTL: Redis takes whole milliseconds, or seconds when nothing is lost by it.
normalizeWireTTL(ttl) ==
    IF ttl = 0 THEN 0
    ELSE IF ttl < Millisecond THEN Millisecond
    ELSE IF ttl % Second = 0 THEN ttl
    ELSE ttl - (ttl % Millisecond)

\* A mutant knownWriteLocalTTL, which does not count the time the SET took.
localTTLIgnoringLatency(remoteTTL, elapsed) ==
    LET remaining == normalizeWireTTL(remoteTTL)
    IN  IF remoteTTL = 0 THEN LocalTTL ELSE IF remaining <= 0 THEN 0
        ELSE IF LocalTTL < remaining THEN LocalTTL ELSE remaining

\* knownWriteLocalTTL: the L1 TTL after a SET that took elapsed, 0 when the entry is gone already.
knownWriteLocalTTL(remoteTTL, elapsed) ==
    LET remaining == normalizeWireTTL(remoteTTL) - elapsed
    IN  IF remoteTTL = 0 THEN LocalTTL ELSE IF remaining <= 0 THEN 0
        ELSE IF LocalTTL < remaining THEN LocalTTL ELSE remaining

\* The bytes of the key: none, or an envelope with what the header says and the payload's length.  A
\* redisvalue payload has no header, and may be empty.
Absent == [here |-> FALSE, magic |-> FALSE, profile |-> "fast", generation |-> 0, declared |-> 0, length |-> 0]
wrap(profile, generation, length) ==
    [here |-> TRUE, magic |-> TRUE, profile |-> profile, generation |-> generation,
     declared |-> length, length |-> length]
Bare(length) == [Absent EXCEPT !.here = TRUE, !.length = length]
Keys == {Absent, Bare(0), Bare(1), Bare(MaxBytes + 1)}
        \cup {wrap(f, g, n) : f \in {"fast", "compatible"}, g \in {1, 2}, n \in {1, MaxBytes + 1}}
        \cup {[wrap("fast", 1, 1) EXCEPT !.length = 0]}

\* A mutant unwrap, which does not compare the schema generation.
unwrapAnyGeneration(e) ==
    IF e.length > MaxBytes THEN "too large"
    ELSE IF ~e.magic THEN "invalid"
    ELSE IF e.profile # "fast" THEN "format"
    ELSE IF e.declared # e.length THEN "length" ELSE "value"

\* unwrap by a native-fast cache of schema generation 1, in the order of its checks.
unwrap(e) ==
    IF e.length > MaxBytes THEN "too large"
    ELSE IF ~e.magic THEN "invalid"
    ELSE IF e.profile # "fast" THEN "format"
    ELSE IF e.generation # 1 THEN "schema"
    ELSE IF e.declared # e.length THEN "length" ELSE "value"

decode(kind, e) == IF kind = "fory" THEN unwrap(e)
                   ELSE IF e.length > MaxBytes THEN "too large" ELSE "value"

Results == {"none", "miss", "value", "too large", "invalid", "format", "schema", "length"}

TypeOKValue ==
    /\ store \in [key : Keys, clock : 0 .. MaxClock, l2 : 0 .. 2 * MaxClock, l1 : 0 .. 2 * MaxClock]
    /\ proc \in [kind : {"value", "fory", "write"}, pc : {"idle", "again", "done"}, result : Results,
                 write : {"idle", "set", "answer"}, started : 0 .. MaxClock, ttl : TTLs \cup {0}]
    /\ seen \in SUBSET Keys

InitValue ==
    /\ store = [key |-> Absent, clock |-> 0, l2 |-> 0, l1 |-> 0]
    /\ proc \in [kind : {"value", "fory", "write"}, pc : {"idle"}, result : {"none"}, write : {"idle"}, started : {0}, ttl : {0}]
    /\ seen = {}

\* Another cache, with another configuration perhaps, writes or deletes the key.
WriteValue ==
    /\ proc.kind # "write"
    /\ Cardinality(seen) < MaxWrites
    /\ \E k \in Keys : store' = [store EXCEPT !.key = k]
    /\ seen' = IF proc.pc = "again" THEN seen \cup {store'.key} ELSE {}
    /\ proc' = IF proc.pc = "done" THEN [proc EXCEPT !.pc = "idle", !.result = "none"] ELSE proc

Visible(e) == e.here /\ (e.magic \/ e.length > 0)

\* The bounded GETRANGE of Get: bytes are decoded, an empty answer is looked into.
GetRange ==
    /\ proc.kind # "write" /\ proc.pc \in {"idle", "done"}
    /\ proc' = IF Visible(store.key)
               THEN [proc EXCEPT !.pc = "done", !.result = decode(proc.kind, store.key)]
               ELSE [proc EXCEPT !.pc = "again", !.result = "none"]
    /\ seen' = {store.key}
    /\ UNCHANGED store

\* A mutant ReadBounded, which believes the first, empty answer.
RereadNothing ==
    /\ proc.pc = "again" /\ proc.kind = "value"
    /\ proc' = [proc EXCEPT !.pc = "done", !.result = IF store.key.here THEN decode("value", Bare(0)) ELSE "miss"]
    /\ UNCHANGED <<store, seen>>

\* ReadBounded of redisvalue reads bytes and existence again in one transaction.
ReadBounded ==
    /\ proc.pc = "again" /\ proc.kind = "value"
    /\ proc' = [proc EXCEPT !.pc = "done", !.result = IF store.key.here THEN decode("value", store.key) ELSE "miss"]
    /\ UNCHANGED <<store, seen>>

\* redisfory asks only whether the key exists, and decodes the empty answer it has.
Exists ==
    /\ proc.pc = "again" /\ proc.kind = "fory"
    /\ proc' = [proc EXCEPT !.pc = "done", !.result = IF store.key.here THEN unwrap(Bare(0)) ELSE "miss"]
    /\ UNCHANGED <<store, seen>>

\* A known write: the clock is read, Redis sets the key some time before the answer, and L1 is
\* filled for what is left of the TTL.
Start ==
    /\ proc.kind = "write" /\ proc.write = "idle" /\ store.l2 = 0
    /\ \E t \in TTLs : proc' = [proc EXCEPT !.write = "set", !.started = store.clock, !.ttl = t]
    /\ UNCHANGED <<store, seen>>

Set ==
    /\ proc.write = "set"
    /\ proc' = [proc EXCEPT !.write = "answer"]
    /\ store' = [store EXCEPT !.l2 = IF proc.ttl = 0 THEN 2 * MaxClock ELSE store.clock + normalizeWireTTL(proc.ttl)]
    /\ UNCHANGED seen

Populate ==
    /\ proc.write = "answer"
    /\ LET ttl == knownWriteLocalTTL(proc.ttl, store.clock - proc.started)
       IN  store' = [store EXCEPT !.l1 = IF ttl = 0 THEN 0 ELSE store.clock + ttl]
    /\ proc' = [proc EXCEPT !.write = "idle", !.started = 0, !.ttl = 0]
    /\ UNCHANGED seen

Tick ==
    /\ proc.write # "idle" /\ store.clock < MaxClock
    /\ store' = [store EXCEPT !.clock = @ + 1]
    /\ UNCHANGED <<proc, seen>>

NextValue == WriteValue \/ GetRange \/ ReadBounded \/ Exists \/ Start \/ Set \/ Populate \/ Tick

SpecValue == InitValue /\ [][NextValue]_vars

-----------------------------------------------------------------------------
(* Properties *)

\* A redisvalue read answers for a state the key was in during the call: bytes and existence of
\* different moments are not put together (ReadBounded).
ReadIsReal == proc.pc = "done" /\ proc.kind = "value" =>
                 \E k \in seen : proc.result = IF k.here THEN decode("value", k) ELSE "miss"

\* A redisfory read hands out a value only if it was written whole, by a cache of the same profile
\* and schema generation, and within the bound (unwrap).
EnvelopeGuards == proc.kind = "fory" /\ proc.result = "value" =>
                     \E k \in seen : k.magic /\ k.profile = "fast" /\ k.generation = 1
                                     /\ k.length = k.declared /\ k.length <= MaxBytes

\* README: "A known write shortens L1 TTL so it cannot outlive that write's L2 TTL."
WriteNotOutlived == store.l1 # 0 => store.l1 <= store.l2

=============================================================================

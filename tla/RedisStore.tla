----------------------------- MODULE RedisStore -----------------------------
(***************************************************************************)
(* redis/bucket and redis/mapcache, whose code differs in the structural    *)
(* segment of the key only, over one Redis.  A command that fails has run   *)
(* or not; a context may also end after a command that succeeded.  TTLs are *)
(* in half milliseconds, the clock is in milliseconds.                      *)
(***************************************************************************)
EXTENDS Integers, Sequences, FiniteSets

CONSTANTS
  Namespaces, HashTags,   \* sequences of segments; no tag is <<>>
  Logical,                \* logical keys, which may contain further segments
  Limits, MaxSize,        \* payload limits in use and the largest payload
  MaxTTL, MaxNow, MaxValues

\* New; normalizeMaxPayloadBytes refuses a limit below 1.
Stores == [kind : {<<"bucket">>, <<"map">>}, namespace : Namespaces, tag : HashTags, limit : Limits \ {0}]

VARIABLES
  clock, db,    \* the entries of Redis: a partial function from keys
  writes,     \* values written so far; every value is distinct
  taken,      \* history: the ids GetAndDelete returned and CompareAndSet replaced
  reply        \* the last call: its store, logical key, the entry before it, and its outcome

vars == <<clock, db, writes, taken, reply>>

\* Keys without the structural segment.
KeyWithoutKind(s, l) == s.namespace \o s.tag \o l

\* NewKeyBuilder, Structural, WithHashTag and LogicalKey
KeyOf(s, l) == s.namespace \o s.kind \o s.tag \o l
Keys == {KeyOf(s, l) : s \in Stores, l \in Logical}

Entries == [id : 1..MaxValues, size : 0..MaxSize, expiry : 0..(MaxNow + MaxTTL), asked : 0..MaxTTL, kind : {<<"bucket">>, <<"map">>}]
Outcomes == {"ok", "false", "too large", "unknown", "cancelled"}

TypeOK ==
  /\ clock \in 0..MaxNow /\ writes \in 0..MaxValues
  /\ DOMAIN db \subseteq Keys /\ \A k \in DOMAIN db : db[k] \in Entries
  /\ taken \in [1..MaxValues -> 0..2]
  /\ reply.outcome \in Outcomes /\ reply.store \in Stores

Init ==
  /\ clock = 0 /\ db = <<>> /\ writes = 0 /\ taken = [i \in 1..MaxValues |-> 0]
  /\ reply \in [store : Stores, op : {"none"}, outcome : {"ok"}, read : {{}}]

Without(k) == [x \in (DOMAIN db) \ {k} |-> db[x]]
With(k, e) == [x \in (DOMAIN db) \cup {k} |-> IF x = k THEN e ELSE db[x]]
At(k) == IF k \in DOMAIN db THEN {db[k]} ELSE {}

Tick ==
  /\ clock < MaxNow
  /\ clock' = clock + 1
  /\ db' = [k \in {x \in DOMAIN db : db[x].expiry \notin 1..(clock + 1)} |-> db[k]]
  /\ UNCHANGED <<writes, taken, reply>>

Report(s, op, read, outcome) == reply' = [store |-> s, op |-> op, outcome |-> outcome, read |-> read]

\* finishMutation, and the checks of the context after a command: the effect
\* and its outcome, ErrCommitUnknown, or the bare error of the context.
finishMutation(s, op, read, effect, outcome) ==
  \/ effect /\ Report(s, op, read, outcome)
  \/ (effect \/ UNCHANGED <<db, taken>>) /\ Report(s, op, {}, "unknown")
  \/ effect /\ Report(s, op, {}, "cancelled")

\* A TTL below a millisecond is truncated to 0.
truncateTTL(ttl) == ttl \div 2

normalizeTTL(ttl) == IF ttl = 1 THEN 1 ELSE ttl \div 2

Entry(s, size, ttl) ==
  [id |-> writes + 1, size |-> size, asked |-> ttl, kind |-> s.kind,
   expiry |-> IF normalizeTTL(ttl) = 0 THEN 0 ELSE clock + normalizeTTL(ttl)]

\* prepareWrite: a payload over the limit is refused before anything is sent.
prepareWrite(s, size) ==
  /\ writes < MaxValues /\ writes' = writes + 1
  /\ size <= s.limit

Get(s, l) ==
  LET e == At(KeyOf(s, l))
  IN /\ \/ e = {} /\ Report(s, "get", {}, "false")
        \/ e # {} /\ \A x \in e : IF x.size > s.limit THEN Report(s, "get", {}, "too large") ELSE Report(s, "get", e, "ok")
        \/ Report(s, "get", {}, "unknown")
     /\ UNCHANGED <<clock, db, writes, taken>>

Set(s, l, size, ttl) ==
  /\ prepareWrite(s, size)
  /\ finishMutation(s, "set", {}, db' = With(KeyOf(s, l), Entry(s, size, ttl)) /\ UNCHANGED taken, "ok")
  /\ UNCHANGED clock

SetIfAbsent(s, l, size, ttl) ==
  LET k == KeyOf(s, l)
  IN /\ prepareWrite(s, size)
     /\ IF k \in DOMAIN db
        THEN finishMutation(s, "set-if-absent", {}, UNCHANGED <<db, taken>>, "false")
        ELSE finishMutation(s, "set-if-absent", {}, db' = With(k, Entry(s, size, ttl)) /\ UNCHANGED taken, "ok")
     /\ UNCHANGED clock

Take(e) == taken' = [taken EXCEPT ![e.id] = @ + 1]

\* getAndDeleteScript that deletes before it looks at the length.
getAndDeleteAny(s, k) ==
  /\ k \in DOMAIN db
  /\ db' = Without(k) /\ IF db[k].size > s.limit THEN UNCHANGED taken ELSE Take(db[k])

\* getAndDeleteScript that leaves the value.
getAndKeep(s, k) ==
  /\ k \in DOMAIN db /\ db[k].size <= s.limit
  /\ UNCHANGED db /\ Take(db[k])

\* getAndDeleteScript when it finds a value within the limit.
getAndDeleteScript(s, k) ==
  /\ k \in DOMAIN db /\ db[k].size <= s.limit
  /\ db' = Without(k) /\ Take(db[k])

GetAndDelete(s, l) ==
  LET k == KeyOf(s, l)
  IN /\ \/ finishMutation(s, "get-and-delete", At(k), getAndDeleteScript(s, k), "ok")
        \/ /\ k \in DOMAIN db => db[k].size > s.limit
           /\ finishMutation(s, "get-and-delete", {}, UNCHANGED <<db, taken>>,
                             IF k \in DOMAIN db THEN "too large" ELSE "false")
     /\ UNCHANGED <<clock, writes>>

\* CompareAndSet of the value with number id; every value is distinct.
CompareAndSet(s, l, id, size, ttl) ==
  LET k == KeyOf(s, l)
      Found == k \in DOMAIN db /\ db[k].size <= s.limit /\ db[k].id = id
  IN /\ prepareWrite(s, size)
     /\ IF Found
        THEN finishMutation(s, "compare-and-set", At(k), db' = With(k, Entry(s, size, ttl)) /\ Take(db[k]), "ok")
        ELSE finishMutation(s, "compare-and-set", {}, UNCHANGED <<db, taken>>,
                            IF k \in DOMAIN db /\ db[k].size > s.limit THEN "too large" ELSE "false")
     /\ UNCHANGED clock

Delete(s, l) ==
  /\ finishMutation(s, "delete", {}, db' = Without(KeyOf(s, l)) /\ UNCHANGED taken, "ok")
  /\ UNCHANGED <<clock, writes>>

Call(s, l) ==
  \/ Get(s, l) \/ GetAndDelete(s, l) \/ Delete(s, l)
  \/ \E size \in 1..MaxSize, ttl \in 0..MaxTTL :
       \/ Set(s, l, size, ttl) \/ SetIfAbsent(s, l, size, ttl)
       \/ \E id \in 1..writes : CompareAndSet(s, l, id, size, ttl)

Next == Tick \/ \E s \in Stores, l \in Logical : Call(s, l)

Spec == Init /\ [][Next]_vars

-----------------------------------------------------------------------------

\* GetAndDelete and CompareAndSet take every written value at most once.
TakenOnce == \A i \in 1..MaxValues : taken[i] <= 1

\* A bucket and a map of the same namespace never return each other's values,
\* whatever segments the logical keys contain.
KindsSeparate == \A e \in reply.read : e.kind = reply.store.kind

\* A value is stored without expiry only if a TTL of 0 was asked for.
PersistentIfAsked == \A k \in DOMAIN db : db[k].expiry = 0 => db[k].asked = 0

\* GetAndDelete and CompareAndSet leave a value over the store's limit alone.
OversizeKept ==
  reply'.op \in {"get-and-delete", "compare-and-set"} =>
    \A k \in DOMAIN db : db[k].size > reply'.store.limit => k \in DOMAIN db' /\ db'[k] = db[k]

=============================================================================

----------------------------- MODULE RedisStream -----------------------------
(***************************************************************************)
(* redis/stream: one stream with one consumer group.  The package passes    *)
(* commands on without retrying, so a lost answer is left to its caller; an *)
(* entry that was delivered in one is recovered with AutoClaim.             *)
(***************************************************************************)
EXTENDS Integers, FiniteSets

CONSTANTS Consumers, MaxEntries, MaxIdle, MaxFaults, None

Ids == 1..MaxEntries

VARIABLES
  last, entries,      \* the last id, and the ids in the stream
  cursor,             \* the group's last delivered id, None before CreateGroup
  pending,            \* the consumer and idle time of every pending id
  working,            \* the ids each consumer has received and not yet acknowledged
  acked,              \* history: the ids acknowledged
  removed,            \* history: the ids trimmed or deleted
  faults              \* lost answers so far

vars == <<last, entries, cursor, pending, working, acked, removed, faults>>

TypeOK ==
  /\ last \in 0..MaxEntries /\ entries \subseteq Ids
  /\ cursor \in Ids \cup {0, None} /\ faults \in 0..MaxFaults
  /\ DOMAIN pending \subseteq Ids
  /\ \A i \in DOMAIN pending : pending[i] \in [by : Consumers, idle : 0..MaxIdle]
  /\ working \in [Consumers -> SUBSET Ids]
  /\ acked \subseteq Ids /\ removed \subseteq Ids

Init ==
  /\ last = 0 /\ entries = {} /\ cursor = None /\ pending = <<>>
  /\ working = [c \in Consumers |-> {}]
  /\ acked = {} /\ removed = {} /\ faults = 0

\* XADD; a caller that retries a lost answer appends again.
Append ==
  /\ last < MaxEntries
  /\ last' = last + 1 /\ entries' = entries \cup {last + 1}
  /\ UNCHANGED <<cursor, pending, working, acked, removed, faults>>

\* XGROUP CREATE MKSTREAM, from the beginning or from the end ("$").
CreateGroup ==
  /\ cursor = None
  /\ cursor' \in {0, last}
  /\ removed' = removed \cup 1..cursor'
  /\ UNCHANGED <<last, entries, pending, working, acked, faults>>

Owned(ids, c) == [i \in ids |-> [by |-> c, idle |-> 0]]
Keep(ids) == [i \in (DOMAIN pending) \cap ids |-> pending[i]]
Merge(f, g) == [i \in (DOMAIN f) \cup (DOMAIN g) |-> IF i \in DOMAIN f THEN f[i] ELSE g[i]]

\* The answer reaches the consumer or is lost.
Delivered(c, ids) ==
  \/ working' = [working EXCEPT ![c] = @ \cup ids] /\ UNCHANGED faults
  \/ faults < MaxFaults /\ faults' = faults + 1 /\ UNCHANGED working

\* XREADGROUP > with NOACK.
ReadGroupNoAck(c) ==
  LET new == {i \in entries : i > cursor}
  IN /\ cursor # None /\ new # {}
     /\ cursor' \in {i \in new : \A j \in new : i >= j}
     /\ Delivered(c, new)
     /\ UNCHANGED <<last, entries, pending, acked, removed>>

\* XREADGROUP >
ReadGroup(c) ==
  LET new == {i \in entries : i > cursor}
  IN /\ cursor # None /\ new # {}
     /\ cursor' \in {i \in new : \A j \in new : i >= j}
     /\ pending' = Merge(Owned(new, c), pending)
     /\ Delivered(c, new)
     /\ UNCHANGED <<last, entries, acked, removed>>

\* XACK of an id the consumer works on; only its answer may be lost.
Acknowledge(c) ==
  \E i \in working[c] :
    /\ pending' = Keep(Ids \ {i})
    /\ acked' = acked \cup {i}
    /\ working' = [working EXCEPT ![c] = @ \ {i}]
    /\ UNCHANGED <<last, entries, cursor, removed, faults>>

\* XAUTOCLAIM with MinIdle: entries that left the stream leave the pending
\* list, the others that are idle long enough change hands.
AutoClaim(c) ==
  LET gone == {i \in DOMAIN pending : i \notin entries}
      idle == {i \in (DOMAIN pending) \ gone : pending[i].idle = MaxIdle}
  IN /\ gone \cup idle # {}
     /\ pending' = Merge(Owned(idle, c), Keep(Ids \ gone))
     /\ Delivered(c, idle)
     /\ UNCHANGED <<last, entries, cursor, acked, removed>>

\* Time passes for the pending entries.
Idle ==
  /\ \E i \in DOMAIN pending : pending[i].idle < MaxIdle
  /\ pending' = [i \in DOMAIN pending |-> [pending[i] EXCEPT !.idle = MaxIdle]]
  /\ UNCHANGED <<last, entries, cursor, working, acked, removed, faults>>

\* A consumer restarts and forgets what it worked on.
Crash(c) ==
  /\ working[c] # {} /\ faults < MaxFaults
  /\ working' = [working EXCEPT ![c] = {}] /\ faults' = faults + 1
  /\ UNCHANGED <<last, entries, cursor, pending, acked, removed>>

Remove(ids) ==
  /\ ids # {}
  /\ entries' = entries \ ids /\ removed' = removed \cup ids
  /\ UNCHANGED <<last, cursor, pending, working, acked, faults>>

\* The entries older than the newest n.
Beyond(n) == {i \in entries : Cardinality({j \in entries : j >= i}) > n}

\* XTRIM MAXLEN keeps the newest, maxLen > 0 of them.
TrimMaxLen == \E n \in 1..MaxEntries : Remove(Beyond(n))

\* XTRIM MINID
TrimMinID == \E m \in Ids : Remove({i \in entries : i < m})

\* XDEL
Delete == \E i \in entries : Remove({i})

Next ==
  \/ Append \/ CreateGroup \/ Idle \/ TrimMaxLen \/ TrimMinID \/ Delete
  \/ \E c \in Consumers : ReadGroup(c) \/ Acknowledge(c) \/ AutoClaim(c) \/ Crash(c)

\* Consumers that go on reading, claiming and acknowledging.
Work(c) == ReadGroup(c) \/ Acknowledge(c) \/ AutoClaim(c)
Fairness == WF_vars(Idle) /\ WF_vars(CreateGroup) /\ \A c \in Consumers : WF_vars(Work(c))

Spec == Init /\ [][Next]_vars
FairSpec == Spec /\ Fairness

-----------------------------------------------------------------------------

\* Every entry still has somebody to deliver it: it is ahead of the group's
\* cursor, pending, acknowledged, or was removed from the stream.
NothingLost ==
  \A i \in 1..last :
    cursor = None \/ i > cursor \/ i \in DOMAIN pending \/ i \in acked \cup removed

=============================================================================

------------------------------ MODULE AuditLog ------------------------------
(****************************************************************************)
(* Package audit: recording and querying events, and publishing the records *)
(* of the outbox.                                                           *)
(****************************************************************************)
EXTENDS Integers, Sequences, SequencesExt, FiniteSets

VARIABLES store, proc, seen   \* what they hold is said in each part

vars == <<store, proc, seen>>

-----------------------------------------------------------------------------
(***************************************************************************)
(* )                                                                       *)
(***************************************************************************)
CONSTANTS
    Goroutines, Recorders,
    Aggregates,              \* names [text, padded]: text 0 is blank, and padded has surrounding spaces
    Drafts,                  \* event records [id, key, at, valid]: 0 is blank, valid covers type, times, metadata, payload
    Extras,                  \* what a writer attaches to each event, [snapshot, change]: "none", "good" or "bad", and fields
    Queries,                 \* query options [from, to, since, until, newest, limit]
    MaxRevision              \* stands for math.MaxUint64

\* store: MemoryRepository.entries.
\* proc: recorders: aggregate, head and pending; goroutines: where they are.
\* seen: history: per recorder, the ids of the events it recorded.

(* The audit package: AggregateRecorder, which numbers the events of one     *)
(* aggregate and keeps them until they are acknowledged, and                 *)
(* MemoryRepository, which appends entries only as continuations of the      *)
(* aggregate's history.  Goroutines record events, take the pending ones,    *)
(* append them and acknowledge what was appended; several recorders may      *)
(* have been opened for one aggregate.                                       *)
(***************************************************************************)

-----------------------------------------------------------------------------
(* Values                                                                  *)

TrimSpace(name) == [name EXCEPT !.padded = FALSE]
validAggregate(name) == name.text # 0
NewAggregateID(name) == TrimSpace(name)

\* Revision.Next: 0 when there is none.
next(head) == IF head = MaxRevision THEN 0 ELSE head + 1

validDraft(d) == d.id # 0 /\ d.key # 0 /\ d.valid

NewDomainEvent(d, agg, rev) == [id |-> d.id, key |-> d.key, at |-> d.at, aggregate |-> agg, revision |-> rev]

validEvent(e) == e.id # 0 /\ e.key # 0 /\ validAggregate(e.aggregate) /\ e.revision # 0

\* NewChangeMetadata: fields sorted, each once; a blank one (0) is refused.
NewChangeMetadata(fields) == SetToSortSeq(ToSet(fields), LAMBDA a, b : a < b)
acceptedChange(fields) == fields # <<>> /\ \A i \in DOMAIN fields : fields[i] # 0

\* ChangeMetadata.Validate also refuses a field that is named twice.
validChange(fields) == acceptedChange(fields) /\ IsInjective(fields)

NewEntry(e, snapshot, change) ==
    [aggregate |-> e.aggregate, revision |-> e.revision, event |-> e, snapshot |-> snapshot, change |-> change]

validEntry(x) ==
    /\ validAggregate(x.aggregate) /\ x.revision # 0 /\ validEvent(x.event)
    /\ x.event.aggregate = x.aggregate /\ x.event.revision = x.revision
    /\ x.snapshot # "bad" /\ (x.change = <<>> \/ validChange(x.change))

\* What UnmarshalJSON makes of an encoded entry: the aggregates are trimmed and the change is normalized again.
DecodeEntryJSON(x) ==
    [x EXCEPT !.aggregate = NewAggregateID(@), !.event.aggregate = NewAggregateID(@),
              !.change = IF @ = <<>> THEN @ ELSE NewChangeMetadata(@)]

-----------------------------------------------------------------------------
(* History and repository                                                  *)

Of(agg) == SelectSeq(store, LAMBDA x : x.aggregate = agg)

\* No event id twice, and no idempotency key on two events.
distinctEvents(entries) ==
    \A i, j \in DOMAIN entries :
        i # j => entries[i].event.id # entries[j].event.id /\ entries[i].event.key # entries[j].event.key

NewHistory(entries) ==
    LET ordered == SortSeq(entries, LAMBDA a, b : a.revision < b.revision)
    IN  /\ entries # <<>>
        /\ \A i \in DOMAIN ordered : validEntry(ordered[i]) /\ ordered[i].aggregate = ordered[1].aggregate
                                        /\ ordered[i].revision = i
        /\ distinctEvents(ordered)

HeadRevision(entries) == IF entries = <<>> THEN 0 ELSE Max({entries[i].revision : i \in DOMAIN entries})

validateAppendBatch(entries) ==
    /\ \A i \in DOMAIN entries : entries[i].aggregate = entries[1].aggregate
    /\ \A i \in 2 .. Len(entries) : entries[i].revision = entries[i - 1].revision + 1
    /\ distinctEvents(entries)

continuationAnywhere(entries) ==
    \A i \in DOMAIN entries, j \in DOMAIN store :
        entries[i].event.id # store[j].event.id /\ entries[i].event.key # store[j].event.key

\* Event ids and idempotency keys are unique over all aggregates; the batch starts right after the aggregate's head.
validateContinuationLocked(entries) ==
    LET existing == Of(entries[1].aggregate)
    IN  /\ \A i \in DOMAIN entries, j \in DOMAIN store :
              entries[i].event.id # store[j].event.id /\ entries[i].event.key # store[j].event.key
        /\ existing = <<>> \/ NewHistory(existing)
        /\ next(HeadRevision(existing)) # 0 /\ entries[1].revision = next(HeadRevision(existing))

matchesQuery(x, agg, q) ==
    /\ x.aggregate = agg
    /\ q.from = 0 \/ x.revision >= q.from
    /\ q.to = 0 \/ x.revision <= q.to
    /\ q.since = 0 \/ x.event.at >= q.since
    /\ q.until = 0 \/ x.event.at <= q.until

validQuery(q) == ~ (q.from # 0 /\ q.to # 0 /\ q.from > q.to) /\ ~ (q.since # 0 /\ q.until # 0 /\ q.since > q.until) /\ q.limit >= 0

Find(agg, q) ==
    LET matched == SelectSeq(store, LAMBDA x : matchesQuery(x, agg, q))
        ordered == IF q.newest THEN Reverse(matched) ELSE matched
    IN  IF q.limit > 0 /\ Len(ordered) > q.limit THEN SubSeq(ordered, 1, q.limit) ELSE ordered

All == [from |-> 0, to |-> 0, since |-> 0, until |-> 0, newest |-> FALSE, limit |-> 0]

Latest(agg) == Find(agg, [All EXCEPT !.newest = TRUE, !.limit = 1])

\* The newest entry before a revision (0: any) that carries a snapshot.
findSnapshot(agg, before) ==
    LET found == SelectSeq(Find(agg, [All EXCEPT !.newest = TRUE]),
                           LAMBDA x : (before = 0 \/ x.revision < before) /\ x.snapshot # "none")
    IN  IF found = <<>> THEN <<>> ELSE <<found[1]>>

-----------------------------------------------------------------------------
(* Recorders and goroutines                                                *)

Closed == [open |-> FALSE, aggregate |-> [text |-> 0, padded |-> FALSE], head |-> 0, pending |-> <<>>]
Idle == [pc |-> "idle", recorder |-> 0, batch |-> <<>>]

InitHistory ==
    /\ store = <<>>
    /\ proc = [recorder |-> [r \in Recorders |-> Closed], at |-> [g \in Goroutines |-> Idle]]
    /\ seen = [r \in Recorders |-> {}]

\* Entries are valid, recorders number from their head, and a batch belongs to the recorder it was taken from.
TypeOKHistory ==
    /\ \A i \in DOMAIN store : validEntry(store[i])
    /\ \A r \in Recorders :
          LET rec == proc.recorder[r]
          IN  rec.head \in 0 .. MaxRevision /\ \A i \in DOMAIN rec.pending : rec.pending[i].revision <= rec.head
    /\ \A g \in Goroutines : proc.at[g].pc \in {"idle", "append", "ack"}

\* A writer loads the aggregate's head and opens a recorder on it.
NewAggregateRecorderFromHead(r) ==
    /\ ~ proc.recorder[r].open
    /\ \E agg \in Aggregates :
          /\ validAggregate(agg)
          /\ proc' = [proc EXCEPT !.recorder[r] = [Closed EXCEPT !.open = TRUE, !.aggregate = agg, !.head = HeadRevision(Of(agg))]]
    /\ UNCHANGED <<store, seen>>

Record(r, d) ==
    LET rec == proc.recorder[r]
    IN  /\ rec.open /\ validDraft(d) /\ next(rec.head) # 0
        /\ proc' = [proc EXCEPT !.recorder[r].head = next(@),
                                !.recorder[r].pending = Append(@, NewDomainEvent(d, rec.aggregate, next(rec.head)))]
        /\ seen' = [seen EXCEPT ![r] = @ \cup {d.id}]
        /\ UNCHANGED store

\* A goroutine copies the pending events and makes entries of them.
PendingEvents(g, r) ==
    /\ proc.at[g].pc = "idle" /\ proc.recorder[r].pending # <<>>
    /\ LET entry(e) == LET x == Extras[e.id]
                       IN  NewEntry(e, x.snapshot, IF x.change = <<>> THEN <<>> ELSE NewChangeMetadata(x.change))
           batch == [i \in DOMAIN proc.recorder[r].pending |-> entry(proc.recorder[r].pending[i])]
       IN  /\ \A i \in DOMAIN batch : LET fields == Extras[batch[i].event.id].change IN fields = <<>> \/ acceptedChange(fields)
           /\ \A i \in DOMAIN batch : validEntry(batch[i])
           /\ proc' = [proc EXCEPT !.at[g] = [pc |-> "append", recorder |-> r, batch |-> batch]]
    /\ UNCHANGED <<store, seen>>

\* MemoryRepository.Append: all of the batch or nothing.
AppendEntries(g) ==
    LET batch == proc.at[g].batch
    IN  /\ proc.at[g].pc = "append" /\ UNCHANGED seen
        /\ \/ /\ validateAppendBatch(batch) /\ validateContinuationLocked(batch)
              /\ store' = store \o batch
              /\ proc' = [proc EXCEPT !.at[g].pc = "ack"]
           \/ /\ ~ (validateAppendBatch(batch) /\ validateContinuationLocked(batch))
              /\ proc' = [proc EXCEPT !.at[g] = Idle] /\ UNCHANGED store

\* The context ended before the entries were appended.
Canceled(g) == proc.at[g].pc = "append" /\ proc' = [proc EXCEPT !.at[g] = Idle] /\ UNCHANGED <<store, seen>>

ackAll(pending, revision) == <<>>

survivors(pending, revision) == SelectSeq(pending, LAMBDA e : e.revision > revision)

AckThrough(g) ==
    LET r == proc.at[g].recorder
        revision == Last(proc.at[g].batch).revision
    IN  /\ proc.at[g].pc = "ack" /\ revision <= proc.recorder[r].head
        /\ proc' = [proc EXCEPT !.at[g] = Idle, !.recorder[r].pending = survivors(@, revision)]
        /\ UNCHANGED <<store, seen>>

NextHistory ==
    \/ \E r \in Recorders : NewAggregateRecorderFromHead(r) \/ (\E d \in Drafts : Record(r, d))
    \/ \E g \in Goroutines : AppendEntries(g) \/ Canceled(g) \/ AckThrough(g) \/ (\E r \in Recorders : PendingEvents(g, r))

-----------------------------------------------------------------------------
(* Properties                                                              *)

\* An event a recorder has numbered is pending until it is stored: AckThrough never drops one recorded after the batch
\* it acknowledges was taken, and a batch that is refused leaves its events pending.
NothingDropped ==
    \A r \in Recorders : \A id \in seen[r] :
        \/ \E i \in DOMAIN proc.recorder[r].pending : proc.recorder[r].pending[i].id = id
        \/ \E i \in DOMAIN store : store[i].event.id = id /\ store[i].aggregate = proc.recorder[r].aggregate

\* Whatever writers compete, each aggregate's entries are a history (revisions 1, 2, ... in the order they were
\* appended), so that the queries' first entry is the newest one, and an entry of a trimmed aggregate decodes to itself.
HistoryKept ==
    /\ \A i \in DOMAIN store : NewHistory(Of(store[i].aggregate))
    /\ \A i \in DOMAIN store : LET agg == store[i].aggregate IN Latest(agg)[1].revision = HeadRevision(Of(agg))
    /\ \A i \in DOMAIN store, before \in 0 .. MaxRevision :
          LET agg == store[i].aggregate
              with == {x \in ToSet(Of(agg)) : x.snapshot # "none" /\ (before = 0 \/ x.revision < before)}
          IN  findSnapshot(agg, before) = IF with = {} THEN <<>> ELSE <<CHOOSE x \in with : \A y \in with : y.revision <= x.revision>>
    /\ \A i \in DOMAIN store : ~ store[i].aggregate.padded => DecodeEntryJSON(store[i]) = store[i]
    /\ \A i \in DOMAIN store, q \in Queries :
          LET agg == store[i].aggregate
              revisions == {x \in 1 .. Len(Of(agg)) : matchesQuery(Of(agg)[x], agg, q)}
              found == Find(agg, q)
          IN  validQuery(q) => /\ Len(found) = IF q.limit > 0 THEN Min({q.limit, Cardinality(revisions)}) ELSE Cardinality(revisions)
                               /\ \A k \in DOMAIN found : \A l \in k + 1 .. Len(found) :
                                      IF q.newest THEN found[k].revision > found[l].revision ELSE found[k].revision < found[l].revision

-----------------------------------------------------------------------------
(***************************************************************************)
(* )                                                                       *)
(***************************************************************************)
CONSTANTS
    Relays, Kinds,
    Records,                 \* [id, attempts, matches, utf8, parts, envelope]: parts are the sizes of the entry's inputs
    MaxDetailSize, MaxEventEntrySize, NamesSize, Failures, MaxCalls

\* store: the records that the service has, in order, and the failures still to inject.
\* proc: per relay: the record, the pc, its context and the answer of the service.
\* seen: history: the publisher in use, and the records whose Publish returned nil.

(* The publishers that an outbox relay may be given: EventBridge, Redis      *)
(* Streams and the recording publisher of sqloutboxtest.  A relay publishes  *)
(* a record again until Publish returns nil; the service (external) may take *)
(* the event and lose its answer.                                            *)
(***************************************************************************)

IdlePublishers == [pc |-> "idle", record |-> 0, ctx |-> "live", answer |-> ""]

InitPublishers ==
    /\ \E k \in Kinds : seen = [kind |-> k, nil |-> {}, calls |-> 0]
    /\ store = [taken |-> <<>>, failures |-> [id \in {r.id : r \in Records} |-> Failures]]
    /\ proc = [c \in Relays |-> IdlePublishers]

\* Whatever was taken is one of the records, and there are never fewer than no failures left.
TypeOKPublishers ==
    /\ ToSet(store.taken) \subseteq {r.id : r \in Records}
    /\ \A id \in DOMAIN store.failures : store.failures[id] \in 0 .. Failures
    /\ seen.nil \subseteq {r.id : r \in Records}

set(c, with) == proc' = [proc EXCEPT ![c] = with]
finish(c, ok) ==
    /\ set(c, [IdlePublishers EXCEPT !.ctx = proc[c].ctx])
    /\ seen' = [seen EXCEPT !.nil = IF ok THEN @ \cup {proc[c].record.id} ELSE @]

-----------------------------------------------------------------------------
(* EventBridge                                                             *)

\* Publisher.New falls back to the largest detail that an entry may hold.
maxDetailSize == IF MaxDetailSize = 0 THEN MaxEventEntrySize ELSE MaxDetailSize

validateRecord(r) == r.id > 0 /\ r.attempts > 0 /\ r.utf8 /\ r.matches

\* The inputs are added up, stopping as soon as they pass the limit.
entryInputWithinLimit(parts, limit) == limit > 0 /\ FoldSeq(LAMBDA size, total : size + total, 0, parts) <= limit

detailUnbounded(r) == entryInputWithinLimit(r.parts, maxDetailSize)

detail(r) ==
    /\ entryInputWithinLimit(r.parts, maxDetailSize)
    /\ r.envelope <= maxDetailSize /\ r.envelope + NamesSize < MaxEventEntrySize

\* What PutEvents answers (external): taken, an entry failure, an answer of the wrong shape, or an error of the call,
\* after which the event may have been taken or not.
putEvents(c) ==
    LET taken == [store EXCEPT !.taken = Append(@, proc[c].record.id)]
    IN  \/ store' = taken /\ set(c, [proc[c] EXCEPT !.pc = "answer", !.answer = "accepted"])
        \/ UNCHANGED store /\ set(c, [proc[c] EXCEPT !.pc = "answer", !.answer = "entry failed"])
        \/ store' \in {store, taken} /\ set(c, [proc[c] EXCEPT !.pc = "answer", !.answer = "malformed"])
        \/ store' \in {store, taken} /\ set(c, [proc[c] EXCEPT !.pc = "answer", !.answer = "error"])

resultLenient(answer) == answer \in {"accepted", "malformed"}

result(answer) == answer = "accepted"

-----------------------------------------------------------------------------
(* Redis Streams and the recording publisher                               *)

\* redisstream.Append: XADD adds the message, or fails, perhaps after it was added.
xadd(c) ==
    LET taken == [store EXCEPT !.taken = Append(@, proc[c].record.id)]
    IN  \/ store' = taken /\ set(c, [proc[c] EXCEPT !.pc = "answer", !.answer = "accepted"])
        \/ store' \in {store, taken} /\ set(c, [proc[c] EXCEPT !.pc = "answer", !.answer = "error"])

\* RecordingPublisher.Publish keeps the record before it injects a failure.
record(c) ==
    LET id == proc[c].record.id
        fails == store.failures[id] > 0
    IN  /\ store' = [store EXCEPT !.taken = Append(@, id), !.failures[id] = IF fails THEN @ - 1 ELSE @]
        /\ finish(c, ~ fails)

Reset ==
    /\ seen.kind = "recording" /\ store.taken # <<>>
    /\ store' = [taken |-> <<>>, failures |-> [id \in DOMAIN store.failures |-> 0]]
    /\ seen' = [seen EXCEPT !.nil = {}] /\ UNCHANGED proc

-----------------------------------------------------------------------------
\* The relay hands a record over until its Publish returns nil.
Begin(c) ==
    /\ proc[c].pc = "idle" /\ seen.calls < MaxCalls
    /\ \E r \in Records :
          /\ r.id \notin seen.nil /\ r \notin {proc[x].record : x \in {x \in Relays : proc[x].pc # "idle"}}
          /\ set(c, [proc[c] EXCEPT !.pc = "publish", !.record = r, !.ctx = "live"])
    /\ seen' = [seen EXCEPT !.calls = @ + 1] /\ UNCHANGED store

refuse(c) == proc[c].pc = "publish" /\ finish(c, FALSE) /\ UNCHANGED store

\* EventBridge: Publish validates, and checks the context before it calls the service; one that ended during the call
\* hides its answer.
Publish(c) ==
    /\ seen.kind = "eventbridge" /\ proc[c].pc = "publish"
    /\ IF proc[c].ctx = "live" /\ validateRecord(proc[c].record) /\ detail(proc[c].record)
       THEN putEvents(c) /\ UNCHANGED seen ELSE refuse(c)

Answer(c) ==
    /\ seen.kind = "eventbridge" /\ proc[c].pc = "answer"
    /\ finish(c, proc[c].ctx = "live" /\ result(proc[c].answer)) /\ UNCHANGED store

\* Redis Streams: the error of the call is returned, whatever the context.
PublishStream(c) ==
    /\ seen.kind = "redisstreams"
    /\ \/ proc[c].pc = "publish" /\ IF proc[c].ctx = "live" THEN xadd(c) /\ UNCHANGED seen ELSE refuse(c)
       \/ proc[c].pc = "answer" /\ finish(c, proc[c].answer = "accepted") /\ UNCHANGED store

PublishRecording(c) ==
    /\ seen.kind = "recording" /\ proc[c].pc = "publish"
    /\ IF proc[c].ctx = "live" THEN record(c) ELSE refuse(c)

Cancel(c) == proc[c].pc # "idle" /\ proc[c].ctx = "live" /\ set(c, [proc[c] EXCEPT !.ctx = "done"]) /\ UNCHANGED <<store, seen>>

NextPublishers == Reset \/ \E c \in Relays : Begin(c) \/ Publish(c) \/ Answer(c) \/ PublishStream(c) \/ PublishRecording(c) \/ Cancel(c)

-----------------------------------------------------------------------------
(* Properties                                                              *)

\* Publish returns nil only for a record that the service has (the relay then marks it published and never sends it
\* again), and no record reaches EventBridge that is inconsistent or does not fit an entry.
NilMeansTaken ==
    /\ seen.nil \subseteq ToSet(store.taken)
    /\ seen.kind = "eventbridge" =>
          \A r \in Records : r.id \in ToSet(store.taken) => r.matches /\ r.envelope + NamesSize < MaxEventEntrySize

=============================================================================

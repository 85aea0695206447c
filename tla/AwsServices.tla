----------------------------- MODULE AwsServices -----------------------------
(*****************************************************************************)
(* Services of AWS driven over several calls: the queue with payloads in S3, *)
(* executions of Step Functions, and S3 Vectors.                             *)
(*****************************************************************************)
EXTENDS Integers, Sequences, SequencesExt, FiniteSets

VARIABLES store, proc, seen   \* what they hold is said in each part

vars == <<store, proc, seen>>

-----------------------------------------------------------------------------
(***************************************************************************)
(* )                                                                       *)
(***************************************************************************)
CONSTANTS
    Clients, Keys,
    Payloads,                \* [data, size]; a checksum tells two of them apart
    MaxPayloadSize, MaxReceivePayloadSize, DefaultMaxPayloadSize, MaxNumberOfMessages,
    Foreign,                 \* messages that others put on the queue
    MaxMessages              \* bound: messages sent

(* Package messaging/sqsextended: Send stores a payload in S3 and sends an   *)
(* envelope through SQS; Receive takes envelopes and fetches their payloads; *)
(* Delete acknowledges the message and then deletes the object. Every call   *)
(* to a service may be refused, lose its answer or answer with nothing.      *)
(***************************************************************************)

NoPayload == [data |-> 0, size |-> 0]
Idle == [pc |-> "idle", op |-> "", key |-> 0, payload |-> NoPayload, pending |-> <<>>, got |-> <<>>,
         cancelled |-> FALSE, error |-> "", orphaned |-> FALSE, queueDeleted |-> FALSE, sent |-> FALSE]

\* New: the limits fit the envelope's and each other.
New == MaxPayloadSize \in 1 .. DefaultMaxPayloadSize /\ MaxReceivePayloadSize >= MaxPayloadSize

InitQueue ==
    /\ New
    /\ store = [objects |-> [k \in Keys |-> NoPayload], queue |-> Foreign, sent |-> 0]
    /\ proc = [c \in Clients |-> Idle]
    /\ seen = [payloads |-> <<>>, uses |-> [k \in Keys |-> 0], delivered |-> {}]

TypeOKQueue == /\ store.sent \in 0 .. MaxMessages /\ Len(seen.payloads) = store.sent
          /\ \A c \in Clients : proc[c].pc \in {"idle", "put", "send", "get", "deleteMessage", "deleteObject", "returned"}

\* The fields in the order in which they are encoded; the optional ones are left out when empty.
FieldNames == <<"version", "bucket", "key", "content_size", "checksum">>

Envelope(key, payload) == [id |-> 0, version |-> 1, key |-> key, size |-> payload.size, checksum |-> payload.data, fields |-> FieldNames]

validateEnvelope(e) == e.version = 1 /\ e.key \in Keys /\ e.size \in 0 .. DefaultMaxPayloadSize

rejectDuplicateOrTrailingFields(e) == \A i, j \in DOMAIN e.fields : e.fields[i] = e.fields[j] => i = j

\* The body must be what EncodeEnvelope would write: no repeated or unknown field, and none out of order.
DecodeEnvelope(e) == rejectDuplicateOrTrailingFields(e) /\ ToSet(e.fields) \subseteq ToSet(FieldNames) /\ validateEnvelope(e) /\ e.fields = FieldNames

returned(p, error, orphaned, queueDeleted) == [p EXCEPT !.pc = "returned", !.error = error, !.orphaned = orphaned, !.queueDeleted = queueDeleted]
become(c, p) == proc' = [proc EXCEPT ![c] = p]

\* What became of a call: done, answered with an error, done but the answer lost, done but answered with nothing.
Fates == {"done", "refused", "lost", "empty"}
takesEffect(fate) == fate # "refused"

Cancel(c) ==
    /\ proc[c].pc \notin {"idle", "returned"} /\ ~proc[c].cancelled
    /\ become(c, [proc[c] EXCEPT !.cancelled = TRUE])
    /\ UNCHANGED <<store, seen>>

-----------------------------------------------------------------------------
(* Send                                                                    *)

Send(c, key, payload) ==
    /\ proc[c].pc = "idle" /\ payload.size <= MaxPayloadSize
    /\ become(c, [Idle EXCEPT !.pc = "put", !.op = "send", !.key = key, !.payload = payload])
    /\ seen' = [seen EXCEPT !.uses[key] = IF @ = 2 THEN 2 ELSE @ + 1]
    /\ UNCHANGED store

\* A context that ended before the call makes none of it; one that ended during it hides what the call did.
PutObject(c, fate) ==
    /\ proc[c].pc = "put"
    /\ store' = IF takesEffect(fate) THEN [store EXCEPT !.objects[proc[c].key] = proc[c].payload] ELSE store
    /\ LET p == proc[c]
       IN  become(c, CASE p.cancelled                   -> returned(p, "canceled", TRUE, FALSE)
                       [] fate = "done" /\ ~p.cancelled -> [p EXCEPT !.pc = "send"]
                       [] fate = "empty" /\ ~p.cancelled -> returned(p, "malformed", TRUE, FALSE)
                       [] OTHER                         -> returned(p, "put", FALSE, FALSE))
    /\ UNCHANGED seen

sendFailureSilent(p) == returned(p, "send", p.cancelled, FALSE)

\* Whatever went wrong after the object was stored, the error says that it may be orphaned.
sendFailure(p) == returned(p, "send", TRUE, FALSE)

SendMessage(c, fate) ==
    /\ proc[c].pc = "send" /\ store.sent < MaxMessages
    /\ LET p == proc[c]
           sends == takesEffect(fate)
           q == [p EXCEPT !.sent = sends]
       IN  /\ store' = IF sends THEN [store EXCEPT !.sent = @ + 1, !.queue = @ \cup {[Envelope(p.key, p.payload) EXCEPT !.id = store.sent + 1]}] ELSE store
           /\ seen' = IF sends THEN [seen EXCEPT !.payloads = Append(@, p.payload.data)] ELSE seen
           /\ become(c, IF fate = "done" /\ ~p.cancelled THEN returned(q, "", FALSE, FALSE) ELSE sendFailure(q))

-----------------------------------------------------------------------------
(* Receive                                                                 *)

\* Every message received is checked before any object is read; their sizes may not add up beyond the limit.
acceptable(messages) ==
    /\ \A i \in DOMAIN messages : DecodeEnvelope(messages[i]) /\ messages[i].size <= MaxPayloadSize
    /\ FoldLeft(LAMBDA sum, m : sum + m.size, 0, messages) <= MaxReceivePayloadSize

Receive(c, messages) ==
    /\ proc[c].pc = "idle" /\ messages # {} /\ messages \subseteq store.queue /\ Cardinality(messages) <= MaxNumberOfMessages
    /\ LET pending == SetToSortSeq(messages, LAMBDA a, b : a.id < b.id)
       IN  become(c, IF acceptable(pending) THEN [Idle EXCEPT !.pc = "get", !.op = "receive", !.pending = pending]
                     ELSE returned([Idle EXCEPT !.op = "receive"], "envelope", FALSE, FALSE))
    /\ UNCHANGED <<store, seen>>

readUnchecked(object, e) == IF object = NoPayload THEN "read" ELSE IF object.size # e.size THEN "size" ELSE ""

\* readPayload reads one byte more than expected to see a longer object; then the checksum is compared.
readPayload(object, e) ==
    IF object = NoPayload THEN "read" ELSE IF object.size # e.size THEN "size" ELSE IF object.data # e.checksum THEN "checksum" ELSE ""

GetObject(c, fate) ==
    /\ proc[c].pc = "get"
    /\ LET p == proc[c]
           e == p.pending[Len(p.got) + 1]
           object == store.objects[e.key]
           got == [p EXCEPT !.got = Append(@, [id |-> e.id, key |-> e.key, data |-> object.data])]
           error == IF p.cancelled THEN "canceled" ELSE IF fate # "done" THEN "read" ELSE readPayload(object, e)
       IN  /\ become(c, IF error # "" THEN returned([p EXCEPT !.got = <<>>], error, FALSE, FALSE)
                        ELSE IF Len(got.got) = Len(p.pending) THEN returned(got, "", FALSE, FALSE)
                        ELSE got)
           /\ seen' = IF error = "" /\ Len(got.got) = Len(p.pending) THEN [seen EXCEPT !.delivered = @ \cup ToSet(got.got)] ELSE seen
    /\ UNCHANGED store

-----------------------------------------------------------------------------
(* Delete                                                                  *)

\* The handler was given messages: it deletes the first of them.
Delete(c) ==
    /\ proc[c].pc = "returned" /\ proc[c].got # <<>>
    /\ become(c, [Idle EXCEPT !.pc = "deleteMessage", !.op = "delete", !.got = proc[c].got, !.key = proc[c].got[1].key])
    /\ UNCHANGED <<store, seen>>

afterDeleteMessageAnyway(p, fate) == [p EXCEPT !.pc = "deleteObject", !.queueDeleted = fate = "done"]

\* The object is deleted only after SQS has answered that the message is gone.
afterDeleteMessage(p, fate) ==
    IF p.cancelled THEN returned([p EXCEPT !.got = <<>>], "canceled", FALSE, TRUE)
    ELSE IF fate = "done" THEN [p EXCEPT !.pc = "deleteObject"]
    ELSE returned([p EXCEPT !.got = <<>>], "deleteMessage", FALSE, FALSE)

DeleteMessage(c, fate) ==
    /\ proc[c].pc = "deleteMessage"
    /\ store' = IF takesEffect(fate) THEN [store EXCEPT !.queue = {m \in @ : m.id # proc[c].got[1].id}] ELSE store
    /\ become(c, afterDeleteMessage(proc[c], fate))
    /\ UNCHANGED seen

DeleteObject(c, fate) ==
    /\ proc[c].pc = "deleteObject"
    /\ LET p == [proc[c] EXCEPT !.got = <<>>]
       IN  /\ store' = IF takesEffect(fate) THEN [store EXCEPT !.objects[p.key] = NoPayload] ELSE store
           /\ become(c, IF p.cancelled THEN returned(p, "canceled", FALSE, TRUE)
                        ELSE IF fate = "done" THEN returned(p, "", FALSE, FALSE) ELSE returned(p, "deleteObject", FALSE, TRUE))
    /\ UNCHANGED seen

\* Provider.DeleteObject: the sender of an object that may be orphaned takes it back.
DeleteOrphan(c, fate) ==
    /\ proc[c].pc = "returned" /\ proc[c].op = "send" /\ proc[c].orphaned
    /\ store' = IF takesEffect(fate) THEN [store EXCEPT !.objects[proc[c].key] = NoPayload] ELSE store
    /\ seen' = [seen EXCEPT !.uses[proc[c].key] = 2]
    /\ become(c, Idle)

Again(c) == proc[c].pc = "returned" /\ become(c, Idle) /\ UNCHANGED <<store, seen>>

NextQueue ==
    \E c \in Clients :
        \/ Cancel(c) \/ Delete(c) \/ Again(c)
        \/ \E k \in Keys, p \in Payloads : Send(c, k, p)
        \/ \E f \in Fates : PutObject(c, f) \/ SendMessage(c, f) \/ GetObject(c, f) \/ DeleteMessage(c, f) \/ DeleteObject(c, f) \/ DeleteOrphan(c, f)
        \/ \E ms \in SUBSET store.queue : Receive(c, ms)

-----------------------------------------------------------------------------
(* Properties                                                              *)

\* What Receive hands over under a message is the payload that was sent with it, even when its key was used again.
DeliveredIsSent == \A d \in seen.delivered : d.id \in 1 .. store.sent => d.data = seen.payloads[d.id]

\* A message on the queue has its object, whatever calls failed in between, unless its key was sent to again or its
\* sender took the object back.
MessagesBacked == \A m \in store.queue : m.id \in 1 .. store.sent /\ seen.uses[m.key] = 1 => store.objects[m.key].data = m.checksum

\* A Send that failed although its message is on the queue says that the object may be orphaned, so nobody takes it
\* for a send that did nothing.
OrphansReported == \A c \in Clients : proc[c].pc = "returned" /\ proc[c].op = "send" /\ proc[c].error # "" /\ proc[c].sent => proc[c].orphaned

-----------------------------------------------------------------------------
(***************************************************************************)
(* )                                                                       *)
(***************************************************************************)
CONSTANTS
    Callers, Waiters,        \* Waiters wait, the other Callers start and stop
    MaxNow, MaxDuration,
    WaitOptions,             \* [poll, max, timeout, backoff]: the default one doubles, others are constant or negative
    Requests,                \* start requests [arn, name, trace, size, json]: booleans, and the input's size
    MaxInputSize, DefaultPoll, DefaultMaxPoll

\* store: the clock and the execution: its status, and whether the client supports StopExecution.
\* proc: per caller: its call, contexts, delay, and timer.
\* seen: history: the last answer of Wait.

(* workflow/stepfunctions.Bridge: Start, Describe, Stop and Wait over the    *)
(* Step Functions service (external), whose calls may fail, be answered      *)
(* after the caller's context ended, or be answered out of shape.            *)
(***************************************************************************)

Statuses == {"RUNNING", "SUCCEEDED", "FAILED", "TIMED_OUT", "ABORTED", "PENDING_REDRIVE"}
IsTerminal(status) == status \in Statuses \ {"RUNNING"}
isKnownStatus(status) == status \in Statuses

NoOptions == [poll |-> 0, max |-> 0, timeout |-> 0, backoff |-> "constant"]
IdleSteps == [pc |-> "idle", ctx |-> "live", options |-> NoOptions, delay |-> 0, deadline |-> 0, timer |-> 0]

NoAnswer == [err |-> "", status |-> "none", ctx |-> "live", expired |-> FALSE]

InitSteps ==
    /\ \E stops \in BOOLEAN : store = [now |-> 0, status |-> "none", stops |-> stops]
    /\ proc = [c \in Callers |-> IdleSteps]
    /\ seen = NoAnswer

\* The execution has a status of the service, and pauses are not negative.
TypeOKSteps ==
    /\ store.now \in 0 .. MaxNow /\ store.status \in Statuses \cup {"none", "NEW_STATUS"}
    /\ \A c \in Callers : proc[c].delay >= 0 /\ proc[c].timer <= MaxNow + MaxDuration

set(c, with) == proc' = [proc EXCEPT ![c] = with]
stay == UNCHANGED <<store, seen>>
return(c) == set(c, IdleSteps)

-----------------------------------------------------------------------------
(* Validation and options                                                  *)

\* An empty input becomes {}, of two bytes.
inputSize(r) == IF r.size = 0 THEN 2 ELSE r.size
validateStartRequest(r) == r.arn /\ r.name /\ r.trace /\ inputSize(r) <= MaxInputSize /\ (r.size = 0 \/ r.json)

normalized(o) == [o EXCEPT !.poll = IF @ = 0 THEN DefaultPoll ELSE @, !.max = IF @ = 0 THEN DefaultMaxPoll ELSE @]
normalizeWaitOptions(o) == LET n == normalized(o) IN n.poll >= 0 /\ n.max >= 0 /\ n.timeout >= 0 /\ n.max >= n.poll

\* Doubling stops before it would overflow a Duration.
defaultBackoff(attempt, previous) ==
    IF attempt <= 0 \/ previous <= 0 THEN previous
    ELSE IF previous > MaxDuration \div 2 THEN MaxDuration ELSE previous * 2

backoff(p) == CASE p.options.backoff = "default" -> defaultBackoff(1, p.delay) [] p.options.backoff = "constant" -> p.delay [] p.options.backoff = "negative" -> -1

nextUncapped(p) == backoff(p)

nextDelay(p) ==
    LET next == backoff(p)
    IN  IF next > p.options.max THEN p.options.max ELSE next

-----------------------------------------------------------------------------
(* Start and Stop                                                          *)

Start(c) ==
    /\ c \notin Waiters /\ proc[c].pc = "idle" /\ store.status = "none"
    /\ \E r \in Requests : IF validateStartRequest(r) THEN set(c, [proc[c] EXCEPT !.pc = "start"]) ELSE UNCHANGED proc
    /\ stay

\* The service starts the execution, or answers with an error, perhaps after it started it; the bridge does not start
\* again, and a context that ended during the call hides the answer.
Started(c) ==
    /\ proc[c].pc = "start" /\ return(c) /\ UNCHANGED seen
    /\ \/ store' = [store EXCEPT !.status = IF @ = "none" THEN "RUNNING" ELSE @]
       \/ UNCHANGED store

Stop(c) ==
    /\ c \notin Waiters /\ proc[c].pc = "idle" /\ store.status # "none" /\ stay
    /\ IF store.stops THEN set(c, [proc[c] EXCEPT !.pc = "stop"]) ELSE UNCHANGED proc

Stopped(c) ==
    /\ proc[c].pc = "stop" /\ return(c) /\ UNCHANGED seen
    /\ \/ store' = [store EXCEPT !.status = IF @ = "RUNNING" THEN "ABORTED" ELSE @]
       \/ UNCHANGED store

\* The execution ends by itself, or reports a status that the bridge does not know.
Progress ==
    /\ store.status = "RUNNING" /\ UNCHANGED <<proc, seen>>
    /\ \E s \in (Statuses \ {"RUNNING"}) \cup {"NEW_STATUS"} : store' = [store EXCEPT !.status = s]

-----------------------------------------------------------------------------
(* Wait                                                                    *)

Wait(c) ==
    /\ c \in Waiters /\ proc[c].pc = "idle" /\ store.status # "none" /\ stay
    /\ \E o \in WaitOptions :
          IF normalizeWaitOptions(o)
          THEN set(c, [proc[c] EXCEPT !.pc = "poll", !.options = normalized(o), !.delay = normalized(o).poll,
                                      !.deadline = IF o.timeout > 0 THEN store.now + o.timeout ELSE MaxNow + 1])
          ELSE UNCHANGED proc

Expired(c) == store.now >= proc[c].deadline

answerSteps(c, err) ==
    /\ return(c) /\ UNCHANGED store
    /\ seen' = [err |-> err, status |-> store.status, ctx |-> proc[c].ctx, expired |-> Expired(c)]

\* waitError: the caller's own error first, then the timeout of the wait, then the error of the call.
waitErrorTimeoutFirst(c, err) ==
    IF Expired(c) /\ err = "deadline" THEN "wait timeout" ELSE IF proc[c].ctx = "done" THEN "context" ELSE err

waitError(c, err) ==
    IF proc[c].ctx = "done" THEN "context" ELSE IF Expired(c) /\ err = "deadline" THEN "wait timeout" ELSE err

Over(c) == proc[c].ctx = "done" \/ Expired(c)

\* The result of a terminal status.
outcome(status) ==
    CASE status \in {"SUCCEEDED", "PENDING_REDRIVE"} -> "nil"
      [] status = "FAILED" -> "execution failed" [] status = "TIMED_OUT" -> "execution timed out"
      [] status = "ABORTED" -> "execution aborted" [] ~ isKnownStatus(status) -> "unknown status"

\* One round: the contexts, DescribeExecution, and what its answer says; Describe checks the context again after the
\* call.
Poll(c) ==
    /\ proc[c].pc = "poll"
    /\ \/ Over(c) /\ answerSteps(c, waitError(c, "deadline"))
       \/ ~ Over(c) /\ set(c, [proc[c] EXCEPT !.pc = "describe"]) /\ stay

Describe(c) ==
    /\ proc[c].pc = "describe"
    /\ \/ /\ Over(c) /\ set(c, [proc[c] EXCEPT !.pc = "lost"]) /\ stay
       \/ /\ ~ Over(c) /\ answerSteps(c, "describe failed")
       \/ /\ ~ Over(c) /\ store.status = "RUNNING"
          /\ set(c, [proc[c] EXCEPT !.pc = "pause", !.timer = store.now + proc[c].delay]) /\ stay
       \/ /\ ~ Over(c) /\ store.status # "RUNNING"
          /\ answerSteps(c, outcome(store.status))

Lost(c) == proc[c].pc = "lost" /\ answerSteps(c, waitError(c, "deadline"))

\* waitFor: the timer, the caller's context or the wait's.
Pause(c) ==
    /\ proc[c].pc = "pause"
    /\ \/ Over(c) /\ answerSteps(c, waitError(c, "deadline"))
       \/ ~ Over(c) /\ store.now >= proc[c].timer /\ nextDelay(proc[c]) < 0 /\ answerSteps(c, "invalid options")
       \/ /\ ~ Over(c) /\ store.now >= proc[c].timer /\ nextDelay(proc[c]) >= 0
          /\ set(c, [proc[c] EXCEPT !.pc = "poll", !.delay = nextDelay(proc[c])]) /\ stay

CancelSteps(c) == proc[c].pc # "idle" /\ proc[c].ctx = "live" /\ set(c, [proc[c] EXCEPT !.ctx = "done"]) /\ stay

Tick == store.now < MaxNow /\ store' = [store EXCEPT !.now = @ + 1] /\ UNCHANGED <<proc, seen>>

NextSteps ==
    \/ Progress \/ Tick
    \/ \E c \in Callers : \/ Start(c) \/ Started(c) \/ Stop(c) \/ Stopped(c) \/ Wait(c) \/ Poll(c) \/ Describe(c)
                          \/ Lost(c) \/ Pause(c) \/ CancelSteps(c)

-----------------------------------------------------------------------------
(* Properties                                                              *)

\* Wait answers nil only for an execution that has ended well (or awaits a redrive), a failure with that execution's own
\* status, a caller's cancellation as the caller's and its own timeout as ErrWaitTimeout; pauses never pass
\* MaxPollInterval.
WaitsHonestly ==
    /\ seen.err = "nil" => seen.status \in {"SUCCEEDED", "PENDING_REDRIVE"}
    /\ seen.err = "execution aborted" => seen.status = "ABORTED"
    /\ seen.err = "wait timeout" => seen.expired /\ seen.ctx = "live"
    /\ seen.err = "context" => seen.ctx = "done"
    /\ \A c \in Callers : proc[c].delay <= proc[c].options.max

-----------------------------------------------------------------------------
(***************************************************************************)
(* )                                                                       *)
(***************************************************************************)
CONSTANTS
    Operations, RequestsVectors,    \* what callers ask: [Operations -> sets of requests]
    MaxListVectorBucketsResults, MaxListIndexesResults, MaxListVectorsResults, MaxPutVectors, MaxGetVectors, MaxQueryTopK,
    MaxVectorDimension, MaxVectorKeyCharacters, MaxSegmentCount, MaxVectorMetadataBytes, MaxRequestPayloadBytes,
    MaxIdentifierBytes, MaxPaginationTokenBytes, MaxPrefixBytes, ComponentBytes, PutOverhead, GetOverhead, QueryOverhead

(* Package s3vectors: Provider checks and copies a request before it calls the *)
(* Amazon S3 Vectors client, and checks what the client answers. A text is      *)
(* [bytes, runes, blank, utf8]; an optional field is a set of at most one.      *)
(***************************************************************************)

-----------------------------------------------------------------------------
(* Fields                                                                  *)

nonBlankPointer(value) == \E s \in value : s.utf8 /\ s.bytes <= MaxIdentifierBytes /\ ~s.blank
absentOrNonBlank(value) == value = {} \/ nonBlankPointer(value)
validOptionalString(value, maxBytes) == \A s \in value : s.utf8 /\ s.bytes <= maxBytes
validCount(value, max) == \A n \in value : n > 0 /\ n <= max

validIdentifierPair(arn, name) == absentOrNonBlank(arn) /\ absentOrNonBlank(name) /\ (nonBlankPointer(arn) # nonBlankPointer(name))

\* An index is named by its ARN alone, or by its name and its bucket's.
validIndexReference(arn, index, bucket) ==
    /\ absentOrNonBlank(arn) /\ absentOrNonBlank(index) /\ absentOrNonBlank(bucket)
    /\ IF nonBlankPointer(arn) THEN ~nonBlankPointer(index) /\ ~nonBlankPointer(bucket) ELSE nonBlankPointer(index) /\ nonBlankPointer(bucket)

validVectorKey(value) == \E s \in value : s.utf8 /\ ~s.blank /\ s.runes <= MaxVectorKeyCharacters
\* Data is the sequence of its components, each a number or not one ("nan", "inf" in the code).
validVectorData(data) == \E d \in data : Len(d) \in 1 .. MaxVectorDimension /\ \A i \in DOMAIN d : d[i]
vectorDimension(data) == IF data = {} THEN 0 ELSE Len(CHOOSE d \in data : TRUE)

\* A document is absent, or [marshals, bytes].
serializedDocumentSize(document) == IF document = {} THEN {0} ELSE {d.bytes : d \in {e \in document : e.marshals}}

addRequestBytesAlone(total, amount) == IF amount > MaxRequestPayloadBytes THEN {} ELSE {total + amount}

\* The new total, or nothing when it would pass the limit; the comparison cannot overflow.
addRequestBytes(total, amount) == IF amount < 0 \/ amount > MaxRequestPayloadBytes - total THEN {} ELSE {total + amount}

bytesOf(text) == IF text = {} THEN 0 ELSE (CHOOSE s \in text : TRUE).bytes

-----------------------------------------------------------------------------
(* Requests                                                                *)

validateListVectorBucketsInput(r) ==
    validCount(r.max, MaxListVectorBucketsResults) /\ validOptionalString(r.prefix, MaxPrefixBytes) /\ validOptionalString(r.token, MaxPaginationTokenBytes)

validateGetVectorBucketInput(r) == validIdentifierPair(r.arn, r.bucket)

validateListIndexesInput(r) ==
    /\ validIdentifierPair(r.arn, r.bucket) /\ validCount(r.max, MaxListIndexesResults)
    /\ validOptionalString(r.prefix, MaxPrefixBytes) /\ validOptionalString(r.token, MaxPaginationTokenBytes)

validateGetIndexInput(r) == validIndexReference(r.arn, r.index, r.bucket)

putVectorBytes(total, v) ==
    IF ~validVectorKey(v.key) \/ ~validVectorData(v.data) THEN {}
    ELSE UNION {addRequestBytes(total, bytesOf(v.key) + vectorDimension(v.data) * ComponentBytes + size + PutOverhead) : size \in {s \in serializedDocumentSize(v.metadata) : s <= MaxVectorMetadataBytes}}

validatePutVectorsInput(r) ==
    /\ validIndexReference(r.arn, r.index, r.bucket) /\ Len(r.vectors) \in 1 .. MaxPutVectors
    /\ FoldLeft(LAMBDA totals, v : UNION {putVectorBytes(t, v) : t \in totals}, {0}, r.vectors) # {}

validateGetVectorsInput(r) ==
    /\ validIndexReference(r.arn, r.index, r.bucket) /\ Len(r.keys) \in 1 .. MaxGetVectors
    /\ \A i \in DOMAIN r.keys : validVectorKey({r.keys[i]})
    /\ FoldLeft(LAMBDA totals, k : UNION {addRequestBytes(t, k.bytes + GetOverhead) : t \in totals}, {0}, r.keys) # {}

\* A segment is given by its index and their number; without a number the index is left at zero.
validateListVectorsInput(r) ==
    /\ validIndexReference(r.arn, r.index, r.bucket) /\ validCount(r.max, MaxListVectorsResults) /\ validOptionalString(r.token, MaxPaginationTokenBytes)
    /\ IF r.segments = {} THEN r.segment = 0 ELSE validCount(r.segments, MaxSegmentCount) /\ \A n \in r.segments : r.segment \in 0 .. n - 1

validateQueryVectorsInput(r) ==
    /\ validIndexReference(r.arn, r.index, r.bucket) /\ r.topK # {} /\ validCount(r.topK, MaxQueryTopK) /\ validVectorData(r.query)
    /\ \E size \in serializedDocumentSize(r.filter) : vectorDimension(r.query) * ComponentBytes + size + QueryOverhead <= MaxRequestPayloadBytes
    /\ validOptionalString(r.token, MaxPaginationTokenBytes)

-----------------------------------------------------------------------------
(* Copies: the fields of the request that the copy is built from             *)

only(r, fields) == [f \in fields |-> r[f]]

cloneListVectorBucketsInput(r) == only(r, {"max", "token", "prefix"})
cloneGetVectorBucketInput(r) == only(r, {"arn", "bucket"})
cloneListIndexesInput(r) == only(r, {"max", "token", "prefix", "arn", "bucket"})
cloneGetIndexInput(r) == only(r, {"arn", "index", "bucket"})
clonePutInputVector(v) == [data |-> v.data, key |-> v.key, metadata |-> v.metadata]
clonePutVectorsInput(r) == [only(r, {"arn", "index", "bucket", "vectors"}) EXCEPT !.vectors = [i \in DOMAIN r.vectors |-> clonePutInputVector(r.vectors[i])]]
cloneGetVectorsInput(r) == only(r, {"keys", "arn", "index", "returnData", "returnMetadata", "bucket"})

cloneListVectorsInput(r) == only(r, {"arn", "index", "max", "token", "returnData", "returnMetadata", "segments", "segment", "bucket"})
cloneQueryVectorsInput(r) == only(r, {"query", "topK", "filter", "arn", "index", "token", "returnDistance", "returnMetadata", "bucket"})

-----------------------------------------------------------------------------
(* Calls                                                                   *)

IdleVectors == [pc |-> "idle", op |-> "", cancelled |-> FALSE, sent |-> {}, answered |-> "", error |-> ""]

InitVectors ==
    /\ store = [asked |-> {}]
    /\ proc = IdleVectors
    /\ seen = 0

TypeOKVectors == proc.pc \in {"idle", "call", "returned"} /\ Cardinality(proc.sent) <= 1 /\ (proc.pc = "call" => proc.op \in Operations)

returnedVectors(p, error) == [p EXCEPT !.pc = "returned", !.error = error]

\* A context that ended before the request was looked at, or while it was copied, makes no call.
begin(op, request, valid, copy) ==
    /\ proc.pc = "idle"
    /\ store' = [asked |-> {request}] /\ UNCHANGED seen
    /\ \E cancelled \in BOOLEAN :
         proc' = LET p == [IdleVectors EXCEPT !.op = op, !.cancelled = cancelled]
                 IN  CASE cancelled          -> returnedVectors(p, "context")
                       [] ~cancelled /\ ~valid -> returnedVectors(p, "ErrInvalidRequest")
                       [] OTHER -> [p EXCEPT !.pc = "call", !.sent = {copy}]

ListVectorBuckets(r) == begin("ListVectorBuckets", r, validateListVectorBucketsInput(r), cloneListVectorBucketsInput(r))
GetVectorBucket(r) == begin("GetVectorBucket", r, validateGetVectorBucketInput(r), cloneGetVectorBucketInput(r))
ListIndexes(r) == begin("ListIndexes", r, validateListIndexesInput(r), cloneListIndexesInput(r))
GetIndex(r) == begin("GetIndex", r, validateGetIndexInput(r), cloneGetIndexInput(r))
PutVectors(r) == begin("PutVectors", r, validatePutVectorsInput(r), clonePutVectorsInput(r))
GetVectors(r) == begin("GetVectors", r, validateGetVectorsInput(r), cloneGetVectorsInput(r))
ListVectors(r) == begin("ListVectors", r, validateListVectorsInput(r), cloneListVectorsInput(r))
QueryVectors(r) == begin("QueryVectors", r, validateQueryVectorsInput(r), cloneQueryVectorsInput(r))

CancelVectors == proc.pc = "call" /\ ~proc.cancelled /\ proc' = [proc EXCEPT !.cancelled = TRUE] /\ UNCHANGED <<store, seen>>

finishTrusting(p, answer) == IF p.cancelled THEN returnedVectors(p, "context") ELSE IF answer = "error" THEN returnedVectors(p, "ErrOperationFailed") ELSE returnedVectors(p, "")

\* The answer is whole, lacks what the operation is for, or is none at all. PutVectors has nothing to give.
finish(p, answer) ==
    CASE p.cancelled                                                       -> returnedVectors(p, "context")
      [] ~p.cancelled /\ answer = "error"                                  -> returnedVectors(p, "ErrOperationFailed")
      [] ~p.cancelled /\ (answer = "nil" \/ (answer = "hollow" /\ p.op # "PutVectors")) -> returnedVectors(p, "ErrMalformedOutput")
      [] OTHER                                                             -> returnedVectors(p, "")

Answer(answer) ==
    /\ proc.pc = "call"
    /\ proc' = finish([proc EXCEPT !.answered = answer], answer)
    /\ UNCHANGED <<store, seen>>

AgainVectors == proc.pc = "returned" /\ proc' = IdleVectors /\ store' = [asked |-> {}] /\ UNCHANGED seen

NextVectors ==
    \/ CancelVectors \/ AgainVectors
    \/ \E a \in {"whole", "hollow", "nil", "error"} : Answer(a)
    \/ /\ proc.pc = "idle"
       /\ \/ \E r \in RequestsVectors["ListVectorBuckets"] : ListVectorBuckets(r)
          \/ \E r \in RequestsVectors["GetVectorBucket"] : GetVectorBucket(r)
          \/ \E r \in RequestsVectors["ListIndexes"] : ListIndexes(r)
          \/ \E r \in RequestsVectors["GetIndex"] : GetIndex(r)
          \/ \E r \in RequestsVectors["PutVectors"] : PutVectors(r)
          \/ \E r \in RequestsVectors["GetVectors"] : GetVectors(r)
          \/ \E r \in RequestsVectors["ListVectors"] : ListVectors(r)
          \/ \E r \in RequestsVectors["QueryVectors"] : QueryVectors(r)

-----------------------------------------------------------------------------
(* Properties                                                              *)

\* By definition: the bytes that the vectors, or the keys, of a request take.
payloadVectors(s) ==
    IF proc.op = "PutVectors" THEN FoldLeft(LAMBDA n, v : n + bytesOf(v.key) + Len(CHOOSE d \in v.data : TRUE) * ComponentBytes + bytesOf(v.metadata) + PutOverhead, 0, s.vectors)
    ELSE IF proc.op = "GetVectors" THEN FoldLeft(LAMBDA n, k : n + k.bytes + GetOverhead, 0, s.keys)
    ELSE 0

\* Whatever the client is sent stays, all its parts together, below the payload limit, names its index in exactly one
\* way, and says in every field it has what the caller said.
SentFits ==
    \A s \in proc.sent :
        /\ payloadVectors(s) <= MaxRequestPayloadBytes
        /\ "index" \in DOMAIN s => (s.arn # {}) # (s.index # {}) /\ (s.index # {} <=> s.bucket # {})
        /\ \A r \in store.asked : \A f \in DOMAIN s : s[f] = r[f]

\* A call that returns no error was made and answered in full; one that calls its request invalid was never made.
OutcomesHonest ==
    proc.pc = "returned" =>
        /\ proc.error = "" => proc.sent # {} /\ (proc.answered = "whole" \/ (proc.op = "PutVectors" /\ proc.answered = "hollow"))
        /\ proc.error = "ErrInvalidRequest" => proc.sent = {}

=============================================================================

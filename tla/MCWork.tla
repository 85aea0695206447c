------------------------------- MODULE MCWork -------------------------------
(***************************************************************************)
(* Model checking of the atomic step with two runners whose chunk sizes    *)
(* differ, and beside it of the step with a separate checkpoint store, of   *)
(* the outbox, and of the components that run work for their callers and    *)
(* keep their state in store, proc and seen.  They share no state: which    *)
(* chooses the one that a behaviour is about.                               *)
(***************************************************************************)
EXTENDS AtomicStep, TLC

CONSTANTS r1, r2, a1, a2, b1, None

VARIABLES
  which,
  at, result, started, place, end, tries, skipped, dropping, handled, left,
  hasStore, collected, reads, writes, filters, checkpoint,
  attempts, due, batch, current, holder, delivered, faults,
  store, proc, seen

ChunkSizes == [r \in Runners |-> IF r = r1 THEN 1 ELSE 2]

Separate == INSTANCE BatchStep WITH
  pc <- at, status <- result, runs <- started, position <- place, eof <- end, attempt <- tries, skips <- skipped,
  drops <- dropping, written <- handled, dropped <- left, chunk <- collected,
  N <- 5, ChunkSize <- 2, MaxAttempts <- 2, MaxSkips <- 2, MaxRuns <- 2

\* Two revisions of one aggregate, one of another.
Aggregates == [r \in {a1, a2, b1} |-> IF r = b1 THEN "b" ELSE "a"]
Revisions == [r \in {a1, a2, b1} |-> IF r = a2 THEN 2 ELSE 1]
Outbox == INSTANCE SqlOutbox WITH
  pc <- at, status <- result, attempt <- tries, Records <- {a1, a2, b1}, Relays <- {r1, r2},
  Aggregate <- Aggregates, Revision <- Revisions, ClaimLimit <- 2, MaxAttempts <- 2, MaxFaults <- 1

\* The audit log: four event records (two share a key, one is invalid), what writers attach, and queries.
AuditDrafts ==
    LET D(i, k, t, v) == [id |-> i, key |-> k, at |-> t, valid |-> v] IN {D(1, 1, 2, TRUE), D(2, 2, 1, TRUE), D(3, 2, 1, TRUE), D(4, 4, 1, FALSE)}
AuditExtras ==
    LET X(s, c) == [snapshot |-> s, change |-> c] IN <<X("good", <<2, 1, 2>>), X("none", <<>>), X("none", <<3>>), X("bad", <<0>>)>>
AuditQueries ==
    LET Q(f, t, s, u, n, l) == [from |-> f, to |-> t, since |-> s, until |-> u, newest |-> n, limit |-> l]
    IN  {Q(2, 3, 0, 0, TRUE, 1), Q(0, 0, 2, 2, FALSE, 0), Q(2, 1, 0, 0, FALSE, 0), Q(0, 2, 1, 0, TRUE, 2)}
\* Outbox records that fit an EventBridge entry, do not, are inconsistent, or are no text.
OutboxRecords ==
    LET R(i, n, m, u, p, e) == [id |-> i, attempts |-> n, matches |-> m, utf8 |-> u, parts |-> p, envelope |-> e]
    IN  {R(1, 1, TRUE, TRUE, <<1, 2>>, 4), R(2, 1, FALSE, TRUE, <<1>>, 3), R(3, 2, TRUE, TRUE, <<2, 2>>, 6), R(4, 1, TRUE, TRUE, <<3>>, 5), R(5, 0, TRUE, FALSE, <<>>, 1)}

\* A cyclic table with a transition out of a final state, and one that registers a transition twice.
OrderTables ==
    LET T(f, e, t, g) == [from |-> f, event |-> e, to |-> t, guarded |-> g]
    IN  {<<T("new", "pay", "paid", TRUE), T("new", "cancel", "cancelled", FALSE), T("paid", "refund", "new", FALSE), T("paid", "ship", "shipped", TRUE), T("shipped", "pay", "paid", FALSE)>>,
         <<T("new", "pay", "paid", TRUE), T("new", "pay", "cancelled", FALSE)>>}

\* Polls that grow up to a limit, stay constant, start above the limit, or turn negative; executions with bad names and inputs.
PollOptions ==
    LET W(p, m, t, d) == [poll |-> p, max |-> m, timeout |-> t, backoff |-> d]
    IN  {W(1, 3, 0, "default"), W(0, 2, 2, "constant"), W(2, 1, 0, "default"), W(3, 3, 3, "negative")}
StartRequests ==
    LET Q(a, n, t, s, j) == [arn |-> a, name |-> n, trace |-> t, size |-> s, json |-> j]
    IN  {Q(TRUE, TRUE, TRUE, 0, FALSE), Q(TRUE, FALSE, TRUE, 1, TRUE), Q(TRUE, TRUE, TRUE, 9, TRUE)}

\* Rule documents: rules that trigger one another, each kind of group, failing rules, expressions and keys that are refused.
RuleDocuments ==
    LET L(n, p, k, v, t, f) == [name |-> n, priority |-> p, kind |-> "leaf", children |-> <<>>, when |-> <<k, v>>, then |-> t, fails |-> f]
        G(n, p, kind, c) == [name |-> n, priority |-> p, kind |-> kind, children |-> c, when |-> <<"a", 0>>, then |-> <<>>, fails |-> ""]
    IN  {<<L(2, 1, "a", 0, <<<<"a", 1>>>>, ""), L(1, 1, "a", 1, <<<<"b", 1>>>>, ""), L(3, 5, "b", 1, <<>>, "execute")>>,
         <<G(1, 1, "activation", <<L(1, 0, "a", 1, <<<<"a", 0>>>>, ""), L(2, 0, "b", 0, <<<<"b", 1>>>>, "")>>),
           G(2, 2, "unit", <<L(1, 0, "b", 1, <<<<"a", 1>>>>, ""), L(2, 0, "a", 0, <<<<"b", 1>>>>, "")>>)>>,
         <<G(1, 1, "conditional", <<L(1, 0, "a", 0, <<>>, ""), L(2, 0, "b", 0, <<<<"b", 1>>>>, ""), L(3, 0, "b", 1, <<<<"a", 1>>>>, "")>>), L(4, 0, "b", 1, <<>>, "evaluate")>>,
         <<L(1, 1, "call()", 0, <<>>, "")>>, <<L(1, 1, "a", 0, <<<<"", 1>>>>, "")>>}
RuleConfigs ==
    LET C(a, f, n, t, c) == [applied |-> a, failed |-> f, notTriggered |-> n, threshold |-> t, cycles |-> c]
    IN  {C(FALSE, FALSE, FALSE, 99, 3), C(TRUE, FALSE, FALSE, 3, 3), C(FALSE, TRUE, FALSE, 99, 2), C(FALSE, FALSE, TRUE, 99, 0), C(TRUE, FALSE, TRUE, 3, 2)}

\* Payloads of the queue, one of them too large; a foreign envelope that repeats a field.
QueuePayloads == LET P(d, s) == [data |-> d, size |-> s] IN {P(1, 2), P(2, 2), P(3, 4)}
ForeignMessages ==
    {[id |-> 9, version |-> 1, key |-> 1, size |-> 2, checksum |-> 1, fields |-> <<"version", "bucket", "key", "content_size", "checksum", "key">>]}

\* Parameter names, database hosts and write requests: good ones, and ones that pass a limit.
LookupNames == LET A(t, s) == [text |-> t, size |-> s, utf8 |-> TRUE, blank |-> FALSE] IN {A("a", 1), A("long", 9)}
AuthRequests ==
    LET L(s, h) == [size |-> s, hyphenated |-> h, ascii |-> TRUE]
        F(s) == [utf8 |-> TRUE, size |-> s, spaced |-> FALSE]
        H(c, i, ls) == [colon |-> c, ip |-> i, labels |-> ls]
        R(h, p, u) == [host |-> h, port |-> p, region |-> F(1), username |-> F(u)]
    IN  {R(H(FALSE, FALSE, <<L(2, FALSE), L(1, FALSE)>>), 5, 2), R(H(TRUE, TRUE, <<>>), 0, 2), R(H(FALSE, FALSE, <<L(3, FALSE), L(3, FALSE)>>), 5, 2), R(H(FALSE, FALSE, <<L(1, TRUE)>>), 5, 0)}
TableWrites == {<<<<>>>>, <<<<1>>, <<1, 2, 3>>>>, <<<<1, 2>>, <<>>, <<4>>>>}

\* Providers that share a key, and one whose options give a context key twice.
KmsProviders == LET P(k, o) == [key |-> k, options |-> o] IN <<P(1, <<{<<1, 5>>}, {<<2, 6>>}>>), P(2, <<>>), P(1, <<{<<1, 5>>}, {<<1, 6>>}>>)>>

\* Requests of the vector client, with texts, vectors, metadata and numbers on both sides of every limit.
VectorRequests ==
    LET T(b, r, blank, u) == [bytes |-> b, runes |-> r, blank |-> blank, utf8 |-> u]
        good == {T(2, 1, FALSE, TRUE)}
        wide == {T(4, 4, FALSE, TRUE)}
        texts == {{}, good, wide, {T(1, 1, TRUE, TRUE)}, {T(1, 1, FALSE, FALSE)}}
        documents == {{}, {[marshals |-> TRUE, bytes |-> 2]}, {[marshals |-> TRUE, bytes |-> 3]}, {[marshals |-> FALSE, bytes |-> 0]}}
        data == {{}, {<<TRUE>>}, {<<TRUE, TRUE>>}, {<<TRUE, FALSE>>}, {<<TRUE, TRUE, TRUE>>}}
        Vec(k, d, m) == [key |-> k, data |-> d, metadata |-> m]
        vectors == {Vec(k, {<<TRUE>>}, {}) : k \in texts} \cup {Vec(good, d, {}) : d \in data} \cup {Vec(good, {<<TRUE>>}, m) : m \in documents}
        base == [arn |-> {}, index |-> good, bucket |-> good, max |-> {}, prefix |-> {}, token |-> {}, vectors |-> <<>>, keys |-> <<>>, segments |-> {}, segment |-> 0,
                 topK |-> {1}, query |-> {<<TRUE>>}, filter |-> {}, returnData |-> TRUE, returnMetadata |-> FALSE, returnDistance |-> TRUE]
        named == {[base EXCEPT !.arn = a, !.index = i, !.bucket = b] : a \in texts, i \in texts, b \in texts}
        paged == {[base EXCEPT !.max = m, !.token = t, !.prefix = f] : m \in {{}, {0}, {2}, {3}}, t \in texts, f \in {{}, good, wide}}
    IN  [ListVectorBuckets |-> paged, GetVectorBucket |-> named, GetIndex |-> named, ListIndexes |-> paged \cup named,
         PutVectors |-> {[base EXCEPT !.vectors = vs] : vs \in {<<>>} \cup {<<a>> : a \in vectors} \cup {<<a, b>> : a, b \in vectors}} \cup {[base EXCEPT !.arn = good]},
         GetVectors |-> {[base EXCEPT !.keys = ks] : ks \in {<<>>} \cup {<<a>> : a \in UNION texts} \cup {<<a, b>> : a, b \in UNION texts} \cup {<<a, a, a>> : a \in UNION texts}},
         ListVectors |-> {[q EXCEPT !.segments = n, !.segment = i] : q \in paged, n \in {{}, {0}, {2}, {3}}, i \in {-1, 0, 1, 2}},
         QueryVectors |-> {[base EXCEPT !.topK = k, !.query = d, !.filter = m, !.token = t] : k \in {{}, {0}, {2}, {3}}, d \in data, m \in documents, t \in {{}, good, wide}}]

Audit == INSTANCE AuditLog WITH
  Goroutines <- {1, 2}, Recorders <- {1, 2}, MaxRevision <- 2, Aggregates <- {[text |-> 1, padded |-> FALSE]}, Drafts <- AuditDrafts,
  Extras <- AuditExtras, Queries <- AuditQueries, Relays <- {1, 2}, Kinds <- {"eventbridge", "redisstreams", "recording"}, Records <- OutboxRecords,
  MaxDetailSize <- 0, MaxEventEntrySize <- 7, NamesSize <- 2, Failures <- 1, MaxCalls <- 3
Flows == INSTANCE WorkRunners WITH
  Works <- {1, 2, 3}, Kinds <- {"sequential", "conditional", "parallel"}, FailurePolicies <- {"stop", "continue", "other"},
  FalseBranches <- {0, 1, 2}, Callers <- {1, 2}, Events <- {"pay", "cancel", "refund", "ship"}, FinalStates <- {"shipped", "cancelled"},
  InitialState <- "new", MaxCommits <- 4, Tables <- OrderTables, Tasks <- {1, 2, 3}, KindsTasks <- {"foreach", "map", "pool", "stress", "robin"},
  Limits <- {1, 2}, Robins <- {1, 2, 3}, Maximum <- 3, MaxNexts <- 5, Documents <- RuleDocuments, Configs <- RuleConfigs, KeysRules <- {"a", "b"},
  FactValues <- {0, 1}, MaxOutside <- 2
Services == INSTANCE AwsServices WITH
  Callers <- {1, 2}, Waiters <- {1}, MaxNow <- 4, MaxDuration <- 6, MaxInputSize <- 8, DefaultPoll <- 1, DefaultMaxPoll <- 2,
  WaitOptions <- PollOptions, Requests <- StartRequests, Clients <- {1, 2}, Keys <- {1}, MaxPayloadSize <- 3, MaxReceivePayloadSize <- 3,
  DefaultMaxPayloadSize <- 4, MaxNumberOfMessages <- 2, MaxMessages <- 2, Payloads <- QueuePayloads, Foreign <- ForeignMessages,
  Operations <- DOMAIN VectorRequests, RequestsVectors <- VectorRequests, MaxListVectorBucketsResults <- 2, MaxListIndexesResults <- 2,
  MaxListVectorsResults <- 2, MaxPutVectors <- 2, MaxGetVectors <- 2, MaxQueryTopK <- 2, MaxVectorDimension <- 2, MaxVectorKeyCharacters <- 3,
  MaxSegmentCount <- 2, MaxVectorMetadataBytes <- 2, MaxRequestPayloadBytes <- 8, MaxIdentifierBytes <- 3, MaxPaginationTokenBytes <- 3,
  MaxPrefixBytes <- 3, ComponentBytes <- 1, PutOverhead <- 1, GetOverhead <- 2, QueryOverhead <- 4
Clients == INSTANCE AwsClients WITH
  Kinds <- {"ssm", "secretsmanager", "rds", "batchwrite"}, Callers <- {1, 2}, Names <- LookupNames, MaxNameBytes <- 3, CacheTTLs <- {0, 1},
  MaxVersions <- 2, MaxNow <- 2, Requests <- AuthRequests, MaxField <- 2, MaxLabel <- 3, MaxHost <- 5, MaxPort <- 8, Writes <- TableWrites,
  MaxItemsPerBatch <- 2, Attempts <- {0, 1, 2}, CallersKms <- {1}, Providers <- KmsProviders, Texts <- {<<7>>, <<7, 8, 9>>},
  AssociatedData <- {<<>>, <<1>>}, MaxPlaintextSize <- 2, MaxAssociatedDataSize <- 2, MaxEncryptedDataKeySize <- 1, MaxKeyIDSize <- 2,
  MaxContextEntries <- 2, MaxContextSize <- 4, Chars <- {0, 1, 4, 16, 63, 64, 65}, MaxKeys <- 2

shared == <<at, result, tries>>
separateOnly == <<started, place, end, skipped, dropping, handled, left, hasStore, collected, reads, writes, filters, checkpoint>>
outboxOnly == <<attempts, due, batch, current, holder, delivered, faults>>
others == <<shared, separateOnly, outboxOnly>>
jobs == <<store, proc, seen>>
workVars == <<vars, which, others, jobs>>

Unused(x) == x = 0
NoShared == Unused(at) /\ Unused(result) /\ Unused(tries)
NoSeparate == /\ Unused(started) /\ Unused(place) /\ Unused(end) /\ Unused(skipped) /\ Unused(dropping)
              /\ Unused(handled) /\ Unused(left) /\ Unused(hasStore) /\ Unused(collected) /\ Unused(reads)
              /\ Unused(writes) /\ Unused(filters) /\ Unused(checkpoint)
NoOutbox == /\ Unused(attempts) /\ Unused(due) /\ Unused(batch) /\ Unused(current) /\ Unused(holder)
            /\ Unused(delivered) /\ Unused(faults)
NoJob == Unused(store) /\ Unused(proc) /\ Unused(seen)

JobsInit ==
  \/ which = "history" /\ Audit!InitHistory
  \/ which = "publishers" /\ Audit!InitPublishers
  \/ which = "workflows" /\ Flows!InitFlows
  \/ which = "machine" /\ Flows!InitMachine
  \/ which = "tasks" /\ Flows!InitTasks
  \/ which = "executions" /\ Services!InitSteps
  \/ which = "rules" /\ Flows!InitRules
  \/ which = "queue" /\ Services!InitQueue
  \/ which = "lookups" /\ Clients!InitLookups
  \/ which = "envelopes" /\ Clients!InitKms
  \/ which = "vectors" /\ Services!InitVectors

WorkInit ==
  /\ Init
  /\ \/ which = "atomic" /\ NoShared /\ NoSeparate /\ NoOutbox /\ NoJob
     \/ which = "separate" /\ Separate!Init /\ NoOutbox /\ NoJob
     \/ which = "outbox" /\ Outbox!Init /\ NoSeparate /\ NoJob
     \/ NoShared /\ NoSeparate /\ NoOutbox /\ JobsInit

JobsNext ==
  \/ which = "history" /\ Audit!NextHistory
  \/ which = "publishers" /\ Audit!NextPublishers
  \/ which = "workflows" /\ Flows!NextFlows
  \/ which = "machine" /\ Flows!NextMachine
  \/ which = "tasks" /\ Flows!NextTasks
  \/ which = "executions" /\ Services!NextSteps
  \/ which = "rules" /\ Flows!NextRules
  \/ which = "queue" /\ Services!NextQueue
  \/ which = "lookups" /\ Clients!NextLookups
  \/ which = "envelopes" /\ Clients!NextKms
  \/ which = "vectors" /\ Services!NextVectors

WorkNext ==
  /\ UNCHANGED which
  /\ \/ which = "atomic" /\ Next /\ UNCHANGED <<others, jobs>>
     \/ which = "separate" /\ Separate!Next /\ UNCHANGED <<vars, outboxOnly, jobs>>
     \/ which = "outbox" /\ Outbox!Next /\ UNCHANGED <<vars, separateOnly, jobs>>
     \/ JobsNext /\ UNCHANGED <<vars, others>>

WorkSpec == WorkInit /\ [][WorkNext]_workVars

\* Every component keeps to its types: the runners and the saved progress, the report of Step.Run, the table and the
\* relays of the outbox, and the calls and the services of the others.
TypesOK ==
  /\ TypeOK
  /\ which = "separate" => Separate!TypeOK
  /\ which = "outbox" => Outbox!TypeOK
  /\ which = "history" => Audit!TypeOKHistory
  /\ which = "publishers" => Audit!TypeOKPublishers
  /\ which = "workflows" => Flows!TypeOKFlows
  /\ which = "machine" => Flows!TypeOKMachine
  /\ which = "tasks" => Flows!TypeOKTasks
  /\ which = "executions" => Services!TypeOKSteps
  /\ which = "rules" => Flows!TypeOKRules
  /\ which = "queue" => Services!TypeOKQueue
  /\ which = "lookups" => Clients!TypeOKLookups
  /\ which = "envelopes" => Clients!TypeOKKms
  /\ which = "vectors" => Services!TypeOKVectors

\* Step.Run: a completed run has left no item behind, its report accounts for every item, and what a saved checkpoint
\* has passed was written if the processor drops nothing; with an atomic store a completed run has handled every item.
HandledAll ==
    /\ CompletedHandledAll
    /\ which = "separate" => Separate!CompletedHandledAll /\ Separate!ReportAccounts /\ Separate!AtLeastOnceUnfiltered

\* Only the relay that claimed a row last marks it.
StaleCannotMark == [][(which = "outbox") => Outbox!StaleCannotMark]_workVars

\* Audit events are kept and in order: AggregateRecorder drops none it has numbered before it is stored, MemoryStore's
\* entries are one history per aggregate that queries answer from, the outbox claims and delivers a record after all
\* earlier revisions of its aggregate, and a publisher answers nil only for a record the service has.
HistoryKept ==
    /\ which = "history" => Audit!NothingDropped /\ Audit!HistoryKept
    /\ which = "outbox" => Outbox!OrderedPerAggregate
    /\ which = "publishers" => Audit!NilMeansTaken

\* What a runner reports is what happened: workreport's runners blame the failing work and stop where they must,
\* stepfunctions.Wait tells the execution's end from its own, nil from ForEach, Map and Pool means that every task ran,
\* statemachine's results chain up, and a converged rules.InferenceEngine is at a fixpoint and hides no failure.
FlowsHonest ==
    /\ which = "workflows" => Flows!CauseReported /\ Flows!StopsAfterAbort
    /\ which = "machine" => Flows!ResultsChain
    /\ which = "tasks" => Flows!NilMeansAllRan /\ Flows!RoundsAreEven
    /\ which = "executions" => Services!WaitsHonestly
    /\ which = "rules" => Flows!ConvergedIsFixpoint /\ Flows!ResultAccounts

\* AWS calls: what Receive hands over under a message is what was sent with it, a message on the queue has its object,
\* and a Send that may have left an object or a message behind says so (sqsextended); a lookup gives the value it was
\* asked for and WriteAll counts what the table took; a vector request stays within its limits and an error tells whether
\* it was sent; and a KMS envelope opens only as it was sealed.
OutcomesKnown ==
    /\ which = "queue" => Services!DeliveredIsSent /\ Services!MessagesBacked /\ Services!OrphansReported
    /\ which = "lookups" => Clients!LookupsKept /\ Clients!WritesAccounted
    /\ which = "vectors" => Services!SentFits /\ Services!OutcomesHonest
    /\ which = "envelopes" => Clients!OpensAsSealed /\ Clients!KeysZeroed /\ Clients!EncodingIsUnique

=============================================================================
